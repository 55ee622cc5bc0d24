----------------------------- MODULE SandboxProofs -----------------------------
(***************************************************************************)
(* What holds of the sandbox.  Of `sandbox run`, for any tree, number of   *)
(* steps and limit: the inductive invariants only say which snapshots      *)
(* agree at which stage of the helper, and which endings a stage stands    *)
(* for.  Of the planner, for any program and scenario: what the walk has   *)
(* found and what its queue holds are together neither more nor less than  *)
(* what follows, what is emitted has all before it that it waits for, and  *)
(* what the plan and the helper ask of one another is the same.            *)
(***************************************************************************)
EXTENDS SandboxRun, ScenarioPlanner, GraphProofs, SequenceTheorems

\* A completed snapshot is a tree.
LEMMA WalkIsTree ==
  ASSUME SandboxAssumption, TypeOK, Walked
  PROVE  walk \in Tree /\ walk' \in Seq(Contents) /\ Len(walk') <= FileCount
  BY DEF SandboxAssumption, TypeOK, Walked, Tree, Files

\* The world's steps, the snapshots and the clocks keep their types.
LEMMA WorldTypes ==
  ASSUME SandboxAssumption, TypeOK,
         \/ ReadFile
         \/ Tick
         \/ \E f \in Files : StepReads(f) \/ \E c \in Contents : Edit(f, c),
         Backend # "oci" /\ workload => view \in Tree
  PROVE  TypeOK'
<1> USE DEF sourceVars, planVars, cliVars, clockVars, stepVars, historyVars
<1>1. CASE ReadFile
  <2>1. source[Len(walk) + 1] \in Contents
    BY <1>1 DEF ReadFile, SandboxAssumption, TypeOK, Tree, Files
  <2>2. walk' \in Seq(Contents) /\ Len(walk') <= FileCount
    BY <1>1, <2>1 DEF ReadFile, SandboxAssumption, TypeOK
  <2> QED
    BY <1>1, <2>2 DEF ReadFile, TypeOK
<1>2. CASE Tick
  <2>1. elapsed' \in 0 .. WallLimit /\ lasted' \in 0 .. WallLimit
    BY <1>2 DEF Tick, Counting, SandboxAssumption, TypeOK
  <2> QED
    BY <1>2, <2>1 DEF Tick, TypeOK
<1>3. ASSUME NEW f \in Files, StepReads(f)
      PROVE  TypeOK'
  <2>1. (IF Backend # "oci" THEN view[f] ELSE source[f]) \in Contents
    BY <1>3 DEF StepReads, TypeOK, Tree, SandboxAssumption
  <2>2. observed' \subseteq Files \X Contents
    BY <1>3, <2>1 DEF StepReads, TypeOK
  <2> QED
    BY <1>3, <2>2 DEF StepReads, TypeOK
<1>4. ASSUME NEW f \in Files, NEW c \in Contents, Edit(f, c)
      PROVE  TypeOK'
  <2>1. source' \in Tree
    BY <1>4 DEF Edit, TypeOK, Tree
  <2> QED
    BY <1>4, <2>1 DEF Edit, TypeOK
<1> QED
  BY <1>1, <1>2, <1>3, <1>4

-----------------------------------------------------------------------------

Verified == {"source", "scratch", "prepare", "next", "running", "finish",
             "succeeded"}
Copied == Verified \ {"source"}

\* Which trees agree: the plan's is fixed before the helper starts, the
\* helper's is equal to it once verified, and so is the private copy.
TreesAgree ==
  /\ cli \in {"capture", "launch"} => helper = "off"
  /\ helper = "off" => /\ cli \in {"capture", "launch", "exited"}
                       /\ ~workload /\ observed = {}
  /\ helper \notin {"off"} => planned \in Tree
  /\ cli = "launch" => planned \in Tree
  /\ helper \in Verified => baseline = planned
  /\ Backend # "oci" =>
       /\ helper \in Copied => view = planned
       /\ workload => helper \in {"running", "killed"} /\ view = planned
       /\ StepsSeePlannedSource

\* The bodies the helper records are bodies.
LEMMA EventsAreTyped ==
  ASSUME SandboxAssumption
  PROVE  /\ [kind |-> "backend", id |-> Backend, controls |-> Asked] \in EventType
         /\ [kind |-> "controls", names |-> Asked] \in EventType
         /\ \A s \in Steps, r \in BOOLEAN :
              [kind |-> "start", step |-> s, redacted |-> r] \in EventType
         /\ \A c \in {0, 1} : [kind |-> "exit", code |-> c] \in EventType
         /\ \A w \in SUBSET Touched, d \in SUBSET Touched : Changes(w, d) \in EventType
         /\ \A n \in 0 .. NumSteps : [kind |-> "resource", value |-> n] \in EventType
         /\ \A l \in SUBSET Steps : [kind |-> "log", value |-> l] \in EventType
         /\ \A t \in Tree, w \in SUBSET Touched, d \in SUBSET Touched :
              [kind |-> "final", value |-> [tree |-> t, written |-> w, deleted |-> d]]
                \in EventType
  BY DEF EventType, Changes

\* An exit code is 0 or not.
LEMMA CodesAreTwo == \A how \in Endings : ExitCodes[how] \subseteq {0, 1}
  BY DEF Endings, ExitCodes

\* The helper's own steps keep the types.
LEMMA HelperTypes ==
  ASSUME SandboxAssumption, TypeOK, HelperStep, ~ReadFile,
         helper # "off" => planned \in Tree
  PROVE  TypeOK'
<1> USE DEF sourceVars, planVars, cliVars, clockVars, stepVars, historyVars
<1>0. CASE ReadPlan
  BY <1>0 DEF ReadPlan, Moves, TypeOK, HelperStages
<1>1. CASE Verify \/ CopySource \/ CopyScratch
  <2>1. walk \in Tree /\ walk' \in Seq(Contents) /\ Len(walk') <= FileCount
    BY <1>1, WalkIsTree DEF Verify, CopySource, CopyScratch
  <2>2. helper' \in HelperStages
    BY <1>1 DEF Verify, CopySource, CopyScratch, Moves, HelperStages
  <2>3. baseline' \in Tree \cup {NoTree} /\ view' \in Tree \cup {NoTree}
    BY <1>1, <2>1 DEF Verify, CopySource, CopyScratch, TypeOK
  <2> QED
    BY <1>1, <2>1, <2>2, <2>3 DEF Verify, CopySource, CopyScratch, TypeOK
<1>2. CASE Prepare
  <2>1. evidence' \in Seq(EventType)
    <3> DEFINE attested == [kind |-> "backend", id |-> Backend, controls |-> Asked]
               enforced == [kind |-> "controls", names |-> Asked]
    <3>1. attested \in EventType /\ enforced \in EventType
      BY EventsAreTyped
    <3>2. evidence' = <<attested, enforced>>
      BY <1>2 DEF Prepare
    <3> HIDE DEF attested, enforced
    <3> QED
      BY <3>1, <3>2
  <2> QED
    BY <1>2, <2>1 DEF Prepare, TypeOK, Moves, HelperStages
<1>3. CASE StartStep
  <2>1. step' \in Steps /\ step' \in 0 .. NumSteps
    BY <1>3 DEF StartStep, SandboxAssumption, TypeOK, Steps
  <2> DEFINE masked == Backend # "oci" /\ step' \in revealing
             start == [kind |-> "start", step |-> step', redacted |-> masked]
  <2>2. start \in EventType
    <3>1. masked \in BOOLEAN
      OBVIOUS
    <3> HIDE DEF masked
    <3> QED
      BY <2>1, <3>1, EventsAreTyped
  <2>3. evidence' = Append(evidence, start)
    BY <1>3 DEF StartStep
  <2>4. evidence' \in Seq(EventType)
    <3> HIDE DEF start
    <3> QED
      BY <2>2, <2>3 DEF TypeOK
  <2> QED
    BY <1>3, <2>1, <2>4
    DEF StartStep, TypeOK, Moves, HelperStages, SandboxAssumption
<1>4. ASSUME NEW how \in Endings, NEW code \in {0, 1}, EndStep(how, code)
      PROVE  TypeOK'
  <2>1. evidence' \in Seq(EventType)
    <3> DEFINE exit == [kind |-> "exit", code |-> code]
    <3>1. exit \in EventType
      BY EventsAreTyped
    <3>2. evidence' = Append(evidence, exit)
      BY <1>4 DEF EndStep
    <3> HIDE DEF exit
    <3> QED
      BY <3>1, <3>2 DEF TypeOK
  <2>2. endings' \in Seq(Endings) /\ outcome' \in Endings
    BY <1>4 DEF EndStep, TypeOK
  <2>3. workload' \in BOOLEAN /\ helper' \in HelperStages
    BY <1>4 DEF EndStep, Moves, HelperStages
  <2> QED
    BY <1>4, <2>1, <2>2, <2>3 DEF EndStep, TypeOK
<1>5. ASSUME NEW written \in SUBSET Touched, NEW deleted \in SUBSET Touched,
             Finish(written, deleted)
      PROVE  TypeOK'
  <2> DEFINE changes == Changes(written, deleted)
             resource == [kind |-> "resource", value |-> step]
             log == [kind |-> "log", value |-> 1 .. step]
             final == [kind |-> "final", value |->
                         [tree |-> planned, written |-> written, deleted |-> deleted]]
  <2>1. changes \in EventType
    BY EventsAreTyped
  <2>2. resource \in EventType
    BY EventsAreTyped DEF TypeOK
  <2>3. log \in EventType
    <3>1. 1 .. step \in SUBSET Steps
      BY DEF TypeOK, Steps, SandboxAssumption
    <3> QED
      BY <3>1, EventsAreTyped
  <2>4. final \in EventType
    <3>1. planned \in Tree
      BY <1>5 DEF Finish
    <3> QED
      BY <3>1, EventsAreTyped
  <2>5. evidence' = evidence \o <<changes, resource, log, final>>
    BY <1>5 DEF Finish
  <2> HIDE DEF changes, resource, log, final
  <2>6. evidence' \in Seq(EventType)
    BY <2>1, <2>2, <2>3, <2>4, <2>5 DEF TypeOK
  <2> QED
    BY <1>5, <2>6 DEF Finish, TypeOK, HelperStages
<1>6. CASE Fail
  <2>1. walk' \in Seq(Contents) /\ Len(walk') <= FileCount
    BY <1>6 DEF Fail, SandboxAssumption
  <2>2. workload' \in BOOLEAN
    BY <1>6 DEF Fail, TypeOK
  <2> QED
    BY <1>6, <2>1, <2>2 DEF Fail, TypeOK, HelperStages
<1> QED
  BY <1>0, <1>1, <1>2, <1>3, <1>4, <1>5, <1>6, CodesAreTwo
  DEF HelperStep, StepEnds, RunFinishes

\* The command line's steps keep the types.
LEMMA CliTypes ==
  ASSUME SandboxAssumption, TypeOK, CliStep, ~ReadFile
  PROVE  TypeOK'
<1> USE DEF sourceVars, planVars, cliVars, clockVars, stepVars, historyVars
<1>1. CASE Plan
  <2>1. walk \in Tree /\ walk' \in Seq(Contents) /\ Len(walk') <= FileCount
    BY <1>1, WalkIsTree DEF Plan
  <2> QED
    BY <1>1, <2>1 DEF Plan, Ends, TypeOK
<1>2. CASE Launch \/ StartClock \/ Look
  BY <1>2 DEF Launch, StartClock, Look, TypeOK, HelperStages
<1>3. CASE Terminate
  <2>1. walk' \in Seq(Contents) /\ Len(walk') <= FileCount
    BY <1>3 DEF Terminate, SandboxAssumption
  <2>2. workload' \in BOOLEAN /\ helper' \in HelperStages
    BY <1>3 DEF Terminate, TypeOK, HelperStages
  <2> QED
    BY <1>3, <2>1, <2>2 DEF Terminate, Ends, TypeOK
<1>4. CASE WriteFails \/ Check
  BY <1>4 DEF WriteFails, Check, Ends, TypeOK
<1> QED
  BY <1>1, <1>2, <1>3, <1>4 DEF CliStep
-----------------------------------------------------------------------------

TreesInv == TypeOK /\ TreesAgree

\* Initially nothing has been planned, copied or read.
LEMMA TreesInvInit ==
  ASSUME SandboxAssumption, Init
  PROVE  TreesInv
<1>1. TypeOK
  <2>1. <<>> \in Seq(Contents) /\ <<>> \in Seq(EventType) /\ <<>> \in Seq(Endings)
    OBVIOUS
  <2>2. Len(<<>>) <= FileCount
    BY DEF SandboxAssumption
  <2>3. 0 \in 0 .. WallLimit /\ 0 \in 0 .. NumSteps
    BY DEF SandboxAssumption
  <2> QED
    BY <2>1, <2>2, <2>3 DEF Init, TypeOK, HelperStages, Endings
<1>2. TreesAgree
  BY DEF Init, TreesAgree, Verified, Copied, StepsSeePlannedSource
<1> QED
  BY <1>1, <1>2 DEF TreesInv

\* Every step keeps the types: a native workload reads the private copy, which
\* exists by then.
LEMMA TypesKept ==
  ASSUME SandboxAssumption, TreesInv, [Next]_vars
  PROVE  TypeOK'
<1>1. TypeOK
  BY DEF TreesInv
<1>2. Backend # "oci" /\ workload => view \in Tree
  BY DEF TreesInv, TreesAgree, Verified, Copied
<1>3. CASE ReadFile \/ Tick
           \/ \E f \in Files : StepReads(f) \/ \E c \in Contents : Edit(f, c)
  BY <1>1, <1>2, <1>3, WorldTypes
<1>4. CASE HelperStep /\ ~ReadFile
  <2>1. helper # "off" => planned \in Tree
    BY DEF TreesInv, TreesAgree
  <2> QED
    BY <1>1, <1>4, <2>1, HelperTypes
<1>5. CASE CliStep /\ ~ReadFile
  BY <1>1, <1>5, CliTypes
<1>6. CASE UNCHANGED vars
  BY <1>1, <1>6 DEF vars, sourceVars, planVars, cliVars, clockVars, stepVars,
                    historyVars, TypeOK
<1> QED
  BY <1>3, <1>4, <1>5, <1>6 DEF Next

\* Every step keeps the trees in agreement.  The interesting ones are Verify,
\* after which the helper's tree is the plan's, CopySource, after which the
\* copy is too, and StepReads, which relies on both; Plan changes the plan
\* when nothing has been read yet.
LEMMA TreesStayInAgreement ==
  ASSUME SandboxAssumption, TreesInv, [Next]_vars
  PROVE  TreesAgree'
<1> USE DEF sourceVars, planVars, cliVars, clockVars, stepVars, historyVars,
            Verified, Copied, StepsSeePlannedSource
<1>1. TypeOK /\ TreesAgree
  BY DEF TreesInv
<1>2. ASSUME ReadFile \/ Tick \/ UNCHANGED vars
      PROVE  TreesAgree'
  BY <1>1, <1>2 DEF ReadFile, Tick, vars, TreesAgree
<1>3. ASSUME NEW f \in Files, StepReads(f)
      PROVE  TreesAgree'
  BY <1>1, <1>3 DEF StepReads, TreesAgree
<1>4. ASSUME NEW f \in Files, NEW c \in Contents, Edit(f, c)
      PROVE  TreesAgree'
  BY <1>1, <1>4 DEF Edit, TreesAgree
<1>5. CASE ReadPlan \/ Verify
  BY <1>1, <1>5 DEF ReadPlan, Verify, Moves, TreesAgree
<1>6. CASE CopySource
  BY <1>1, <1>6 DEF CopySource, Moves, TreesAgree
<1>7. CASE CopyScratch
  BY <1>1, <1>7 DEF CopyScratch, Moves, TreesAgree, SandboxAssumption
<1>8. CASE Prepare \/ RunFinishes
  <2>1. CASE Prepare
    BY <1>1, <2>1 DEF Prepare, Moves, TreesAgree
  <2>2. ASSUME NEW written, NEW deleted, Finish(written, deleted)
        PROVE  TreesAgree'
    <3>1. /\ helper' = "succeeded" /\ helper \in {"finish", "next"}
          /\ UNCHANGED <<planned, cli, baseline, view, workload, observed>>
      BY <2>2 DEF Finish
    <3> QED
      BY <1>1, <3>1 DEF TreesAgree
  <2> QED
    BY <1>8, <2>1, <2>2 DEF RunFinishes
<1>9. CASE StartStep
  BY <1>1, <1>9 DEF StartStep, Moves, TreesAgree
<1>10. ASSUME NEW how \in Endings, NEW code, EndStep(how, code)
       PROVE  TreesAgree'
  BY <1>1, <1>10 DEF EndStep, Moves, TreesAgree
<1>11. CASE Fail
  BY <1>1, <1>11 DEF Fail, TreesAgree
<1>12. CASE Plan
  <2>1. walk \in Tree
    BY <1>1, <1>12, WalkIsTree DEF Plan
  <2> QED
    BY <1>1, <1>12, <2>1 DEF Plan, Ends, TreesAgree
<1>13. CASE Launch
  BY <1>1, <1>13 DEF Launch, TreesAgree
<1>14. CASE StartClock \/ WriteFails \/ Look \/ Check
  BY <1>1, <1>14 DEF StartClock, WriteFails, Look, Check, Ends, TreesAgree
<1>15. CASE Terminate
  BY <1>1, <1>15 DEF Terminate, Ends, TreesAgree, HelperGone
<1> QED
  BY <1>2, <1>3, <1>4, <1>5, <1>6, <1>7, <1>8, <1>9, <1>10, <1>11, <1>12,
     <1>13, <1>14, <1>15 DEF Next, HelperStep, StepEnds, CliStep

\* The inductive invariant holds of every behaviour.
LEMMA TreesAlwaysAgree ==
  ASSUME SandboxAssumption
  PROVE  Spec => []TreesInv
<1>1. Init => TreesInv
  BY TreesInvInit
<1>2. TreesInv /\ [Next]_vars => TreesInv'
  BY TypesKept, TreesStayInAgreement DEF TreesInv
<1> QED
  BY <1>1, <1>2, PTL DEF Spec

\* The command, its helper and the steps are well typed for any tree, number
\* of steps and limit, on either kind of backend.
THEOREM SandboxTypeOK == Spec => []TypeOK
<1>1. TreesInv => TypeOK
  BY DEF TreesInv
<1> QED
  BY <1>1, TreesAlwaysAgree, SandboxAssumption, PTL

\* With a native helper, whatever is edited and whenever, the steps read the
\* tree that was analysed: snapshots taken file by file, compared by digest
\* and copied from memory leave no moment at which another tree gets in.
THEOREM NativeStepsSeePlannedSource ==
  ASSUME Backend # "oci"
  PROVE  Spec => []StepsSeePlannedSource
<1>1. TreesInv => StepsSeePlannedSource
  BY DEF TreesInv, TreesAgree
<1> QED
  BY <1>1, TreesAlwaysAgree, SandboxAssumption, PTL
-----------------------------------------------------------------------------

\* The first n steps have completed, and no more was run.
Completed(n) ==
  Len(endings) = n /\ \A i \in 1 .. n : endings[i] = "completed"

\* The last step that was run is the only one that did not complete.
StoppedShort ==
  /\ Len(endings) \in Nat \ {0}
  /\ outcome = endings[Len(endings)]
  /\ \A i \in DOMAIN endings : endings[i] = "completed" <=> i < Len(endings)

AllCompleted == outcome = "completed" /\ Completed(NumSteps)

\* Which endings each stage of the helper stands for, and that a verdict is
\* only given on a helper that has finished.
EndingsMatchStage ==
  /\ helper \in {"off", "reading", "baseline", "source", "scratch", "prepare"} =>
       step = 0 /\ outcome = "completed" /\ Completed(0)
  /\ helper = "next" => outcome = "completed" /\ Completed(step)
  /\ helper = "running" => step > 0 /\ Completed(step - 1)
  /\ helper = "finish" => StoppedShort
  /\ helper = "succeeded" => AllCompleted \/ StoppedShort
  /\ cli # "exited" => exit_code = "none"
  /\ cli \in {"capture", "launch"} => helper = "off"
  /\ exit_code \in {"pass", "finding"} => helper = "succeeded"
  /\ exit_code = "pass" => outcome = "completed"
  /\ exit_code = "finding" => outcome # "completed"

VerdictInv == TypeOK /\ EndingsMatchStage

\* The stages and their endings at the start.
LEMMA VerdictInvInit ==
  ASSUME SandboxAssumption, Init
  PROVE  VerdictInv
<1>1. TypeOK
  BY TreesInvInit DEF TreesInv
<1>2. Completed(0)
  BY DEF Init, Completed
<1> QED
  BY <1>1, <1>2 DEF Init, VerdictInv, EndingsMatchStage

\* A step of anybody that changes neither the endings, the outcome nor the
\* step leaves what the endings say as it was.
LEMMA EndingsFramed ==
  ASSUME UNCHANGED <<endings, outcome>>
  PROVE  /\ \A n : Completed(n)' = Completed(n)
         /\ StoppedShort' = StoppedShort
         /\ AllCompleted' = AllCompleted
  BY DEF Completed, StoppedShort, AllCompleted

\* EndStep is the step that adds an ending.
LEMMA EndStepKeepsVerdict ==
  ASSUME SandboxAssumption, VerdictInv, NEW how \in Endings, NEW code,
         EndStep(how, code)
  PROVE  EndingsMatchStage'
<1> USE DEF sourceVars, planVars, cliVars, clockVars, stepVars, historyVars
<1>1. /\ endings \in Seq(Endings) /\ step \in Nat /\ step > 0
      /\ Completed(step - 1) /\ helper = "running"
  BY DEF VerdictInv, TypeOK, EndingsMatchStage, EndStep, Moves,
         SandboxAssumption
<1>2. /\ Len(endings') = step /\ DOMAIN endings' = 1 .. step
      /\ endings'[step] = how
      /\ \A i \in 1 .. step - 1 : endings'[i] = "completed"
  BY <1>1 DEF EndStep, Completed
<1>3. CASE how = "completed"
  <2>1. Completed(step)' /\ helper' = "next" /\ outcome' = "completed"
    BY <1>1, <1>2, <1>3 DEF Completed, EndStep, Moves
  <2> QED
    BY <1>1, <2>1 DEF VerdictInv, EndingsMatchStage, EndStep, Completed
<1>4. CASE how # "completed"
  <2>1. StoppedShort' /\ helper' = "finish"
    BY <1>1, <1>2, <1>4 DEF StoppedShort, EndStep, Moves
  <2> QED
    BY <1>1, <2>1 DEF VerdictInv, EndingsMatchStage, EndStep
<1> QED
  BY <1>3, <1>4

\* Every other step goes from a stage to one that stands for the same endings.
LEMMA VerdictKept ==
  ASSUME SandboxAssumption, VerdictInv, [Next]_vars
  PROVE  EndingsMatchStage'
<1> USE DEF sourceVars, planVars, cliVars, clockVars, stepVars, historyVars
<1>1. EndingsMatchStage /\ step \in 0 .. NumSteps /\ NumSteps \in Nat
  BY DEF VerdictInv, TypeOK, SandboxAssumption
<1>2. ASSUME NEW how \in Endings, NEW code, EndStep(how, code)
      PROVE  EndingsMatchStage'
  BY <1>2, EndStepKeepsVerdict
<1>3. ASSUME UNCHANGED <<helper, step, outcome, endings>>,
             UNCHANGED <<cli, exit_code>>
      PROVE  EndingsMatchStage'
  BY <1>1, <1>3, EndingsFramed DEF EndingsMatchStage
<1>4. CASE \/ ReadFile \/ Tick \/ UNCHANGED vars
           \/ \E f \in Files : StepReads(f) \/ \E c \in Contents : Edit(f, c)
  BY <1>3, <1>4 DEF ReadFile, Tick, StepReads, Edit, vars
<1>5. CASE ReadPlan \/ Verify \/ CopySource \/ CopyScratch \/ Prepare \/ Fail
  <2>1. UNCHANGED <<step, outcome, endings, cli, exit_code>>
    BY <1>5 DEF ReadPlan, Verify, CopySource, CopyScratch, Prepare, Fail
  <2>2. \/ helper \in {"reading", "baseline", "source", "scratch", "prepare"}
           /\ helper' \in {"baseline", "source", "scratch", "prepare", "next", "refused"}
        \/ helper \notin {"off", "succeeded"} /\ helper' = "refused"
    BY <1>5 DEF ReadPlan, Verify, CopySource, CopyScratch, Prepare, Fail, Moves
  <2> QED
    BY <1>1, <2>1, <2>2, EndingsFramed DEF EndingsMatchStage
<1>6. CASE StartStep
  <2>1. /\ UNCHANGED <<outcome, endings, cli, exit_code>>
        /\ helper = "next" /\ helper' = "running" /\ step' = step + 1
    BY <1>6 DEF StartStep, Moves
  <2>2. Completed(step - 1)' /\ step' > 0
    BY <1>1, <2>1 DEF EndingsMatchStage, Completed
  <2> QED
    BY <1>1, <2>1, <2>2 DEF EndingsMatchStage
<1>7. CASE RunFinishes
  <2>1. UNCHANGED <<step, outcome, endings, cli, exit_code>>
    BY <1>7 DEF RunFinishes, Finish
  <2>2. helper' = "succeeded" /\ (AllCompleted \/ StoppedShort)
    BY <1>1, <1>7 DEF RunFinishes, Finish, EndingsMatchStage, AllCompleted
  <2>3. helper \in {"next", "finish"}
    BY <1>7 DEF RunFinishes, Finish
  <2> QED
    BY <1>1, <2>1, <2>2, <2>3, EndingsFramed DEF EndingsMatchStage
<1>8. CASE Plan \/ Launch \/ StartClock \/ Look
  <2>1. UNCHANGED <<step, outcome, endings>>
    BY <1>8 DEF Plan, Launch, StartClock, Look
  <2>2. CASE Launch
    <3>1. /\ helper = "off" /\ helper' = "reading"
          /\ cli # "exited" /\ cli' = "clock" /\ exit_code' = exit_code
      BY <1>1, <2>2 DEF Launch, EndingsMatchStage
    <3> QED
      BY <1>1, <2>1, <3>1, EndingsFramed DEF EndingsMatchStage
  <2>3. CASE Plan
    <3>1. helper' = helper /\ helper = "off" /\ exit_code = "none"
      BY <1>1, <2>3 DEF Plan, EndingsMatchStage
    <3>2. \/ cli' = "launch" /\ exit_code' = exit_code
          \/ cli' = "exited" /\ exit_code' = "incomplete"
      BY <2>3 DEF Plan, Ends
    <3> QED
      BY <1>1, <2>1, <3>1, <3>2, EndingsFramed DEF EndingsMatchStage
  <2>4. CASE StartClock \/ Look
    <3>1. /\ helper' = helper /\ exit_code' = exit_code
          /\ cli # "exited" /\ cli' \in {"look", "check", "kill"}
      BY <2>4 DEF StartClock, Look
    <3> QED
      BY <1>1, <2>1, <3>1, EndingsFramed DEF EndingsMatchStage
  <2> QED
    BY <1>8, <2>2, <2>3, <2>4
<1>9. CASE Terminate
  <2>1. UNCHANGED <<step, outcome, endings>>
    BY <1>9 DEF Terminate
  <2>2. helper' = helper \/ helper' = "killed"
    BY <1>9 DEF Terminate
  <2>3. cli' = "exited" /\ exit_code' = "infrastructure"
    BY <1>9 DEF Terminate, Ends
  <2> QED
    BY <1>1, <2>1, <2>2, <2>3, EndingsFramed DEF EndingsMatchStage
<1>10. CASE WriteFails \/ Check
  <2>1. UNCHANGED <<helper, step, outcome, endings>> /\ cli' = "exited"
    BY <1>10 DEF WriteFails, Check, Ends
  <2>2. /\ exit_code' \in {"pass", "finding"} => helper = "succeeded"
        /\ exit_code' = "pass" => outcome = "completed"
        /\ exit_code' = "finding" => outcome # "completed"
    BY <1>10 DEF WriteFails, Check, Ends
  <2> QED
    BY <1>1, <2>1, <2>2, EndingsFramed DEF EndingsMatchStage
<1> QED
  BY <1>2, <1>4, <1>5, <1>6, <1>7, <1>8, <1>9, <1>10
  DEF Next, HelperStep, StepEnds, CliStep

\* What the invariant says of a verdict.
LEMMA VerdictFollows ==
  ASSUME SandboxAssumption, VerdictInv
  PROVE  VerdictIsEarned
<1>1. endings \in Seq(Endings)
  BY DEF VerdictInv, TypeOK
<1>2. ASSUME exit_code = "pass"
      PROVE  endings = [i \in Steps |-> "completed"]
  <2>1. AllCompleted \/ StoppedShort
    BY <1>2 DEF VerdictInv, EndingsMatchStage
  <2>2. ~StoppedShort
    BY <1>1, <1>2 DEF VerdictInv, EndingsMatchStage, StoppedShort
  <2> QED
    BY <1>1, <2>1, <2>2 DEF AllCompleted, Completed, Steps
<1>3. ASSUME exit_code = "finding"
      PROVE  StoppedShort
  BY <1>3 DEF VerdictInv, EndingsMatchStage, AllCompleted
<1> QED
  BY <1>1, <1>2, <1>3 DEF VerdictIsEarned, StoppedShort

\* The exit code says what the steps did, for any number of them: 0 stands for
\* every planned step run to success, 1 for a last one that did not succeed.
THEOREM VerdictsAreEarned == Spec => []VerdictIsEarned
<1>1. Init => VerdictInv
  BY VerdictInvInit, SandboxAssumption
<1>2. TypeOK' /\ VerdictInv /\ [Next]_vars => VerdictInv'
  BY VerdictKept, SandboxAssumption DEF VerdictInv
<1>3. VerdictInv => VerdictIsEarned
  BY VerdictFollows, SandboxAssumption
<1> QED
  BY <1>1, <1>2, <1>3, SandboxTypeOK, PTL DEF Spec
-----------------------------------------------------------------------------
(***************************************************************************)
(* What the evidence of a helper looks like at each of its stages.         *)
(***************************************************************************)

Attested == [kind |-> "backend", id |-> Backend, controls |-> Asked]
Enforced == [kind |-> "controls", names |-> Asked]
StartOf(rev, i) ==
  [kind |-> "start", step |-> i, redacted |-> Backend # "oci" /\ i \in rev]

\* The first records, those of the starts and ends of `n` steps that ended as
\* `ends` says, and the last ones.
Opened(ev) == ev[1] = Attested /\ ev[2] = Enforced
StartedSteps(ev, rev, n) == \A i \in 1 .. n : ev[2 * i + 1] = StartOf(rev, i)
Exited(ev, ends, n) ==
  \A i \in 1 .. n : \E code \in ExitCodes[ends[i]] :
     ev[2 * i + 2] = [kind |-> "exit", code |-> code]
Lived(ev, rev, ends, n) ==
  Len(ends) = n /\ Opened(ev) /\ StartedSteps(ev, rev, n) /\ Exited(ev, ends, n)
Closed(ev, n) ==
  /\ \E w, d \in SUBSET Touched : ev[2 * n + 3] = Changes(w, d)
  /\ ev[2 * n + 4].kind = "resource"
  /\ ev[2 * n + 5].kind = "log"
  /\ ev[2 * n + 6].kind = "final"

EvidenceShape ==
  /\ helper \in {"next", "finish"} =>
       Len(evidence) = 2 * step + 2 /\ Lived(evidence, revealing, endings, step)
  /\ helper = "finish" => step # 0
  /\ helper = "running" =>
       /\ step # 0 /\ Len(endings) = step - 1
       /\ Len(evidence) = 2 * step + 1
       /\ Opened(evidence) /\ StartedSteps(evidence, revealing, step)
       /\ Exited(evidence, endings, step - 1)
  /\ helper = "succeeded" =>
       /\ step # 0
       /\ Len(evidence) = 2 * step + 6
       /\ Lived(evidence, revealing, endings, step) /\ Closed(evidence, step)

EvidenceInv == TypeOK /\ TreesAgree /\ EndingsMatchStage /\ EvidenceShape

\* Another record, or the four closing ones, come behind those there are.
LEMMA OneMore ==
  ASSUME NEW T, NEW s \in Seq(T), NEW x, NEW t, t = Append(s, x)
  PROVE  /\ Len(t) = Len(s) + 1 /\ t[Len(s) + 1] = x
         /\ \A i \in 1 .. Len(s) : t[i] = s[i]
<1> DEFINE U == T \cup {x}
<1>1. s \in Seq(U) /\ x \in U
  OBVIOUS
<1> HIDE DEF U
<1> QED
  BY <1>1, AppendProperties

LEMMA FourMore ==
  ASSUME NEW T, NEW s \in Seq(T), NEW a, NEW b, NEW c, NEW d,
         NEW t, t = s \o <<a, b, c, d>>, NEW l, l = Len(s)
  PROVE  /\ Len(t) = l + 4
         /\ t[l + 1] = a /\ t[l + 2] = b /\ t[l + 3] = c /\ t[l + 4] = d
         /\ \A i \in 1 .. l : t[i] = s[i]
<1> DEFINE U == T \cup {a, b, c, d}
           r == <<a, b, c, d>>
<1>1. s \in Seq(U) /\ r \in Seq(U) /\ l \in Nat
  OBVIOUS
<1>2. Len(r) = 4 /\ r[1] = a /\ r[2] = b /\ r[3] = c /\ r[4] = d
  OBVIOUS
<1>3. t = s \o r
  OBVIOUS
<1> HIDE DEF U, r
<1>4. /\ Len(t) = l + 4
      /\ \A i \in 1 .. l + 4 : t[i] = IF i <= l THEN s[i] ELSE r[i - l]
  BY <1>1, <1>2, <1>3, ConcatProperties
<1>5. /\ l + 1 \in 1 .. l + 4 /\ l + 2 \in 1 .. l + 4
      /\ l + 3 \in 1 .. l + 4 /\ l + 4 \in 1 .. l + 4
      /\ (l + 1) - l = 1 /\ (l + 2) - l = 2 /\ (l + 3) - l = 3 /\ (l + 4) - l = 4
      /\ ~(l + 1 <= l) /\ ~(l + 2 <= l) /\ ~(l + 3 <= l) /\ ~(l + 4 <= l)
  BY <1>1
<1>6. t[l + 1] = a /\ t[l + 2] = b /\ t[l + 3] = c /\ t[l + 4] = d
  BY <1>2, <1>4, <1>5
<1>7. \A i \in 1 .. l : t[i] = s[i]
  BY <1>1, <1>4
<1> QED
  BY <1>4, <1>6, <1>7

\* What has been recorded stays when more is.
LEMMA RecordsStay ==
  ASSUME NEW ev, NEW more, NEW n \in Nat, NEW l \in Nat, NEW rev, NEW ends,
         \A i \in 1 .. l : more[i] = ev[i]
  PROVE  /\ l >= 2 /\ Opened(ev) => Opened(more)
         /\ l >= 2 * n + 1 /\ StartedSteps(ev, rev, n) => StartedSteps(more, rev, n)
         /\ l >= 2 * n + 2 /\ Exited(ev, ends, n) => Exited(more, ends, n)
<1>1. ASSUME l >= 2, Opened(ev)
      PROVE  Opened(more)
  <2>1. 1 \in 1 .. l /\ 2 \in 1 .. l
    BY <1>1
  <2> QED
    BY <1>1, <2>1 DEF Opened
<1>2. ASSUME l >= 2 * n + 1, StartedSteps(ev, rev, n), NEW i \in 1 .. n
      PROVE  more[2 * i + 1] = StartOf(rev, i)
  <2>1. 2 * i + 1 \in 1 .. l
    BY <1>2
  <2> QED
    BY <1>2, <2>1 DEF StartedSteps
<1>3. ASSUME l >= 2 * n + 2, Exited(ev, ends, n), NEW i \in 1 .. n
      PROVE  more[2 * i + 2] = ev[2 * i + 2]
  <2>1. 2 * i + 2 \in 1 .. l
    BY <1>3
  <2> QED
    BY <2>1
<1>4. ASSUME l >= 2 * n + 2, Exited(ev, ends, n)
      PROVE  Exited(more, ends, n)
  BY <1>3, <1>4 DEF Exited
<1>5. ASSUME l >= 2 * n + 1, StartedSteps(ev, rev, n)
      PROVE  StartedSteps(more, rev, n)
  BY <1>2, <1>5 DEF StartedSteps
<1> QED
  BY <1>1, <1>4, <1>5

LEMMA ShapeAtStart ==
  ASSUME SandboxAssumption, EvidenceInv, Prepare
  PROVE  EvidenceShape'
<1> DEFINE a == Attested
           c == Enforced
<1>1. evidence' = <<a, c>> /\ helper' = "next" /\ UNCHANGED <<step, endings, revealing>>
  BY DEF Prepare, Moves, Attested, Enforced, planVars, historyVars
<1>2. step = 0 /\ Len(endings) = 0
  BY DEF EvidenceInv, EndingsMatchStage, Completed, Prepare, Moves
<1>3. Len(evidence') = 2 /\ evidence'[1] = a /\ evidence'[2] = c
  <2> HIDE DEF a, c
  <2> QED
    BY <1>1
<1>4. 1 .. 0 = {}
  OBVIOUS
<1>5. Lived(evidence', revealing', endings', 0)
  BY <1>1, <1>2, <1>3, <1>4 DEF Lived, Opened, StartedSteps, Exited
<1> QED
  BY <1>1, <1>2, <1>3, <1>5 DEF EvidenceShape

LEMMA ShapeWhenStarted ==
  ASSUME SandboxAssumption, EvidenceInv, StartStep
  PROVE  EvidenceShape'
<1> DEFINE x == StartOf(revealing, step + 1)
           l == Len(evidence)
<1>1. /\ evidence' = Append(evidence, x) /\ step' = step + 1
      /\ helper = "next" /\ helper' = "running" /\ UNCHANGED <<endings, revealing>>
  BY DEF StartStep, Moves, StartOf, planVars, historyVars
<1>2. /\ l = 2 * step + 2 /\ step \in Nat /\ evidence \in Seq(EventType)
      /\ Len(endings) = step /\ Opened(evidence)
      /\ StartedSteps(evidence, revealing, step) /\ Exited(evidence, endings, step)
  BY <1>1 DEF EvidenceInv, EvidenceShape, Lived, TypeOK, SandboxAssumption
<1>3. /\ Len(evidence') = l + 1 /\ evidence'[l + 1] = x
      /\ \A i \in 1 .. l : evidence'[i] = evidence[i]
  <2> DEFINE s == evidence
             t == evidence'
  <2>1. s \in Seq(EventType) /\ t = Append(s, x) /\ l = Len(s)
    BY <1>1, <1>2
  <2> HIDE DEF s, t, l, x
  <2>2. /\ Len(t) = l + 1 /\ t[l + 1] = x
        /\ \A i \in 1 .. l : t[i] = s[i]
    BY <2>1, OneMore
  <2> QED
    BY <2>2 DEF s, t
<1>4. /\ Opened(evidence') /\ StartedSteps(evidence', revealing, step)
      /\ Exited(evidence', endings, step)
  <2> DEFINE ev == evidence
             more == evidence'
             rev == revealing
             ends == endings
             n == step
  <2>1. /\ n \in Nat /\ l \in Nat /\ l >= 2 /\ l >= 2 * n + 1 /\ l >= 2 * n + 2
        /\ \A i \in 1 .. l : more[i] = ev[i]
    BY <1>2, <1>3
  <2>2. Opened(ev) /\ StartedSteps(ev, rev, n) /\ Exited(ev, ends, n)
    BY <1>2
  <2> HIDE DEF ev, more, rev, ends, n, l
  <2>3. Opened(more) /\ StartedSteps(more, rev, n) /\ Exited(more, ends, n)
    BY <2>1, <2>2, RecordsStay
  <2> QED
    BY <2>3 DEF ev, more, rev, ends, n
<1>5. StartedSteps(evidence', revealing, step + 1)
  <2>1. \A i \in 1 .. step + 1 : i \in 1 .. step \/ i = step + 1
    BY <1>2
  <2>2. 2 * (step + 1) + 1 = l + 1
    BY <1>2
  <2> QED
    BY <1>3, <1>4, <2>1, <2>2 DEF StartedSteps
<1>6. step + 1 # 0 /\ step + 1 - 1 = step /\ l + 1 = 2 * (step + 1) + 1
  BY <1>2
<1> QED
  BY <1>1, <1>2, <1>3, <1>4, <1>5, <1>6 DEF EvidenceShape

LEMMA ShapeWhenEnded ==
  ASSUME SandboxAssumption, EvidenceInv, NEW how \in Endings,
         NEW code \in ExitCodes[how], EndStep(how, code)
  PROVE  EvidenceShape'
<1> DEFINE x == [kind |-> "exit", code |-> code]
           l == Len(evidence)
           m == step - 1
<1>1. /\ evidence' = Append(evidence, x) /\ step' = step
      /\ helper = "running" /\ helper' \in {"next", "finish"}
      /\ endings' = Append(endings, how) /\ UNCHANGED revealing
  BY DEF EndStep, Moves, planVars
<1>2. /\ l = 2 * m + 3 /\ m \in Nat /\ evidence \in Seq(EventType)
      /\ endings \in Seq(Endings) /\ step = m + 1 /\ step # 0
      /\ Len(endings) = m /\ Opened(evidence)
      /\ StartedSteps(evidence, revealing, step) /\ Exited(evidence, endings, m)
  BY <1>1 DEF EvidenceInv, EvidenceShape, TypeOK, SandboxAssumption
<1>3. /\ Len(evidence') = l + 1 /\ evidence'[l + 1] = x
      /\ \A i \in 1 .. l : evidence'[i] = evidence[i]
  <2> DEFINE s == evidence
             t == evidence'
  <2>1. s \in Seq(EventType) /\ t = Append(s, x) /\ l = Len(s)
    BY <1>1, <1>2
  <2> HIDE DEF s, t, l, x
  <2>2. /\ Len(t) = l + 1 /\ t[l + 1] = x
        /\ \A i \in 1 .. l : t[i] = s[i]
    BY <2>1, OneMore
  <2> QED
    BY <2>2 DEF s, t
<1>4. /\ Len(endings') = step /\ endings'[step] = how
      /\ \A i \in 1 .. m : endings'[i] = endings[i]
  BY <1>1, <1>2
<1>5. /\ Opened(evidence') /\ StartedSteps(evidence', revealing, step)
      /\ Exited(evidence', endings, m)
  <2> DEFINE ev == evidence
             more == evidence'
             rev == revealing
             ends == endings
             n == step
  <2>1. /\ n \in Nat /\ m \in Nat /\ l \in Nat /\ l >= 2
        /\ l >= 2 * n + 1 /\ l >= 2 * m + 2
        /\ \A i \in 1 .. l : more[i] = ev[i]
    BY <1>2, <1>3
  <2>2. Opened(ev) /\ StartedSteps(ev, rev, n) /\ Exited(ev, ends, m)
    BY <1>2
  <2> HIDE DEF ev, more, rev, ends, n, l, m
  <2>3. Opened(more) /\ StartedSteps(more, rev, n) /\ Exited(more, ends, m)
    BY <2>1, <2>2, RecordsStay
  <2> QED
    BY <2>3 DEF ev, more, rev, ends, n
<1>6. Exited(evidence', endings', step)
  <2>1. \A i \in 1 .. step : i \in 1 .. m \/ i = step
    BY <1>2
  <2>2. 2 * step + 2 = l + 1
    BY <1>2
  <2> HIDE DEF m, l, x
  <2>3. \A i \in 1 .. m : endings'[i] = endings[i]
    BY <1>4
  <2>4. \E c \in ExitCodes[endings'[step]] : evidence'[2 * step + 2] = [kind |-> "exit", code |-> c]
    BY <1>3, <1>4, <2>2 DEF x
  <2> QED
    BY <1>5, <2>1, <2>3, <2>4 DEF Exited
<1>7. l + 1 = 2 * step + 2
  BY <1>2
<1> QED
  BY <1>1, <1>2, <1>3, <1>4, <1>5, <1>6, <1>7 DEF EvidenceShape, Lived

LEMMA ShapeAtEnd ==
  ASSUME SandboxAssumption, EvidenceInv, NEW written \in SUBSET Touched,
         NEW deleted \in SUBSET Touched, Finish(written, deleted)
  PROVE  EvidenceShape'
<1> DEFINE c == Changes(written, deleted)
           r == [kind |-> "resource", value |-> step]
           g == [kind |-> "log", value |-> 1 .. step]
           f == [kind |-> "final", value |->
                   [tree |-> planned, written |-> written, deleted |-> deleted]]
           l == Len(evidence)
<1>1. /\ evidence' = evidence \o <<c, r, g, f>> /\ helper' = "succeeded"
      /\ UNCHANGED <<step, endings, revealing>>
      /\ helper = "finish" \/ (helper = "next" /\ step = NumSteps)
  BY DEF Finish, planVars, historyVars
<1>2. /\ l = 2 * step + 2 /\ step \in Nat /\ step # 0 /\ evidence \in Seq(EventType)
      /\ Len(endings) = step /\ Opened(evidence)
      /\ StartedSteps(evidence, revealing, step) /\ Exited(evidence, endings, step)
  BY <1>1 DEF EvidenceInv, EvidenceShape, Lived, TypeOK, SandboxAssumption
<1>3. /\ c.kind = "changes" /\ r.kind = "resource" /\ g.kind = "log" /\ f.kind = "final"
  BY DEF Changes
<1>4. /\ Len(evidence') = l + 4
      /\ evidence'[l + 1] = c /\ evidence'[l + 2] = r
      /\ evidence'[l + 3] = g /\ evidence'[l + 4] = f
      /\ \A i \in 1 .. l : evidence'[i] = evidence[i]
  <2> HIDE DEF c, r, g, f
  <2> DEFINE s == evidence
             t == evidence'
  <2>1. s \in Seq(EventType) /\ t = s \o <<c, r, g, f>> /\ l = Len(s)
    BY <1>1, <1>2
  <2> HIDE DEF s, t, l
  <2>2. /\ Len(t) = l + 4
        /\ t[l + 1] = c /\ t[l + 2] = r /\ t[l + 3] = g /\ t[l + 4] = f
        /\ \A i \in 1 .. l : t[i] = s[i]
    BY <2>1, FourMore
  <2> QED
    BY <2>2 DEF s, t
<1>5. /\ Opened(evidence') /\ StartedSteps(evidence', revealing, step)
      /\ Exited(evidence', endings, step)
  <2> DEFINE ev == evidence
             more == evidence'
             rev == revealing
             ends == endings
             n == step
  <2>1. /\ n \in Nat /\ l \in Nat /\ l >= 2 /\ l >= 2 * n + 1 /\ l >= 2 * n + 2
        /\ \A i \in 1 .. l : more[i] = ev[i]
    BY <1>2, <1>4
  <2>2. Opened(ev) /\ StartedSteps(ev, rev, n) /\ Exited(ev, ends, n)
    BY <1>2
  <2> HIDE DEF ev, more, rev, ends, n, l
  <2>3. Opened(more) /\ StartedSteps(more, rev, n) /\ Exited(more, ends, n)
    BY <2>1, <2>2, RecordsStay
  <2> QED
    BY <2>3 DEF ev, more, rev, ends, n
<1>6. Closed(evidence', step)
  <2>1. l + 1 = 2 * step + 3 /\ l + 2 = 2 * step + 4 /\ l + 3 = 2 * step + 5
        /\ l + 4 = 2 * step + 6
    BY <1>2
  <2> HIDE DEF c, r, g, f, l
  <2>2. evidence'[2 * step + 3] = Changes(written, deleted)
    BY <1>4, <2>1 DEF c
  <2> QED
    BY <1>3, <1>4, <2>1, <2>2 DEF Closed
<1>7. l + 4 = 2 * step + 6
  BY <1>2
<1> QED
  BY <1>1, <1>2, <1>4, <1>5, <1>6, <1>7 DEF EvidenceShape, Lived

\* No other step of anybody touches what has been recorded.
LEMMA ShapeKept ==
  ASSUME SandboxAssumption, EvidenceInv, [Next]_vars
  PROVE  EvidenceShape'
<1> USE DEF sourceVars, planVars, cliVars, clockVars, stepVars, historyVars
<1>1. ASSUME UNCHANGED <<helper, step, evidence, endings, revealing>>
      PROVE  EvidenceShape'
  BY <1>1 DEF EvidenceInv, EvidenceShape
<1>2. ASSUME helper' \notin {"next", "finish", "running", "succeeded"}
      PROVE  EvidenceShape'
  BY <1>2 DEF EvidenceShape
<1>3. CASE \/ ReadFile \/ Tick \/ UNCHANGED vars
           \/ \E f \in Files : StepReads(f) \/ \E c \in Contents : Edit(f, c)
  BY <1>1, <1>3 DEF ReadFile, Tick, StepReads, Edit, vars
<1>4. CASE ReadPlan \/ Verify \/ CopySource \/ CopyScratch \/ Fail \/ Launch
  BY <1>2, <1>4 DEF ReadPlan, Verify, CopySource, CopyScratch, Fail, Launch, Moves
<1>5. CASE Prepare
  BY <1>5, ShapeAtStart
<1>6. CASE StartStep
  BY <1>6, ShapeWhenStarted
<1>7. CASE StepEnds
  BY <1>7, ShapeWhenEnded DEF StepEnds
<1>8. CASE RunFinishes
  BY <1>8, ShapeAtEnd DEF RunFinishes
<1>9. CASE Plan
  <2>1. helper = "off" /\ helper' = helper
    BY <1>9 DEF Plan, EvidenceInv, TreesAgree
  <2> QED
    BY <1>2, <2>1
<1>10. CASE StartClock \/ WriteFails \/ Look \/ Check
  BY <1>1, <1>10 DEF StartClock, WriteFails, Look, Check
<1>11. CASE Terminate
  <2>1. CASE HelperGone
    BY <1>1, <1>11, <2>1 DEF Terminate
  <2>2. CASE ~HelperGone
    BY <1>2, <1>11, <2>2 DEF Terminate
  <2> QED
    BY <2>1, <2>2
<1> QED
  BY <1>3, <1>4, <1>5, <1>6, <1>7, <1>8, <1>9, <1>10, <1>11
  DEF Next, HelperStep, CliStep

\* The inductive invariant holds of every behaviour.
LEMMA EvidenceAlwaysInShape ==
  ASSUME SandboxAssumption
  PROVE  Spec => []EvidenceInv
<1>1. Init => EvidenceInv
  <2> SUFFICES ASSUME Init
               PROVE  EvidenceInv
    OBVIOUS
  <2>1. EvidenceShape
    BY DEF Init, EvidenceShape
  <2> QED
    BY <2>1, TreesInvInit, VerdictInvInit DEF EvidenceInv, TreesInv, VerdictInv
<1>2. EvidenceInv /\ [Next]_vars => EvidenceInv'
  BY TypesKept, TreesStayInAgreement, VerdictKept, ShapeKept
  DEF EvidenceInv, TreesInv, VerdictInv
<1> QED
  BY <1>1, <1>2, PTL DEF Spec
-----------------------------------------------------------------------------
(***************************************************************************)
(* What a finished helper has recorded, for any run of `n` steps.          *)
(***************************************************************************)

Whole(b, rev, ends, n) ==
  /\ n \in Nat \ {0} /\ b \in Seq(EventType) /\ Len(b) = 2 * n + 6
  /\ Lived(b, rev, ends, n) /\ Closed(b, n)

\* Every number is even or odd, and so is the place of every record.
LEMMA Halves ==
  ASSUME NEW i \in Nat
  PROVE  \E j \in Nat : i = 2 * j \/ i = 2 * j + 1
<1> DEFINE j == i \div 2
<1>1. j \in Nat /\ (i = 2 * j \/ i = 2 * j + 1)
  OBVIOUS
<1> QED
  BY <1>1

LEMMA PlacesOfSteps ==
  ASSUME NEW n \in Nat, NEW i \in 1 .. 2 * n + 6
  PROVE  \/ i \in {1, 2, 2 * n + 3, 2 * n + 4, 2 * n + 5, 2 * n + 6}
         \/ \E j \in 1 .. n : i = 2 * j + 1 \/ i = 2 * j + 2
<1>1. CASE i > 2 /\ i < 2 * n + 3
  <2>1. i - 1 \in Nat
    BY <1>1
  <2>2. PICK j \in Nat : i - 1 = 2 * j \/ i - 1 = 2 * j + 1
    BY <2>1, Halves
  <2>3. j \in 1 .. n /\ (i = 2 * j + 1 \/ i = 2 * j + 2)
    BY <1>1, <2>2
  <2> QED
    BY <2>3
<1>2. CASE i <= 2
  BY <1>2
<1>3. CASE i >= 2 * n + 3
  BY <1>3
<1> QED
  BY <1>1, <1>2, <1>3

LEMMA Kinds ==
  ASSUME NEW b, NEW rev, NEW ends, NEW n, Whole(b, rev, ends, n)
  PROVE  /\ b[1].kind = "backend" /\ b[2].kind = "controls"
         /\ \A j \in 1 .. n : b[2 * j + 1].kind = "start" /\ b[2 * j + 2].kind = "exit"
         /\ b[2 * n + 3].kind = "changes" /\ b[2 * n + 4].kind = "resource"
         /\ b[2 * n + 5].kind = "log" /\ b[2 * n + 6].kind = "final"
<1>1. b[1].kind = "backend" /\ b[2].kind = "controls"
  BY DEF Whole, Lived, Opened, Attested, Enforced
<1>2. \A j \in 1 .. n : b[2 * j + 1].kind = "start"
  <2>1. \A j \in 1 .. n : b[2 * j + 1] = StartOf(rev, j)
    BY DEF Whole, Lived, StartedSteps
  <2>2. \A j : StartOf(rev, j).kind = "start"
    BY DEF StartOf
  <2> QED
    BY <2>1, <2>2
<1>3. \A j \in 1 .. n : b[2 * j + 2].kind = "exit"
  <2> SUFFICES ASSUME NEW j \in 1 .. n
               PROVE  b[2 * j + 2].kind = "exit"
    OBVIOUS
  <2>1. PICK code : b[2 * j + 2] = [kind |-> "exit", code |-> code]
    BY Zenon DEF Whole, Lived, Exited
  <2> QED
    BY <2>1
<1>4. /\ b[2 * n + 3].kind = "changes" /\ b[2 * n + 4].kind = "resource"
      /\ b[2 * n + 5].kind = "log" /\ b[2 * n + 6].kind = "final"
  BY DEF Whole, Closed, Changes
<1> QED
  BY <1>1, <1>2, <1>3, <1>4

\* The places of the starts, and of the ends.
Twice(n, c) == {2 * j + c : j \in 1 .. n}

LEMMA WhereTheyAre ==
  ASSUME NEW b, NEW rev, NEW ends, NEW n, Whole(b, rev, ends, n)
  PROVE  /\ Where(b, "backend") = {1} /\ Where(b, "controls") = {2}
         /\ Where(b, "start") = Twice(n, 1) /\ Where(b, "exit") = Twice(n, 2)
         /\ Where(b, "changes") = {2 * n + 3} /\ Where(b, "resource") = {2 * n + 4}
         /\ Where(b, "log") = {2 * n + 5} /\ Where(b, "final") = {2 * n + 6}
         /\ Where(b, "network") = {} /\ Where(b, "error") = {}
<1>1. n \in Nat /\ n # 0 /\ DOMAIN b = 1 .. 2 * n + 6
  BY DEF Whole
<1>2. \A i \in DOMAIN b :
        \/ i \in {1, 2, 2 * n + 3, 2 * n + 4, 2 * n + 5, 2 * n + 6}
        \/ \E j \in 1 .. n : i = 2 * j + 1 \/ i = 2 * j + 2
  BY <1>1, PlacesOfSteps
<1> DEFINE K(i) == b[i].kind
<1>3. /\ K(1) = "backend" /\ K(2) = "controls"
      /\ \A j \in 1 .. n : K(2 * j + 1) = "start" /\ K(2 * j + 2) = "exit"
      /\ K(2 * n + 3) = "changes" /\ K(2 * n + 4) = "resource"
      /\ K(2 * n + 5) = "log" /\ K(2 * n + 6) = "final"
  BY Kinds
<1>4. /\ {1, 2, 2 * n + 3, 2 * n + 4, 2 * n + 5, 2 * n + 6} \subseteq DOMAIN b
      /\ \A j \in 1 .. n : 2 * j + 1 \in DOMAIN b /\ 2 * j + 2 \in DOMAIN b
  BY <1>1
<1>5. \A kind : Where(b, kind) = {i \in DOMAIN b : K(i) = kind}
  BY DEF Where
<1> HIDE DEF K
<1>6. Where(b, "backend") = {1} /\ Where(b, "controls") = {2}
  BY <1>2, <1>3, <1>4, <1>5
<1>7. Where(b, "start") = Twice(n, 1)
  BY <1>2, <1>3, <1>4, <1>5 DEF Twice
<1>8. Where(b, "exit") = Twice(n, 2)
  BY <1>2, <1>3, <1>4, <1>5 DEF Twice
<1>9. Where(b, "changes") = {2 * n + 3} /\ Where(b, "resource") = {2 * n + 4}
  BY <1>2, <1>3, <1>4, <1>5
<1>10. Where(b, "log") = {2 * n + 5} /\ Where(b, "final") = {2 * n + 6}
  BY <1>2, <1>3, <1>4, <1>5
<1>11. Where(b, "network") = {} /\ Where(b, "error") = {}
  BY <1>2, <1>3, <1>4, <1>5
<1> QED
  BY <1>6, <1>7, <1>8, <1>9, <1>10, <1>11

\* There are as many places as steps.
LEMMA TwiceCounts ==
  ASSUME NEW n \in Nat, NEW c \in Nat
  PROVE  IsFiniteSet(Twice(n, c)) /\ Cardinality(Twice(n, c)) = n
<1> DEFINE S == Twice(n, c)
           f == [j \in 1 .. n |-> 2 * j + c]
<1>1. f \in [1 .. n -> S]
  BY DEF Twice
<1>2. \A i, j \in 1 .. n : f[i] = f[j] => i = j
  OBVIOUS
<1>3. \A s \in S : \E j \in 1 .. n : f[j] = s
  BY DEF Twice
<1> HIDE DEF f, S
<1>4. DOMAIN f = 1 .. n
  BY <1>1
<1>5. f \in Bijection(1 .. n, S)
  BY <1>1, <1>2, <1>3, <1>4 DEF Bijection, Injection, Surjection, IsInjective
<1>6. ExistsBijection(1 .. n, S)
  BY <1>5 DEF ExistsBijection
<1>7. IsFiniteSet(1 .. n) /\ Cardinality(1 .. n) = n
  BY FS_Interval
<1>8. IsFiniteSet(S) /\ Cardinality(S) = n
  BY <1>6, <1>7, FS_Bijection
<1> QED
  BY <1>8 DEF S

LEMMA StartsAreNumbered ==
  ASSUME NEW n \in Nat, NEW k \in 1 .. n
  PROVE  Cardinality({i \in Twice(n, 1) : i <= 2 * k + 1}) = k
<1>1. {i \in Twice(n, 1) : i <= 2 * k + 1} = Twice(k, 1)
  BY DEF Twice
<1> QED
  BY <1>1, TwiceCounts

\* What validate_for_plan asks of the records holds but for the redacted argv.
InPlan(b) ==
  LET starts == Where(b, "start")
  IN  /\ OnceAs(b, Attested) /\ OnceAs(b, Enforced)
      /\ \A kind \in {"resource", "log", "final"} : Once(b, kind)
      /\ Cardinality(starts) = Cardinality(Where(b, "exit"))
      /\ Cardinality(starts) <= NumSteps /\ (NumSteps > 0 => starts # {})
      /\ \A i \in starts : /\ b[i].step = Cardinality({j \in starts : j <= i})
                           /\ ~b[i].redacted

LEMMA RecordsAreThePlans ==
  ASSUME SandboxAssumption, NEW b, NEW rev, NEW ends, NEW n, Whole(b, rev, ends, n),
         n <= NumSteps
  PROVE  InPlan(b) <=> (Backend = "oci" \/ 1 .. n \cap rev = {})
<1>1. n \in Nat /\ n # 0 /\ DOMAIN b = 1 .. 2 * n + 6
  BY DEF Whole
<1>2. /\ OnceAs(b, Attested) /\ OnceAs(b, Enforced)
  <2>1. /\ Where(b, "backend") = {1} /\ Where(b, "controls") = {2}
        /\ b[1] = Attested /\ b[2] = Enforced /\ 1 \in DOMAIN b /\ 2 \in DOMAIN b
    BY <1>1, WhereTheyAre DEF Whole, Lived, Opened
  <2>2. Attested.kind = "backend" /\ Enforced.kind = "controls"
    BY DEF Attested, Enforced
  <2> QED
    BY <2>1, <2>2 DEF OnceAs
<1>3. \A kind \in {"resource", "log", "final"} : Once(b, kind)
  <2>1. /\ Where(b, "resource") = {2 * n + 4} /\ Where(b, "log") = {2 * n + 5}
        /\ Where(b, "final") = {2 * n + 6}
    BY WhereTheyAre
  <2>2. 2 * n + 4 \in DOMAIN b /\ 2 * n + 5 \in DOMAIN b /\ 2 * n + 6 \in DOMAIN b
    BY <1>1
  <2> QED
    BY <2>1, <2>2 DEF Once
<1> DEFINE starts == Where(b, "start")
<1>4. starts = Twice(n, 1) /\ Where(b, "exit") = Twice(n, 2)
  BY WhereTheyAre
<1>5. Cardinality(starts) = n /\ Cardinality(Where(b, "exit")) = n
  BY <1>1, <1>4, TwiceCounts
<1>6. starts # {}
  <2>1. 3 \in Twice(n, 1)
    BY <1>1 DEF Twice
  <2> QED
    BY <1>4, <2>1
<1>7. \A k \in 1 .. n : /\ 2 * k + 1 \in starts
                        /\ b[2 * k + 1].step = Cardinality({j \in starts : j <= 2 * k + 1})
                        /\ b[2 * k + 1].redacted = (Backend # "oci" /\ k \in rev)
  <2> SUFFICES ASSUME NEW k \in 1 .. n
               PROVE  /\ 2 * k + 1 \in starts
                      /\ b[2 * k + 1].step = Cardinality({j \in starts : j <= 2 * k + 1})
                      /\ b[2 * k + 1].redacted = (Backend # "oci" /\ k \in rev)
    OBVIOUS
  <2>1. 2 * k + 1 \in starts
    BY <1>4 DEF Twice
  <2>2. b[2 * k + 1] = StartOf(rev, k)
    BY DEF Whole, Lived, StartedSteps
  <2>3. Cardinality({j \in starts : j <= 2 * k + 1}) = k
    BY <1>1, <1>4, StartsAreNumbered
  <2>4. b[2 * k + 1].step = k /\ b[2 * k + 1].redacted = (Backend # "oci" /\ k \in rev)
    BY <2>2 DEF StartOf
  <2> QED
    BY <2>1, <2>3, <2>4
<1>8. \A i \in starts : \E k \in 1 .. n : i = 2 * k + 1
  BY <1>4 DEF Twice
<1>9. (\A i \in starts : /\ b[i].step = Cardinality({j \in starts : j <= i})
                         /\ ~b[i].redacted)
        <=> (Backend = "oci" \/ 1 .. n \cap rev = {})
  <2> HIDE DEF starts
  <2>1. (\A i \in starts : ~b[i].redacted) <=> \A k \in 1 .. n : ~(Backend # "oci" /\ k \in rev)
    BY <1>7, <1>8
  <2>2. \A i \in starts : b[i].step = Cardinality({j \in starts : j <= i})
    BY <1>7, <1>8
  <2> QED
    BY <2>1, <2>2
<1>10. Cardinality(starts) <= NumSteps
  BY <1>5
<1> HIDE DEF starts
<1> QED
  BY <1>2, <1>3, <1>5, <1>6, <1>9, <1>10 DEF InPlan, starts
-----------------------------------------------------------------------------
(***************************************************************************)
(* The chain of digests, for any records.                                  *)
(***************************************************************************)

\* A link is the one before it and the record it is for.
LEMMA LinkedOn ==
  ASSUME NEW O, NEW origin \in Seq(O), NEW T, NEW b \in Seq(T), NEW k \in 1 .. Len(b)
  PROVE  /\ Linked(origin, b, k) = Append(Linked(origin, b, k - 1), <<k - 1, b[k]>>)
         /\ \E U : Linked(origin, b, k - 1) \in Seq(U)
<1> DEFINE x == <<k - 1, b[k]>>
           U == O \cup (Int \X T)
           s == [i \in 1 .. k - 1 |-> <<i - 1, b[i]>>]
           t == [i \in 1 .. k |-> <<i - 1, b[i]>>]
<1>1. k \in Nat /\ k - 1 \in Nat /\ \A i \in 1 .. k : i - 1 \in Int /\ b[i] \in T
  OBVIOUS
<1>2. x \in U /\ origin \in Seq(U)
  BY <1>1
<1>3. \A i \in 1 .. k - 1 : <<i - 1, b[i]>> \in U
  BY <1>1
<1>4. s \in Seq(U) /\ Len(s) = k - 1
  <2> HIDE DEF U
  <2>1. s \in [1 .. k - 1 -> U]
    BY <1>3
  <2> QED
    BY <1>1, <2>1
<1>5. t = Append(s, x)
  <2>1. Append(s, x) \in [1 .. k -> U] /\ Append(s, x)[k] = x
        /\ \A i \in 1 .. k - 1 : Append(s, x)[i] = s[i]
    <3> HIDE DEF s, t, x, U
    <3>1. /\ Append(s, x) \in Seq(U) /\ Len(Append(s, x)) = Len(s) + 1
          /\ Append(s, x)[Len(s) + 1] = x
          /\ \A i \in 1 .. Len(s) : Append(s, x)[i] = s[i]
      <4>1. s \in Seq(U) /\ x \in U
        BY <1>2, <1>4
      <4> QED
        BY <4>1, AppendProperties
    <3>2. Len(s) + 1 = k /\ Len(s) = k - 1
      <4> DEFINE m == Len(s)
      <4>1. m = k - 1
        BY <1>4
      <4> HIDE DEF m
      <4>2. m + 1 = k
        BY <1>1, <4>1
      <4> QED
        BY <4>1, <4>2 DEF m
    <3>3. Append(s, x) \in [1 .. Len(Append(s, x)) -> U]
      BY <3>1, LenProperties, Zenon
    <3> QED
      BY <3>1, <3>2, <3>3, Zenon
  <2> DEFINE a == Append(s, x)
  <2>2. \A i \in 1 .. k : a[i] = t[i]
    <3>1. \A i \in 1 .. k : i = k \/ i \in 1 .. k - 1
      BY <1>1
    <3>2. \A i \in 1 .. k - 1 : a[i] = <<i - 1, b[i]>>
      BY <2>1
    <3> HIDE DEF a
    <3>3. a[k] = t[k]
      BY <2>1 DEF a
    <3>4. ASSUME NEW i \in 1 .. k - 1
          PROVE  a[i] = t[i]
      <4>1. i \in 1 .. k
        BY <1>1
      <4>2. t[i] = <<i - 1, b[i]>>
        BY <4>1
      <4> QED
        BY <3>2, <4>2, Zenon
    <3> QED
      BY <3>1, <3>3, <3>4
  <2>3. a \in [1 .. k -> U]
    BY <2>1
  <2> HIDE DEF a
  <2>4. DOMAIN t = 1 .. k /\ DOMAIN a = 1 .. k
    BY <2>3
  <2>5. a = [i \in 1 .. k |-> a[i]] /\ t = [i \in 1 .. k |-> t[i]]
    BY <2>3
  <2>6. a = t
    BY <2>2, <2>5, Zenon
  <2> QED
    BY <2>6 DEF a
<1>6. Linked(origin, b, k) = origin \o t /\ Linked(origin, b, k - 1) = origin \o s
  BY DEF Linked
<1> HIDE DEF x, U, s, t
<1>7. origin \o Append(s, x) = Append(origin \o s, x)
  <2>1. Append(s, x) = s \o <<x>> /\ <<x>> \in Seq(U)
    BY <1>2, <1>4, AppendIsConcat
  <2>2. origin \o s \in Seq(U)
    BY <1>2, <1>4, ConcatProperties
  <2>3. Append(origin \o s, x) = (origin \o s) \o <<x>>
    BY <1>2, <2>2, AppendIsConcat
  <2> QED
    BY <1>2, <1>4, <2>1, <2>3, ConcatAssociative
<1>8. origin \o s \in Seq(U)
  BY <1>2, <1>4, ConcatProperties
<1> QED
  BY <1>5, <1>6, <1>7, <1>8 DEF x

\* The first one is the origin.
LEMMA LinkedFirst ==
  ASSUME NEW O, NEW origin \in Seq(O), NEW b
  PROVE  Linked(origin, b, 0) = origin
<1>1. [i \in 1 .. 0 |-> <<i - 1, b[i]>>] = <<>>
  OBVIOUS
<1> QED
  BY <1>1, ConcatEmptySeq DEF Linked

\* Where the fields of an event come from.
LEMMA ChainFields ==
  ASSUME NEW origin, NEW T, NEW b \in Seq(T)
  PROVE  LET e == EventChain(origin, b)
         IN  /\ DOMAIN e = 1 .. Len(b) /\ Bodies(e) = b
             /\ \A i \in 1 .. Len(b) :
                  /\ e[i].sequence = i - 1 /\ e[i].body = b[i]
                  /\ e[i].previous = Linked(origin, b, i - 1)
                  /\ e[i].digest = Linked(origin, b, i)
<1> DEFINE e == EventChain(origin, b)
           ev(i) == [sequence |-> i - 1, previous |-> Linked(origin, b, i - 1),
                     body |-> b[i], digest |-> Linked(origin, b, i)]
<1>1. DOMAIN b = 1 .. Len(b)
  OBVIOUS
<1>2. DOMAIN e = 1 .. Len(b) /\ \A i \in 1 .. Len(b) : e[i] = ev(i)
  BY <1>1 DEF EventChain
<1>3. \A i : /\ ev(i).sequence = i - 1 /\ ev(i).body = b[i]
             /\ ev(i).previous = Linked(origin, b, i - 1)
             /\ ev(i).digest = Linked(origin, b, i)
  OBVIOUS
<1> HIDE DEF e, ev
<1>4. Bodies(e) = [i \in 1 .. Len(b) |-> e[i].body]
  BY <1>2 DEF Bodies
<1>5. \A i \in 1 .. Len(b) : e[i].body = b[i]
  BY <1>2, <1>3
<1>6. Bodies(e) = b
  <2>1. b = [i \in 1 .. Len(b) |-> b[i]]
    BY <1>1
  <2> QED
    BY <1>4, <1>5, <2>1, Zenon
<1> QED
  BY <1>2, <1>3, <1>6 DEF e

LEMMA ChainIsValid ==
  ASSUME NEW O, NEW origin \in Seq(O), NEW b \in Seq(EventType),
         \A i \in 1 .. Len(b) : ValidBody(b[i]),
         NEW document, document.plan = origin, document.events = EventChain(origin, b)
  PROVE  Valid(document)
<1> DEFINE e == EventChain(origin, b)
<1>1. /\ DOMAIN e = 1 .. Len(b)
      /\ \A i \in 1 .. Len(b) :
           /\ e[i].sequence = i - 1 /\ e[i].body = b[i]
           /\ e[i].previous = Linked(origin, b, i - 1)
           /\ e[i].digest = Linked(origin, b, i)
  BY ChainFields
<1>2. document.events = e
  OBVIOUS
<1> HIDE DEF e
<1> SUFFICES ASSUME NEW i \in 1 .. Len(b)
             PROVE  /\ e[i].sequence = i - 1
                    /\ e[i].previous = IF i = 1 THEN origin ELSE e[i - 1].digest
                    /\ ValidBody(e[i].body)
                    /\ e[i].digest = Digest(e[i].sequence, e[i].previous, e[i].body)
  BY <1>1, <1>2 DEF Valid
<1>3. e[i].digest = Digest(e[i].sequence, e[i].previous, e[i].body)
  <2>1. Linked(origin, b, i) = Append(Linked(origin, b, i - 1), <<i - 1, b[i]>>)
    BY LinkedOn
  <2> QED
    BY <1>1, <2>1, Zenon DEF Digest
<1>4. CASE i = 1
  <2>1. i - 1 = 0
    BY <1>4
  <2>2. e[i].previous = origin
    BY <1>1, <2>1, LinkedFirst
  <2> QED
    BY <1>1, <1>3, <1>4, <2>2
<1>5. CASE i # 1
  <2>1. i - 1 \in 1 .. Len(b)
    BY <1>5
  <2>2. e[i].previous = e[i - 1].digest
    BY <1>1, <2>1
  <2> QED
    BY <1>1, <1>3, <1>5, <2>2
<1> QED
  BY <1>4, <1>5

\* An event out of its place, or with another body than the one its digest was
\* computed from, makes a document invalid.
LEMMA OutOfPlace ==
  ASSUME NEW document, NEW i \in DOMAIN document.events,
         document.events[i].sequence # i - 1
  PROVE  ~Valid(document)
  BY DEF Valid

LEMMA WrongBody ==
  ASSUME NEW O, NEW origin \in Seq(O), NEW T, NEW b \in Seq(T), NEW i \in 1 .. Len(b),
         NEW document, i \in DOMAIN document.events, NEW event,
         document.events[i] = event, event.sequence = i - 1,
         event.previous = Linked(origin, b, i - 1), event.digest = Linked(origin, b, i),
         event.body # b[i]
  PROVE  ~Valid(document)
<1> DEFINE p == Linked(origin, b, i - 1)
           x == <<i - 1, b[i]>>
           y == <<i - 1, event.body>>
<1>1. PICK U : p \in Seq(U)
  BY LinkedOn
<1>2. event.digest = Append(p, x)
  BY LinkedOn
<1>3. x # y
  OBVIOUS
<1>4. Digest(event.sequence, event.previous, event.body) = Append(p, y)
  BY DEF Digest
<1> HIDE DEF p, x, y
<1>5. Append(p, x) # Append(p, y)
  BY <1>1, <1>3, OneMore
<1> QED
  BY <1>2, <1>4, <1>5 DEF Valid

\* One sequence behind another.
LEMMA Joined ==
  ASSUME NEW T, NEW s \in Seq(T), NEW t \in Seq(T)
  PROVE  /\ DOMAIN (s \o t) = 1 .. Len(s) + Len(t)
         /\ \A j \in 1 .. Len(s) : (s \o t)[j] = s[j]
         /\ Len(t) # 0 => (s \o t)[Len(s) + 1] = t[1]
<1> DEFINE d == s \o t
           m == Len(s)
           k == Len(t)
<1> HIDE DEF d, m, k
<1>0. m \in Nat /\ k \in Nat
  BY DEF m, k
<1>1. /\ d \in Seq(T) /\ Len(d) = m + k
      /\ \A j \in 1 .. m + k : d[j] = IF j <= m THEN s[j] ELSE t[j - m]
  BY ConcatProperties, Zenon DEF d, m, k
<1>2. DOMAIN d = 1 .. m + k
  BY <1>1
<1>3. \A j \in 1 .. m : d[j] = s[j]
  BY <1>0, <1>1
<1>4. k # 0 => m + 1 \in 1 .. m + k /\ ~(m + 1 <= m) /\ m + 1 - m = 1
  BY <1>0
<1>5. ASSUME k # 0
      PROVE  d[m + 1] = t[1]
  <2> DEFINE j == m + 1
  <2>1. j \in 1 .. m + k /\ ~(j <= m) /\ j - m = 1
    BY <1>0, <1>5
  <2> HIDE DEF j
  <2>2. d[j] = t[j - m]
    BY <1>1, <2>1, Zenon
  <2> QED
    BY <2>1, <2>2, Zenon DEF j
<1> QED
  BY <1>2, <1>3, <1>5, Zenon DEF d, m, k

\* What is left of a sequence that has lost an element, or the end from one on.
LEMMA WithoutOne ==
  ASSUME NEW T, NEW e \in Seq(T), NEW i \in 1 .. Len(e), NEW d,
         d = SubSeq(e, 1, i - 1) \o SubSeq(e, i + 1, Len(e))
  PROVE  /\ DOMAIN d = 1 .. Len(e) - 1
         /\ \A j \in 1 .. i - 1 : d[j] = e[j]
         /\ i < Len(e) => d[i] = e[i + 1]
<1> DEFINE s == SubSeq(e, 1, i - 1)
           t == SubSeq(e, i + 1, Len(e))
           n == Len(e)
<1>1. /\ n \in Nat /\ i \in 1 .. n /\ \A j \in 1 .. n : e[j] \in T
  OBVIOUS
<1>2. s \in Seq(T) /\ Len(s) = i - 1 /\ \A j \in 1 .. i - 1 : s[j] = e[j]
  <2>1. /\ SubSeq(e, 1, i - 1) \in Seq(T)
        /\ Len(SubSeq(e, 1, i - 1)) = IF 1 <= i - 1 THEN i - 1 - 1 + 1 ELSE 0
        /\ \A j \in 1 .. i - 1 - 1 + 1 : SubSeq(e, 1, i - 1)[j] = e[1 + j - 1]
    <3>1. \A j \in 1 .. i - 1 : e[j] \in T
      BY <1>1
    <3> QED
      BY <1>1, <3>1, SubSeqProperties
  <2> HIDE DEF s, n
  <2> QED
    BY <1>1, <2>1 DEF s
<1>3. t \in Seq(T) /\ Len(t) = n - i /\ \A j \in 1 .. n - i : t[j] = e[i + j]
  <2>1. /\ SubSeq(e, i + 1, n) \in Seq(T)
        /\ Len(SubSeq(e, i + 1, n)) = IF i + 1 <= n THEN n - (i + 1) + 1 ELSE 0
        /\ \A j \in 1 .. n - (i + 1) + 1 : SubSeq(e, i + 1, n)[j] = e[(i + 1) + j - 1]
    <3>1. \A j \in i + 1 .. n : e[j] \in T
      BY <1>1
    <3> HIDE DEF n
    <3> QED
      BY <1>1, <3>1, SubSeqProperties
  <2>2. t = SubSeq(e, i + 1, n)
    OBVIOUS
  <2> HIDE DEF t, n
  <2> QED
    BY <1>1, <2>1, <2>2
<1>4. d = s \o t
  OBVIOUS
<1> HIDE DEF s, t, n
<1>5. i - 1 \in Nat /\ n - i \in Nat /\ i - 1 + (n - i) = n - 1 /\ i - 1 + 1 = i
  BY <1>1
<1>6. /\ DOMAIN d = 1 .. i - 1 + (n - i) /\ \A j \in 1 .. i - 1 : d[j] = s[j]
      /\ n - i # 0 => d[i - 1 + 1] = t[1]
  <2>1. /\ DOMAIN (s \o t) = 1 .. Len(s) + Len(t)
        /\ \A j \in 1 .. Len(s) : (s \o t)[j] = s[j]
        /\ Len(t) # 0 => (s \o t)[Len(s) + 1] = t[1]
    BY <1>2, <1>3, Joined, Zenon
  <2> QED
    BY <1>2, <1>3, <1>4, <2>1, Zenon
<1>7. \A j \in 1 .. i - 1 : d[j] = e[j]
  BY <1>2, <1>6, Zenon
<1>8. ASSUME i < n
      PROVE  d[i] = e[i + 1]
  <2>1. n - i # 0 /\ 1 \in 1 .. n - i
    BY <1>1, <1>8
  <2>2. t[1] = e[i + 1]
    BY <1>3, <2>1, Zenon
  <2> QED
    BY <1>5, <1>6, <2>1, <2>2, Zenon
<1> QED
  BY <1>5, <1>6, <1>7, <1>8, Zenon DEF n

LEMMA WithOneTwice ==
  ASSUME NEW T, NEW e \in Seq(T), NEW i \in 1 .. Len(e), NEW d,
         d = SubSeq(e, 1, i) \o SubSeq(e, i, Len(e))
  PROVE  i + 1 \in DOMAIN d /\ d[i + 1] = e[i]
<1> DEFINE s == SubSeq(e, 1, i)
           t == SubSeq(e, i, Len(e))
           n == Len(e)
<1>1. /\ n \in Nat /\ i \in 1 .. n /\ \A j \in 1 .. n : e[j] \in T
  OBVIOUS
<1>2. s \in Seq(T) /\ Len(s) = i
  <2>1. \A j \in 1 .. i : e[j] \in T
    BY <1>1
  <2> QED
    BY <1>1, <2>1, SubSeqProperties
<1>3. t \in Seq(T) /\ Len(t) = n - i + 1 /\ t[1] = e[i]
  <2>1. \A j \in i .. n : e[j] \in T
    BY <1>1
  <2>2. /\ SubSeq(e, i, n) \in Seq(T)
        /\ Len(SubSeq(e, i, n)) = IF i <= n THEN n - i + 1 ELSE 0
        /\ \A j \in 1 .. n - i + 1 : SubSeq(e, i, n)[j] = e[i + j - 1]
    <3> HIDE DEF n
    <3> QED
      BY <1>1, <2>1, SubSeqProperties
  <2>3. t = SubSeq(e, i, n)
    OBVIOUS
  <2> HIDE DEF t, n
  <2>4. 1 \in 1 .. n - i + 1 /\ i + 1 - 1 = i
    BY <1>1
  <2> QED
    BY <1>1, <2>2, <2>3, <2>4
<1>4. d = s \o t
  OBVIOUS
<1> HIDE DEF s, t, n
<1>5. i \in Nat /\ n - i + 1 \in Nat /\ n - i + 1 # 0 /\ i + 1 \in 1 .. i + (n - i + 1)
  BY <1>1
<1>6. /\ DOMAIN (s \o t) = 1 .. Len(s) + Len(t)
      /\ \A j \in 1 .. Len(s) : (s \o t)[j] = s[j]
      /\ Len(t) # 0 => (s \o t)[Len(s) + 1] = t[1]
  <2>1. s \in Seq(T) /\ t \in Seq(T)
    BY <1>2, <1>3
  <2> QED
    BY <2>1, Joined, Zenon
<1> DEFINE k == n - i + 1
<1>7. Len(t) = k /\ k # 0 /\ i + 1 \in 1 .. i + k
  BY <1>3, <1>5, Zenon
<1> HIDE DEF k
<1>8. i + 1 \in DOMAIN d /\ d[i + 1] = t[1]
  BY <1>2, <1>4, <1>6, <1>7, Zenon
<1> QED
  BY <1>3, <1>8, Zenon
-----------------------------------------------------------------------------
(***************************************************************************)
(* The document a finished helper prints, and what it is taken for.        *)
(***************************************************************************)

LEMMA RecordsAreBodies ==
  ASSUME SandboxAssumption
  PROVE  \A body \in EventType : ValidBody(body)
<1>1. Asked \subseteq KnownControls
  BY DEF Asked, Controls, KnownControls, Native, SandboxAssumption
<1> HIDE DEF Asked
<1> SUFFICES ASSUME NEW body \in EventType
             PROVE  ValidBody(body)
  OBVIOUS
<1>2. /\ body.kind \in {"backend", "controls", "start", "exit", "changes", "resource",
                        "log", "final"}
      /\ body.kind = "controls" => body.names = Asked
  BY DEF EventType
<1> QED
  BY <1>1, <1>2 DEF ValidBody

\* What is asked of a document for this plan.
LEMMA PlansDocument ==
  ASSUME NEW document
  PROVE  ValidForPlan(document, ThePlan) <=>
           /\ Valid(document)
           /\ document.plan = <<planned, revealing>>
           /\ document.bindings = BindingsOf(ThePlan)
           /\ InPlan(Bodies(document.events))
<1>1. /\ ThePlan.digest = <<planned, revealing>> /\ ThePlan.backend = Backend
      /\ ThePlan.controls = Asked /\ ThePlan.steps = NumSteps
  BY DEF ThePlan
<1> DEFINE p == ThePlan
           b == Bodies(document.events)
<1>2. ValidForPlan(document, p) <=>
        /\ Valid(document) /\ document.plan = p.digest
        /\ document.bindings = BindingsOf(p)
        /\ OnceAs(b, [kind |-> "backend", id |-> p.backend, controls |-> p.controls])
        /\ OnceAs(b, [kind |-> "controls", names |-> p.controls])
        /\ \A kind \in {"resource", "log", "final"} : Once(b, kind)
        /\ Cardinality(Where(b, "start")) = Cardinality(Where(b, "exit"))
        /\ Cardinality(Where(b, "start")) <= p.steps
        /\ (p.steps > 0 => Where(b, "start") # {})
        /\ \A i \in Where(b, "start") :
             /\ b[i].step = Cardinality({j \in Where(b, "start") : j <= i})
             /\ ~b[i].redacted
  BY Zenon DEF ValidForPlan
<1>3. InPlan(b) <=>
        /\ OnceAs(b, Attested) /\ OnceAs(b, Enforced)
        /\ \A kind \in {"resource", "log", "final"} : Once(b, kind)
        /\ Cardinality(Where(b, "start")) = Cardinality(Where(b, "exit"))
        /\ Cardinality(Where(b, "start")) <= NumSteps
        /\ (NumSteps > 0 => Where(b, "start") # {})
        /\ \A i \in Where(b, "start") :
             /\ b[i].step = Cardinality({j \in Where(b, "start") : j <= i})
             /\ ~b[i].redacted
  BY Zenon DEF InPlan
<1>4. /\ [kind |-> "backend", id |-> p.backend, controls |-> p.controls] = Attested
      /\ [kind |-> "controls", names |-> p.controls] = Enforced
  BY <1>1 DEF Attested, Enforced
<1> QED
  BY <1>1, <1>2, <1>3, <1>4, Zenon

LEMMA WholeWhenSucceeded ==
  ASSUME SandboxAssumption, EvidenceInv, helper = "succeeded"
  PROVE  /\ Whole(evidence, revealing, endings, step)
         /\ step \in Nat /\ step <= NumSteps
<1>1. step \in 0 .. NumSteps /\ evidence \in Seq(EventType) /\ NumSteps \in Nat
  BY DEF EvidenceInv, TypeOK, SandboxAssumption
<1>2. /\ step # 0 /\ Len(evidence) = 2 * step + 6
      /\ Lived(evidence, revealing, endings, step) /\ Closed(evidence, step)
  BY DEF EvidenceInv, EvidenceShape
<1> QED
  BY <1>1, <1>2 DEF Whole

\* What is printed holds together, and is the plan's but for redacted steps.
LEMMA PrintedIsAccepted ==
  ASSUME SandboxAssumption, EvidenceInv, helper = "succeeded"
  PROVE  Accepted(Printed) <=> (Backend = "oci" \/ 1 .. step \cap revealing = {})
<1> DEFINE origin == <<planned, revealing>>
           b == evidence
           document == Printed
           source0 == ThePlan.source
<1>1. /\ document.plan = origin /\ document.bindings = BindingsOf(ThePlan)
      /\ document.events = EventChain(origin, b)
      /\ document.summary = Summary(source0, b)
      /\ document.bindings.source = source0
  BY DEF Printed, EvidenceFor, ThePlan, BindingsOf
<1>2. origin \in Seq({planned, revealing})
  OBVIOUS
<1>3. b \in Seq(EventType) /\ \A i \in 1 .. Len(b) : ValidBody(b[i])
  <2>1. b \in Seq(EventType)
    BY DEF EvidenceInv, TypeOK
  <2> HIDE DEF b
  <2>2. \A i \in 1 .. Len(b) : b[i] \in EventType
    BY <2>1, ElementOfSeq
  <2> QED
    BY <2>1, <2>2, RecordsAreBodies
<1> HIDE DEF origin, document, source0
<1>4. Valid(document)
  BY <1>1, <1>2, <1>3, ChainIsValid
<1>5. Bodies(document.events) = b
  BY <1>1, <1>3, ChainFields
<1>6. Parses(document)
  BY <1>1, <1>4, <1>5 DEF Parses
<1>7. ValidForPlan(document, ThePlan) <=> InPlan(b)
  BY <1>1, <1>4, <1>5, PlansDocument DEF origin
<1>8. InPlan(b) <=> (Backend = "oci" \/ 1 .. step \cap revealing = {})
  BY WholeWhenSucceeded, RecordsAreThePlans
<1> QED
  BY <1>6, <1>7, <1>8 DEF Accepted, document

-----------------------------------------------------------------------------
\* Without its end a document lacks the final record.
LEMMA Shortened ==
  ASSUME NEW b, NEW rev, NEW ends, NEW n, Whole(b, rev, ends, n),
         NEW k \in Nat, k < Len(b), NEW d, DOMAIN d = 1 .. k,
         \A j \in 1 .. k : d[j].body = b[j]
  PROVE  ~InPlan(Bodies(d))
<1>1. n \in Nat /\ Len(b) = 2 * n + 6 /\ DOMAIN b = 1 .. Len(b)
  BY DEF Whole
<1>2. Where(b, "final") = {2 * n + 6}
  BY WhereTheyAre
<1>3. \A j \in 1 .. k : b[j].kind # "final"
  <2>1. \A j \in 1 .. k : j \in DOMAIN b /\ j # 2 * n + 6
    BY <1>1
  <2> QED
    BY <1>2, <2>1 DEF Where
<1> DEFINE c == Bodies(d)
<1>4. DOMAIN c = 1 .. k /\ \A j \in 1 .. k : c[j] = b[j]
  BY DEF Bodies
<1> HIDE DEF c
<1>5. Where(c, "final") = {}
  BY <1>3, <1>4 DEF Where
<1>6. ~Once(c, "final")
  BY <1>5 DEF Once
<1> QED
  BY <1>6 DEF InPlan, c

\* Whichever way a document is damaged, somebody notices.
LEMMA DamagedIsRefused ==
  ASSUME NEW O, NEW origin \in Seq(O),
         NEW b, NEW rev, NEW ends, NEW n, Whole(b, rev, ends, n),
         NEW how \in Damages, NEW i \in 1 .. Len(b), NEW altered,
         altered.events = Damaged(EventChain(origin, b), how, i),
         Bodies(altered.events) # b
  PROVE  ~Valid(altered) \/ ~InPlan(Bodies(altered.events))
<1> DEFINE e == EventChain(origin, b)
           l == Len(b)
           d == altered.events
           T == {e[j] : j \in 1 .. l}
<1>1. b \in Seq(EventType) /\ l \in Nat /\ l > 1 /\ i \in 1 .. l
  BY DEF Whole
<1>2. /\ DOMAIN e = 1 .. l
      /\ \A j \in 1 .. l :
           /\ e[j].sequence = j - 1 /\ e[j].body = b[j]
           /\ e[j].previous = Linked(origin, b, j - 1)
           /\ e[j].digest = Linked(origin, b, j)
  BY <1>1, ChainFields
<1>3. d = Damaged(e, how, i)
  OBVIOUS
<1>4. e \in Seq(T) /\ Len(e) = l
  <2>1. e = [j \in 1 .. l |-> e[j]]
    BY <1>1, <1>2 DEF EventChain
  <2>2. e \in [1 .. l -> T]
    BY <2>1
  <2> HIDE DEF e, T, l
  <2> QED
    BY <1>1, <2>2
<1> HIDE DEF e, l, T
<1>5. CASE how = "lost"
  <2>1. d = SubSeq(e, 1, i - 1) \o SubSeq(e, i + 1, Len(e))
    BY <1>3, <1>5 DEF Damaged
  <2> HIDE DEF d
  <2>2. /\ DOMAIN d = 1 .. l - 1 /\ \A j \in 1 .. i - 1 : d[j] = e[j]
        /\ i < l => d[i] = e[i + 1]
    BY <1>1, <1>4, <2>1, WithoutOne
  <2>3. CASE i < l
    <3>1. i \in DOMAIN d /\ i + 1 \in 1 .. l /\ i + 1 - 1 # i - 1
      BY <1>1, <2>2, <2>3
    <3>2. d[i].sequence # i - 1
      BY <1>2, <2>2, <2>3, <3>1
    <3> QED
      BY <3>1, <3>2, OutOfPlace DEF d
  <2>4. CASE i = l
    <3>1. l - 1 \in Nat /\ l - 1 < l /\ i - 1 = l - 1
      BY <1>1, <2>4
    <3>2. ASSUME NEW j \in 1 .. l - 1
          PROVE  d[j].body = b[j]
      <4>1. j \in 1 .. l /\ j \in 1 .. i - 1
        BY <1>1, <2>4
      <4>2. d[j] = e[j]
        BY <2>2, <4>1
      <4>3. e[j].body = b[j]
        BY <1>2, <4>1
      <4> QED
        BY <4>2, <4>3
    <3> QED
      BY <2>2, <3>1, <3>2, Shortened DEF d, l
  <2> QED
    BY <1>1, <2>3, <2>4
<1>6. CASE how = "twice"
  <2>1. d = SubSeq(e, 1, i) \o SubSeq(e, i, Len(e))
    BY <1>3, <1>6 DEF Damaged
  <2> HIDE DEF d
  <2>2. i + 1 \in DOMAIN d /\ d[i + 1] = e[i]
    BY <1>1, <1>4, <2>1, WithOneTwice
  <2>3. d[i + 1].sequence # i + 1 - 1
    BY <1>1, <1>2, <2>2
  <2> QED
    BY <2>2, <2>3, OutOfPlace DEF d
<1>7. CASE how = "swapped"
  <2> DEFINE m == (i % l) + 1
  <2>1. m \in 1 .. l /\ m # i
    BY <1>1
  <2>2. d = [e EXCEPT ![i] = e[m], ![m] = e[i]]
    BY <1>3, <1>4, <1>7 DEF Damaged
  <2> HIDE DEF d, m
  <2>3. i \in DOMAIN d /\ d[i] = e[m]
    BY <1>1, <1>2, <2>1, <2>2
  <2>4. d[i].sequence # i - 1
    BY <1>1, <1>2, <2>1, <2>3
  <2> QED
    BY <2>3, <2>4, OutOfPlace DEF d
<1>8. CASE how = "edited"
  <2> DEFINE body == [kind |-> "exit", code |-> 0]
             event == [e[i] EXCEPT !.body = body]
  <2>1. d = [e EXCEPT ![i].body = body]
    BY <1>3, <1>8 DEF Damaged
  <2>2. e[i] = [sequence |-> i - 1, previous |-> Linked(origin, b, i - 1),
                body |-> b[i], digest |-> Linked(origin, b, i)]
    BY <1>1 DEF e, EventChain, Whole
  <2>3. /\ event.sequence = i - 1 /\ event.body = body
        /\ event.previous = Linked(origin, b, i - 1) /\ event.digest = Linked(origin, b, i)
    BY <2>2
  <2> HIDE DEF body
  <2>4. d = [e EXCEPT ![i] = event]
    BY <2>1
  <2> HIDE DEF event, d
  <2>5. DOMAIN d = 1 .. l /\ d[i] = event /\ \A j \in 1 .. l : j # i => d[j] = e[j]
    BY <1>1, <1>2, <2>4
  <2>6. body # b[i]
    <3> SUFFICES ASSUME body = b[i]
                 PROVE  Bodies(d) = b
      BY DEF d
    <3>1. \A j \in 1 .. l : d[j].body = b[j]
      BY <1>2, <2>3, <2>5
    <3>2. Bodies(d) = [j \in 1 .. l |-> d[j].body]
      BY <2>5 DEF Bodies
    <3>3. b = [j \in 1 .. l |-> b[j]]
      BY <1>1 DEF l
    <3> QED
      BY <3>1, <3>2, <3>3, Zenon
  <2>7. i \in DOMAIN altered.events /\ altered.events[i] = event
    BY <1>1, <2>5 DEF d
  <2> QED
    BY <1>1, <2>3, <2>6, <2>7, WrongBody DEF l
<1>9. CASE how = "cut"
  <2>1. d = SubSeq(e, 1, i - 1)
    BY <1>3, <1>9 DEF Damaged
  <2> HIDE DEF d
  <2>2. i - 1 \in Nat /\ i - 1 < l /\ \A j \in 1 .. i - 1 : j \in 1 .. l
    BY <1>1
  <2>3. /\ Len(SubSeq(e, 1, i - 1)) = (IF 1 <= i - 1 THEN i - 1 - 1 + 1 ELSE 0)
        /\ SubSeq(e, 1, i - 1) \in Seq(T)
        /\ \A j \in 1 .. i - 1 - 1 + 1 : SubSeq(e, 1, i - 1)[j] = e[1 + j - 1]
    <3>1. \A j \in 1 .. i - 1 : e[j] \in T
      BY <2>2 DEF T
    <3> QED
      BY <2>2, <3>1, SubSeqProperties
  <2>4. DOMAIN d = 1 .. i - 1 /\ \A j \in 1 .. i - 1 : d[j] = e[j]
    <3>1. Len(d) = i - 1 /\ d \in Seq(T)
      BY <1>1, <2>1, <2>3
    <3>2. DOMAIN d = 1 .. i - 1
      BY <3>1
    <3>3. \A j \in 1 .. i - 1 : d[j] = e[1 + j - 1]
      BY <1>1, <2>1, <2>3
    <3> QED
      BY <1>1, <3>2, <3>3
  <2>5. \A j \in 1 .. i - 1 : d[j].body = b[j]
    BY <1>2, <2>2, <2>4
  <2> QED
    BY <2>2, <2>4, <2>5, Shortened DEF d, l
<1> QED
  BY <1>5, <1>6, <1>7, <1>8, <1>9 DEF Damages

LEMMA DamageAlwaysNoticed ==
  ASSUME SandboxAssumption, EvidenceInv, helper = "succeeded"
  PROVE  DamageIsNoticed
<1> DEFINE origin == <<planned, revealing>>
           document == Printed
<1>1. document = [plan |-> origin, bindings |-> BindingsOf(ThePlan),
                  events |-> EventChain(origin, evidence),
                  summary |-> Summary(ThePlan.source, evidence)]
  BY DEF Printed, EvidenceFor, ThePlan
<1>2. origin \in Seq({planned, revealing})
  OBVIOUS
<1>3. Whole(evidence, revealing, endings, step) /\ evidence \in Seq(EventType)
  BY WholeWhenSucceeded DEF Whole
<1>4. DOMAIN document.events = 1 .. Len(evidence)
  BY <1>1, <1>3, ChainFields
<1> HIDE DEF document, origin
<1>5. ASSUME NEW how \in Damages, NEW i \in DOMAIN document.events, NEW summary,
             Bodies(Damaged(document.events, how, i)) # evidence
      PROVE  ~Accepted([document EXCEPT !.events = Damaged(document.events, how, i),
                                        !.summary = summary])
  <2> DEFINE altered == [document EXCEPT !.events = Damaged(document.events, how, i),
                                         !.summary = summary]
  <2>1. altered.events = Damaged(document.events, how, i)
    BY <1>1
  <2> HIDE DEF altered
  <2>2. ~Valid(altered) \/ ~InPlan(Bodies(altered.events))
    <3>1. altered.events = Damaged(EventChain(origin, evidence), how, i)
      BY <1>1, <2>1
    <3>2. Bodies(altered.events) # evidence /\ i \in 1 .. Len(evidence)
      BY <1>4, <1>5, <2>1
    <3> QED
      BY <1>2, <1>3, <3>1, <3>2, DamagedIsRefused
  <2>3. ~ValidForPlan(altered, ThePlan)
    BY <2>2, PlansDocument
  <2> QED
    BY <2>3 DEF Accepted, altered
<1> QED
  BY <1>5, Zenon DEF DamageIsNoticed, document

-----------------------------------------------------------------------------
\* An audit finds nothing when every exit was clean and no effect is a surprise.
LEMMA AuditIsExact ==
  ASSUME SandboxAssumption, EvidenceInv, helper = "succeeded", NEW graphs
  PROVE  AuditReasons(ThePlan, Printed, graphs) = {} <=>
           /\ \A k \in 1 .. step : evidence[2 * k + 2].code = 0
           /\ \A audited \in graphs : ObservedEffects(evidence) \subseteq audited.effects
<1> DEFINE b == evidence
           p == ThePlan
           document == Printed
<1>1. /\ p.complete = TRUE /\ p.backend = Backend /\ p.controls = Asked
  BY DEF ThePlan
<1>2. Whole(b, revealing, endings, step) /\ b \in Seq(EventType) /\ step \in Nat
  BY WholeWhenSucceeded DEF Whole
<1>3. Bodies(document.events) = b
  BY <1>2, ChainFields DEF Printed, EvidenceFor
<1>4. /\ Where(b, "error") = {} /\ Where(b, "controls") = {2} /\ Where(b, "backend") = {1}
      /\ Where(b, "exit") = Twice(step, 2)
  BY <1>2, WhereTheyAre
<1>5. OnceAs(b, [kind |-> "backend", id |-> p.backend, controls |-> p.controls])
  <2>1. b[1] = Attested /\ 1 \in DOMAIN b
    BY <1>2 DEF Whole, Lived, Opened
  <2>2. [kind |-> "backend", id |-> p.backend, controls |-> p.controls] = Attested
    BY <1>1 DEF Attested
  <2>3. Attested.kind = "backend"
    BY DEF Attested
  <2> QED
    BY <1>4, <2>1, <2>2, <2>3 DEF OnceAs
<1>6. UNION {b[i].names : i \in Where(b, "controls")} = Asked
  <2>1. b[2] = Enforced
    BY <1>2 DEF Whole, Lived, Opened
  <2>2. b[2].names = Asked
    BY <2>1 DEF Enforced
  <2> HIDE DEF b
  <2> QED
    BY <1>4, <2>2
<1>7. (\E i \in DOMAIN b : b[i].kind = "exit" /\ b[i].code # 0)
        <=> ~\A k \in 1 .. step : b[2 * k + 2].code = 0
  <2>1. \A i : i \in DOMAIN b /\ b[i].kind = "exit" <=> i \in Twice(step, 2)
    BY <1>4 DEF Where
  <2>2. \A i : i \in Twice(step, 2) <=> \E k \in 1 .. step : i = 2 * k + 2
    BY DEF Twice
  <2> HIDE DEF b
  <2> QED
    BY <2>1, <2>2
<1>8. \A audited : Reconciled(audited, ObservedEffects(b)) = "Proved"
                   <=> ObservedEffects(b) \subseteq audited.effects
  BY DEF Reconciled
<1> HIDE DEF b, p, document
<1>9. AuditReasons(p, document, graphs) = {} <=>
        /\ p.complete /\ Where(b, "error") = {}
        /\ ~\E i \in DOMAIN b : b[i].kind = "exit" /\ b[i].code # 0
        /\ OnceAs(b, [kind |-> "backend", id |-> p.backend, controls |-> p.controls])
        /\ p.controls \subseteq UNION {b[i].names : i \in Where(b, "controls")}
        /\ ~\E audited \in graphs : Reconciled(audited, ObservedEffects(b)) # "Proved"
  BY <1>3 DEF AuditReasons
<1>10. AuditReasons(p, document, graphs) = {} <=>
         /\ \A k \in 1 .. step : b[2 * k + 2].code = 0
         /\ \A audited \in graphs : ObservedEffects(b) \subseteq audited.effects
  BY <1>1, <1>4, <1>5, <1>6, <1>7, <1>8, <1>9
<1> QED
  BY <1>10, Zenon DEF b, p, document

LEMMA AuditAlwaysAgrees ==
  ASSUME SandboxAssumption, EvidenceInv, helper = "succeeded"
  PROVE  AuditAgrees
<1> DEFINE codes == \A k \in 1 .. step : evidence[2 * k + 2].code = 0
<1>1. /\ Len(endings) = step /\ endings \in Seq(Endings)
      /\ Exited(evidence, endings, step)
  BY WholeWhenSucceeded DEF Whole, Lived, EvidenceInv, TypeOK
<1>2. \A k \in 1 .. step : evidence[2 * k + 2].code \in ExitCodes[endings[k]]
  <2> SUFFICES ASSUME NEW k \in 1 .. step
               PROVE  evidence[2 * k + 2].code \in ExitCodes[endings[k]]
    OBVIOUS
  <2>1. PICK code \in ExitCodes[endings[k]] :
          evidence[2 * k + 2] = [kind |-> "exit", code |-> code]
    BY <1>1, Zenon DEF Exited
  <2> QED
    BY <2>1
<1>3. ASSUME codes, NEW i \in DOMAIN endings
      PROVE  endings[i] # "stepFailed"
  <2>1. i \in 1 .. step
    BY <1>1
  <2>2. 0 \in ExitCodes[endings[i]]
    BY <1>2, <1>3, <2>1
  <2> QED
    BY <2>2 DEF ExitCodes
<1>4. ASSUME outcome = "completed"
      PROVE  codes
  <2>1. AllCompleted
    <3>1. AllCompleted \/ StoppedShort
      BY DEF EvidenceInv, EndingsMatchStage
    <3>2. ~StoppedShort
      BY <1>1, <1>4 DEF StoppedShort
    <3> QED
      BY <3>1, <3>2
  <2>2. \A k \in 1 .. step : endings[k] = "completed"
    BY <1>1, <2>1 DEF AllCompleted, Completed
  <2>3. ExitCodes["completed"] = {0}
    BY DEF ExitCodes
  <2> QED
    BY <1>2, <2>2, <2>3
<1>5. \A graphs : AuditReasons(ThePlan, Printed, graphs) = {} <=>
        codes /\ \A audited \in graphs : ObservedEffects(evidence) \subseteq audited.effects
  BY AuditIsExact
<1> HIDE DEF codes
<1> QED
  BY <1>3, <1>4, <1>5, Zenon DEF AuditAgrees

\* For any tree, plan and number of steps: what a finished helper prints is
\* accepted exactly when redaction left the argv of its steps alone; nothing
\* that has lost, repeated, moved or changed a record, or its end, is; and an
\* audit verifies no run in which a step failed, and every one that passed and
\* did what its audited knows.
THEOREM EvidenceIsAccepted == Spec => []EvidenceAccepted
<1>1. EvidenceInv => EvidenceAccepted
  BY PrintedIsAccepted, DamageAlwaysNoticed, AuditAlwaysAgrees, SandboxAssumption
  DEF EvidenceAccepted
<1> QED
  BY <1>1, EvidenceAlwaysInShape, SandboxAssumption, PTL

-----------------------------------------------------------------------------
(* What the planner plans is one of the scenarios, over the graph of its   *)
(* program.                                                                *)
Known == scenario \in Scenarios /\ graph = GraphOf(scenario.program)

(* What a selected job needs is listed with it.                            *)
LEMMA JobsClosed ==
  ASSUME Plannable(graph), NEW jobs \in SUBSET Int
  PROVE  JobClosure(jobs) \in SUBSET Int /\ jobs \subseteq JobClosure(jobs)
         /\ JobClosure(jobs) \subseteq jobs \cup NodesOf(graph)
<1> DEFINE needed(seen) == {e.from : e \in {x \in graph.edges : IsControl(x) /\ x.to \in seen}}
           more(seen) == {n \in needed(seen) : graph.node[n].kind = "job"}
           add == [seen \in SUBSET Int |-> more(seen)]
           Step(f) == [seen \in SUBSET Int |->
                          IF more(seen) \subseteq seen THEN seen ELSE f[seen \cup more(seen)]]
           Turn(f) == [seen \in SUBSET Int |->
                          IF add[seen] \subseteq seen THEN seen ELSE f[seen \cup add[seen]]]
           closed == CHOOSE f : f = Step(f)
           F == NodesOf(graph)
<1>1. F \in SUBSET Int /\ IsFiniteSet(F)
  BY DEF Plannable
<1>2. \A seen \in SUBSET Int : add[seen] = more(seen) /\ more(seen) \in SUBSET F
  BY DEF Plannable
<1>3. add \in [SUBSET Int -> SUBSET F]
  <2> HIDE DEF more, F
  <2> QED BY <1>2
<1>4. \A A, B \in SUBSET Int : A \subseteq B => add[A] \subseteq add[B]
  <2>1. ASSUME NEW A \in SUBSET Int, NEW B \in SUBSET Int, A \subseteq B
        PROVE  more(A) \subseteq more(B)
    BY <2>1
  <2> HIDE DEF add, more
  <2> QED BY <1>2, <2>1
<1>5. \A f : Step(f) = Turn(f)
  <2> HIDE DEF more, add
  <2> QED BY <1>2
<1>6. IsClosure(Int, add, closed)
  <2> HIDE DEF Step, Turn
  <2>1. closed = CHOOSE f : f = Turn(f)
    BY <1>5
  <2> HIDE DEF closed
  <2> QED BY <2>1 DEF IsClosure, Turn
<1>7. JobClosure(jobs) = closed[jobs]
  BY DEF JobClosure
<1> HIDE DEF add, F, closed
<1>8. LeastClosed(Int, add, jobs, closed[jobs]) /\ closed[jobs] \subseteq jobs \cup F
  BY <1>1, <1>3, <1>4, <1>6, ClosureIsLeast
<1> QED BY <1>7, <1>8 DEF LeastClosed, F

-----------------------------------------------------------------------------
(* The plan on the wire, as its builder sees it.                           *)
LEMMA OneImage ==
  Workload(Images(Wire)) = Workloads
<1>1. Images(Wire) = {Image : n \in Range(PlannedSteps)}
  <2> DEFINE steps == {[supported |-> Supported(n), image |-> Image] : n \in Range(PlannedSteps)}
  <2>1. Wire.steps = steps
    BY DEF Wire
  <2>2. {made.image : made \in steps} = {Image : n \in Range(PlannedSteps)}
    <3>1. \A n \in Range(PlannedSteps) :
            LET made == [supported |-> Supported(n), image |-> Image]
            IN  made \in steps /\ made.image = Image
      OBVIOUS
    <3>2. \A made \in steps : made.image = Image /\ Range(PlannedSteps) # {}
      OBVIOUS
    <3> HIDE DEF steps
    <3> QED BY <3>1, <3>2
  <2> HIDE DEF steps
  <2> QED BY <2>1, <2>2 DEF Images
<1>2. CASE Range(PlannedSteps) = {}
  <2>1. Images(Wire) = {} /\ Cardinality({}) = 0
    BY <1>1, <1>2, FS_EmptySet
  <2> QED BY <1>2, <2>1 DEF Workload, Workloads
<1>3. CASE Range(PlannedSteps) # {}
  <2>1. Images(Wire) = {Image} /\ Cardinality({Image}) = 1
    BY <1>1, <1>3, FS_Singleton
  <2> QED BY <1>3, <2>1 DEF Workload, Workloads
<1> QED BY <1>2, <1>3

(* Of the controls a back end is asked for, whether the network is denied  *)
(* is all that depends on the scenario.                                    *)
LEMMA NetworkAsked ==
  ASSUME NEW backend \in DOMAIN SystemOf, NEW network \in BOOLEAN
  PROVE  /\ "network_deny" \in Controls(backend, network) <=> ~network
         /\ Offered(backend) \subseteq Controls(backend, network) <=> ~network
         /\ Controls(backend, network) \subseteq Offered(backend) <=> ~network
<1>1. backend \in {"oci", "linux", "windows", "macos"}
  BY DEF SystemOf
<1>2. "network_deny" \notin Always \cup Native[backend] /\ "egress_broker" \notin Always \cup Native[backend]
  BY <1>1 DEF Always, Native
<1> QED BY <1>2 DEF Controls, Offered

(* Of what a consistent request asks, the readers of the plan refuse only  *)
(* a boot image for Windows.                                               *)
LEMMA WireIsValid ==
  ASSUME scenario.backend \in DOMAIN SystemOf,
         {scenario.network, scenario.destinations, scenario.helper, scenario.boot} \subseteq BOOLEAN,
         Contradictions = {}, closure # {}
  PROVE  Validated(Wire) <=> ~(scenario.backend = "windows" /\ scenario.boot)
<1>1. /\ SystemOf[scenario.backend] = scenario.os
      /\ scenario.network = scenario.destinations
  BY DEF Contradictions
<1>2. NetworkHolds(Wire)
  BY <1>1, NetworkAsked DEF NetworkHolds, Wire
<1>3. Wire.jobs # {}
  BY DEF Wire
<1>4. RuntimeHolds(Wire) <=> ~(scenario.backend = "windows" /\ scenario.boot)
  BY <1>1, OneImage DEF RuntimeHolds, Wire
<1>5. StatusHolds(Wire)
  <2> SUFFICES ASSUME AllReasons = {} PROVE ~Unready(Wire)
    BY DEF StatusHolds, Wire
  <2>1. BuildReasons = {}
    BY DEF AllReasons
  <2>2. \A n \in Dependencies : Resolved(n)
    BY <2>1 DEF BuildReasons
  <2>3. \A n \in Range(PlannedSteps) : Supported(n) /\ scenario.capsule
    BY <2>1 DEF BuildReasons
  <2>4. Workloads # Unresolved /\ (scenario.backend # "oci" => scenario.helper)
        /\ (scenario.backend = "macos" => scenario.boot)
    BY <2>1 DEF BuildReasons
  <2>5. Image # Unresolved
    BY <2>4 DEF Workloads, Image
  <2>6. FALSE \notin Wire.dependencies
    BY <2>2 DEF Wire
  <2>7. \A made \in Wire.steps : made.supported /\ made.image # Unresolved
    BY <2>3, <2>5 DEF Wire
  <2> QED BY <2>4, <2>6, <2>7 DEF Unready, Wire
<1> QED BY <1>2, <1>3, <1>4, <1>5 DEF Validated

-----------------------------------------------------------------------------
(* The arguments, written and read back.                                   *)
Words == {"--run", "--engine", "--source", "root", "--exclude"}
Leading(wire) == IF wire.backend = "oci" THEN <<"--run", "--engine", wire.engine, "--source", "root">>
                 ELSE <<"--run", "--source", "root">>
Written(arguments, V, leading, from, exclusions, n) ==
    /\ arguments \in Seq(V) /\ Len(arguments) = from + 2 * n
    /\ DOMAIN arguments = 1 .. from + 2 * n
    /\ \A i \in 1 .. from : arguments[i] = leading[i]
    /\ \A k \in 1 .. n : /\ arguments[from + 2 * k - 1] = "--exclude"
                         /\ arguments[from + 2 * k] = exclusions[k]

(* What is written for the helper: the leading words, and two arguments    *)
(* for each exclusion.                                                     *)
LEMMA ArgumentsWritten ==
  ASSUME NEW wire, NEW T, NEW exclusions \in Seq(T), NEW from,
         from = IF wire.backend = "oci" THEN 5 ELSE 3
  PROVE  Written(Arguments(wire, exclusions), Words \cup T \cup {wire.engine}, Leading(wire),
                   from, exclusions, Len(exclusions))
<1> DEFINE head == Leading(wire)
           V == Words \cup T \cup {wire.engine}
           n == Len(exclusions)
           tail == Excluded(exclusions)
<1>1. n \in Nat
  OBVIOUS
<1>2. head \in Seq(V) /\ Len(head) = from /\ from \in Nat
  <2>1. {"--run", "--engine", "--source", "root", wire.engine} \subseteq V
    BY DEF Words
  <2> HIDE DEF V
  <2>2. CASE wire.backend = "oci"
    BY <2>1, <2>2 DEF Leading
  <2>3. CASE wire.backend # "oci"
    BY <2>1, <2>3 DEF Leading
  <2> QED BY <2>2, <2>3
<1>3. /\ tail = [i \in 1 .. 2 * n |-> IF i % 2 = 1 THEN "--exclude" ELSE exclusions[i \div 2]]
      /\ 2 * n \in Nat
  BY <1>1 DEF Excluded
<1>4. \A k \in 1 .. n : /\ 2 * k - 1 \in 1 .. 2 * n /\ 2 * k \in 1 .. 2 * n
                        /\ (2 * k - 1) % 2 = 1 /\ (2 * k) % 2 = 0 /\ (2 * k) \div 2 = k
  BY <1>1
<1>5. \A i \in 1 .. 2 * n : i % 2 # 1 => i \div 2 \in 1 .. n
  BY <1>1
<1>6. tail \in Seq(V) /\ Len(tail) = 2 * n
  <2>1. \A i \in 1 .. 2 * n : tail[i] \in V
    <3> TAKE i \in 1 .. 2 * n
    <3>1. CASE i % 2 = 1
      BY <1>3, <3>1 DEF Words
    <3>2. CASE i % 2 # 1
      <4>1. tail[i] = exclusions[i \div 2] /\ i \div 2 \in 1 .. n
        BY <1>3, <1>5, <3>2
      <4>2. exclusions[i \div 2] \in T
        BY <4>1
      <4> QED BY <4>1, <4>2
    <3> QED BY <3>1, <3>2
  <2> HIDE DEF V, tail, n
  <2>2. PICK size \in Nat : size = 2 * n
    BY <1>3
  <2>3. tail \in [1 .. size -> V]
    BY <1>3, <2>1, <2>2
  <2>4. tail \in Seq(V) /\ Len(tail) = size
    BY <2>3
  <2> QED BY <2>2, <2>4
<1>7. \A k \in 1 .. n : tail[2 * k - 1] = "--exclude" /\ tail[2 * k] = exclusions[k]
  <2> HIDE DEF tail, n
  <2> QED BY <1>3, <1>4
<1>8. Arguments(wire, exclusions) = head \o tail
  BY DEF Arguments, Leading
<1> HIDE DEF V, tail, head, n
<1> DEFINE arguments == head \o tail
<1>p. PICK size : size = 2 * n
  OBVIOUS
<1>q. PICK first : first = from
  OBVIOUS
<1>r. /\ arguments \in Seq(V) /\ Len(arguments) = first + size /\ DOMAIN arguments = 1 .. first + size
      /\ \A i \in 1 .. first : arguments[i] = head[i]
      /\ \A i \in 1 .. size : arguments[first + i] = tail[i]
  <2>1. Len(head) = first /\ Len(tail) = size /\ head \in Seq(V) /\ tail \in Seq(V)
    BY <1>2, <1>6, <1>p, <1>q
  <2>0. head \in Seq(V) /\ tail \in Seq(V)
    BY <2>1
  <2>2. arguments \in Seq(V) /\ Len(arguments) = Len(head) + Len(tail)
    BY <2>0
  <2>3. \A i \in 1 .. Len(head) : arguments[i] = head[i]
    BY <2>0
  <2>4. \A i \in 1 .. Len(tail) : arguments[Len(head) + i] = tail[i]
    BY <2>0
  <2>5. DOMAIN arguments = 1 .. Len(arguments)
    BY <2>2
  <2> HIDE DEF arguments
  <2> QED BY <2>1, <2>2, <2>3, <2>4, <2>5
<1>9. arguments \in Seq(V) /\ Len(arguments) = from + 2 * n /\ DOMAIN arguments = 1 .. from + 2 * n
  BY <1>p, <1>q, <1>r
<1>10. \A i \in 1 .. from : arguments[i] = head[i]
  BY <1>p, <1>q, <1>r
<1>11. \A i \in 1 .. 2 * n : arguments[from + i] = tail[i]
  BY <1>p, <1>q, <1>r
<1>12. \A k \in 1 .. n : /\ arguments[from + 2 * k - 1] = "--exclude"
                         /\ arguments[from + 2 * k] = exclusions[k]
  <2> TAKE k \in 1 .. n
  <2> HIDE DEF arguments
  <2>1. from + (2 * k - 1) = from + 2 * k - 1
    BY <1>1, <1>2
  <2> QED BY <1>4, <1>7, <1>11, <2>1
<1> QED BY <1>8, <1>9, <1>10, <1>12 DEF head, n, V, Written

(* The arguments after the leading words come in pairs.                    *)
LEMMA HalvesOf ==
  ASSUME NEW n \in Nat
  PROVE  /\ (2 * n) % 2 = 0
         /\ \A i \in 1 .. 2 * n : /\ i % 2 = 1 => \E k \in 1 .. n : i = 2 * k - 1
                                  /\ i % 2 # 1 => \E k \in 1 .. n : i = 2 * k
<1> SUFFICES ASSUME NEW i \in 1 .. 2 * n
             PROVE  /\ i % 2 = 1 => \E k \in 1 .. n : i = 2 * k - 1
                    /\ i % 2 # 1 => \E k \in 1 .. n : i = 2 * k
  OBVIOUS
<1> DEFINE half == i \div 2
<1>1. half \in Int /\ i = 2 * half + (i % 2) /\ i % 2 \in {0, 1} /\ i \in Int
  OBVIOUS
<1> HIDE DEF half
<1>2. CASE i % 2 = 1
  <2>1. i = 2 * (half + 1) - 1 /\ half + 1 \in 1 .. n
    BY <1>1, <1>2
  <2> QED BY <1>2, <2>1
<1>3. CASE i % 2 # 1
  <2>1. i = 2 * half /\ half \in 1 .. n
    BY <1>1, <1>3
  <2> QED BY <1>3, <2>1
<1> QED BY <1>2, <1>3

(* The members of a list are what is at its places.                        *)
LEMMA Members ==
  ASSUME NEW T, NEW s \in Seq(T)
  PROVE  /\ Len(s) \in Nat /\ DOMAIN s = 1 .. Len(s)
         /\ \A k \in 1 .. Len(s) : s[k] \in Range(s)
         /\ \A x \in Range(s) : \E k \in 1 .. Len(s) : x = s[k]
<1>1. Len(s) \in Nat /\ DOMAIN s = 1 .. Len(s)
  OBVIOUS
<1> QED BY <1>1 DEF Range

(* The OCI helper finds the words it expects, and the engine it was given  *)
(* (parse_helper_arguments).                                               *)
LEMMA EngineRead ==
  ASSUME NEW wire, wire.backend = "oci", NEW T, NEW exclusions \in Seq(T)
  PROVE  LET arguments == Arguments(wire, exclusions)
         IN  /\ EngineOf(arguments) = wire.engine
             /\ {"--run", "--source"} \subseteq {arguments[i] : i \in DOMAIN arguments}
<1> DEFINE arguments == Arguments(wire, exclusions)
           named == {i \in 1 .. Len(arguments) - 1 : arguments[i] = "--engine"}
           least(i) == i \in named /\ \A j \in named : i <= j
<1>0. Len(exclusions) \in Nat
  OBVIOUS
<1>1. /\ DOMAIN arguments = 1 .. 5 + 2 * Len(exclusions)
      /\ Len(arguments) = 5 + 2 * Len(exclusions)
      /\ arguments[1] = "--run" /\ arguments[2] = "--engine" /\ arguments[3] = wire.engine
      /\ arguments[4] = "--source"
  <2>1. Written(arguments, Words \cup T \cup {wire.engine}, Leading(wire), 5, exclusions, Len(exclusions))
    BY ArgumentsWritten
  <2>2. Leading(wire) = <<"--run", "--engine", wire.engine, "--source", "root">>
    BY DEF Leading
  <2> HIDE DEF arguments
  <2> QED BY <2>1, <2>2 DEF Written
<1> HIDE DEF arguments
<1>2. least(2)
  BY <1>0, <1>1
<1>3. \A i : least(i) => i = 2
  BY <1>0, <1>1, <1>2
<1>4. (CHOOSE i \in named : \A j \in named : i <= j) = 2
  BY <1>2, <1>3
<1>5. EngineOf(arguments) = wire.engine
  <2>1. named # {}
    BY <1>2
  <2>2. EngineOf(arguments) = arguments[1 + CHOOSE i \in named : \A j \in named : i <= j]
    BY <2>1 DEF EngineOf
  <2>3. EngineOf(arguments) = arguments[1 + 2]
    BY <1>4, <2>2, Zenon
  <2> QED BY <1>1, <2>3
<1>6. {"--run", "--source"} \subseteq {arguments[i] : i \in DOMAIN arguments}
  BY <1>0, <1>1
<1> QED BY <1>5, <1>6 DEF arguments

(* So does a native helper, which is given no engine.                      *)
LEMMA NativeRead ==
  ASSUME NEW wire, wire.backend # "oci", NEW T, NEW exclusions \in Seq(T),
         Blank \notin Range(exclusions)
  PROVE  Runs(Arguments(wire, exclusions))
<1> DEFINE arguments == Arguments(wire, exclusions)
           rest == SubSeq(arguments, 4, Len(arguments))
           n == Len(exclusions)
<1>0. n \in Nat /\ \A k \in 1 .. n : exclusions[k] # Blank
  BY Members
<1>1. /\ arguments \in Seq(Words \cup T \cup {wire.engine})
      /\ Len(arguments) = 3 + 2 * n
      /\ arguments[1] = "--run" /\ arguments[2] = "--source" /\ arguments[3] = "root"
      /\ \A k \in 1 .. n : /\ arguments[3 + 2 * k - 1] = "--exclude"
                           /\ arguments[3 + 2 * k] = exclusions[k]
  <2>1. Written(arguments, Words \cup T \cup {wire.engine}, Leading(wire), 3, exclusions, n)
    BY ArgumentsWritten
  <2>2. Leading(wire) = <<"--run", "--source", "root">>
    BY DEF Leading
  <2> HIDE DEF arguments, n
  <2> QED BY <2>1, <2>2 DEF Written
<1> HIDE DEF arguments, n
<1>2. /\ Len(rest) = 2 * n /\ DOMAIN rest = 1 .. 2 * n
      /\ \A i \in 1 .. 2 * n : rest[i] = arguments[3 + i]
  <2> DEFINE V == Words \cup T \cup {wire.engine}
  <2> HIDE DEF V
  <2>1. arguments \in Seq(V) /\ Len(arguments) = 3 + 2 * n
    BY <1>1 DEF V
  <2> QED BY <1>0, <2>1
<1>3. SubSeq(arguments, 1, 2) = <<"--run", "--source">>
  <2> DEFINE V == Words \cup T \cup {wire.engine}
             two == SubSeq(arguments, 1, 2)
  <2> HIDE DEF V
  <2>1. arguments \in Seq(V) /\ Len(arguments) = 3 + 2 * n
    BY <1>1 DEF V
  <2>2. two \in Seq(V) /\ Len(two) = 2 /\ two[1] = arguments[1] /\ two[2] = arguments[2]
    BY <1>0, <2>1
  <2> HIDE DEF two
  <2>3. two = <<two[1], two[2]>>
    BY <2>2
  <2> QED BY <1>1, <2>2, <2>3 DEF two
<1> HIDE DEF rest
<1>4. ASSUME NEW i \in 1 .. 2 * n
      PROVE  IF i % 2 = 1 THEN rest[i] = "--exclude" ELSE rest[i] # Blank
  <2>1. CASE i % 2 = 1
    <3>1. PICK k \in 1 .. n : i = 2 * k - 1
      BY <1>0, <2>1, HalvesOf
    <3>2. 3 + i = 3 + 2 * k - 1
      BY <1>0, <3>1
    <3> QED BY <1>1, <1>2, <2>1, <3>1, <3>2
  <2>2. CASE i % 2 # 1
    <3>1. PICK k \in 1 .. n : i = 2 * k
      BY <1>0, <2>2, HalvesOf
    <3> QED BY <1>0, <1>1, <1>2, <2>2, <3>1
  <2> QED BY <2>1, <2>2
<1>5. (2 * n) % 2 = 0 /\ 3 + 2 * n >= 3
  BY <1>0, HalvesOf
<1>6. Runs(arguments)
  <2>1. "root" # Blank
    BY DEF Blank
  <2> QED BY <1>1, <1>2, <1>3, <1>4, <1>5, <2>1 DEF Runs, rest
<1> QED BY <1>6 DEF arguments

(* Every exclusion of the command line reaches the helper, and nothing     *)
(* else does.                                                              *)
LEMMA ExclusionsRead ==
  ASSUME NEW wire, wire.backend = "oci" => wire.engine \in {"docker", "podman"},
         NEW T, NEW exclusions \in Seq(T), Blank \notin Range(exclusions)
  PROVE  Exclusions(Arguments(wire, exclusions)) = Range(exclusions)
<1> DEFINE arguments == Arguments(wire, exclusions)
           n == Len(exclusions)
           read == {j \in 2 .. Len(arguments) : arguments[j - 1] = "--exclude" /\ arguments[j] # Blank}
<1>0. /\ n \in Nat /\ \A k \in 1 .. n : exclusions[k] # Blank /\ exclusions[k] \in Range(exclusions)
      /\ \A x \in Range(exclusions) : \E k \in 1 .. n : x = exclusions[k]
  BY Members
<1>1. PICK from : from = IF wire.backend = "oci" THEN 5 ELSE 3
  OBVIOUS
<1>2. /\ Len(arguments) = from + 2 * n
      /\ \A i \in 1 .. from : arguments[i] # "--exclude"
      /\ \A k \in 1 .. n : /\ arguments[from + 2 * k - 1] = "--exclude"
                           /\ arguments[from + 2 * k] = exclusions[k]
  <2>1. Written(arguments, Words \cup T \cup {wire.engine}, Leading(wire), from, exclusions, n)
    BY <1>1, ArgumentsWritten
  <2>2. \A i \in 1 .. from : Leading(wire)[i] # "--exclude"
    <3>1. CASE wire.backend = "oci"
      BY <1>1, <3>1 DEF Leading
    <3>2. CASE wire.backend # "oci"
      BY <1>1, <3>2 DEF Leading
    <3> QED BY <3>1, <3>2
  <2> HIDE DEF arguments, n
  <2> QED BY <2>1, <2>2 DEF Written
<1>3. from \in {3, 5}
  BY <1>1
<1>4. Exclusions(arguments) = {arguments[j] : j \in read}
  BY DEF Exclusions
<1> HIDE DEF arguments, n
<1>5. ASSUME NEW k \in 1 .. n
      PROVE  from + 2 * k \in read /\ arguments[from + 2 * k] = exclusions[k]
  <2>1. /\ from + 2 * k \in 2 .. from + 2 * n /\ from + 2 * k - 1 = (from + 2 * k) - 1
    BY <1>0, <1>3
  <2> QED BY <1>0, <1>2, <2>1
<1>6. ASSUME NEW j \in read PROVE arguments[j] \in Range(exclusions)
  <2>1. j \in 2 .. from + 2 * n /\ arguments[j - 1] = "--exclude" /\ arguments[j] # Blank
    BY <1>2
  <2>2. j - 1 \notin 1 .. from
    BY <1>2, <2>1
  <2>3. j - from \in 1 .. 2 * n /\ j = from + (j - from)
    BY <1>0, <1>3, <2>1, <2>2
  <2>4. CASE \E k \in 1 .. n : j - from = 2 * k
    <3>1. PICK k \in 1 .. n : j - from = 2 * k
      BY <2>4
    <3>2. j = from + 2 * k
      BY <1>3, <2>1, <3>1
    <3> QED BY <1>0, <1>2, <3>1, <3>2
  <2>5. CASE \E k \in 1 .. n : j - from = 2 * k - 1
    <3>1. PICK k \in 1 .. n : j - from = 2 * k - 1
      BY <2>5
    <3>2. k - 1 \in 1 .. n /\ j - 1 = from + 2 * (k - 1) /\ j = from + 2 * k - 1
      BY <1>0, <1>3, <2>1, <2>2, <3>1
    <3>3. arguments[j - 1] = exclusions[k - 1] /\ arguments[j] = "--exclude"
      BY <1>2, <3>1, <3>2
    <3> QED BY <1>0, <2>1, <3>2, <3>3
  <2> QED BY <1>0, <2>3, <2>4, <2>5, HalvesOf
<1> HIDE DEF read
<1>7. {arguments[j] : j \in read} = Range(exclusions)
  BY <1>0, <1>5, <1>6
<1> QED BY <1>4, <1>7 DEF arguments

-----------------------------------------------------------------------------
(* What a plan says to the helper.                                         *)
Asks(wire) ==
    /\ Validated(wire)
    /\ wire.backend = scenario.backend /\ wire.engine = scenario.engine
    /\ wire.controls = Controls(scenario.backend, scenario.network)
    /\ wire.secrets = scenario.secrets
    /\ wire.complete \in BOOLEAN
    /\ wire.complete => scenario.secrets \subseteq scenario.granted

(* Only a plan that is complete, denies the network and fits the host is   *)
(* not refused by a helper.                                                *)
LEMMA NotRefused ==
  ASSUME ScenarioAssumption, scenario \in Scenarios, NEW wire, Asks(wire), wire.complete,
         scenario.installed
  PROVE  Refused(wire, Arguments(wire, scenario.exclusions), scenario.host) = {}
           <=> ~scenario.network /\ Fits
<1> DEFINE arguments == Arguments(wire, scenario.exclusions)
<1>1. /\ scenario.backend \in DOMAIN SystemOf /\ scenario.network \in BOOLEAN
      /\ scenario.host.available \in BOOLEAN
      /\ scenario.exclusions \in Seq(Range(scenario.exclusions))
      /\ Blank \notin Range(scenario.exclusions)
  BY DEF ScenarioAssumption
<1>2. /\ Validated(wire) /\ wire.backend = scenario.backend /\ wire.engine = scenario.engine
      /\ wire.controls = Controls(scenario.backend, scenario.network)
  BY DEF Asks
<1>3. CASE scenario.backend = "oci"
  <2>1. /\ EngineOf(arguments) = wire.engine
        /\ {"--run", "--source"} \subseteq {arguments[i] : i \in DOMAIN arguments}
    BY <1>1, <1>2, <1>3, EngineRead
  <2> HIDE DEF arguments
  <2>2. Refused(wire, arguments, scenario.host) = OciRefusal(wire, wire.engine, scenario.host)
    BY <1>2, <1>3, <2>1 DEF Refused, OciMain
  <2>3. Offered("oci") \subseteq wire.controls <=> ~scenario.network
    BY <1>1, <1>2, <1>3, NetworkAsked
  <2>4. OciRefusal(wire, wire.engine, scenario.host) = {}
          <=> wire.engine \in {"docker", "podman"} /\ scenario.host.available
                /\ Offered("oci") \subseteq wire.controls
    BY DEF OciRefusal
  <2> QED BY <1>2, <1>3, <2>2, <2>3, <2>4 DEF Fits, arguments
<1>4. CASE scenario.backend # "oci"
  <2>1. Runs(arguments)
    BY <1>1, <1>2, <1>4, NativeRead
  <2> HIDE DEF arguments
  <2>2. Refused(wire, arguments, scenario.host) = NativeRefusal(wire, scenario.host)
    BY <1>2, <1>4, <2>1 DEF Refused, NativeMain
  <2>3. wire.controls \subseteq Offered(scenario.backend) <=> ~scenario.network
    BY <1>1, <1>2, NetworkAsked
  <2>4. NativeRefusal(wire, scenario.host) = {}
          <=> scenario.host.system = SystemOf[wire.backend] /\ scenario.host.available
                /\ wire.controls \subseteq Offered(wire.backend)
    BY DEF NativeRefusal
  <2> QED BY <1>2, <1>4, <2>2, <2>3, <2>4 DEF Fits, arguments
<1> QED BY <1>3, <1>4

(* Where the planner is, what it has of a plan.                            *)
Unplanned == plan = <<>> /\ launch = <<>>
Ready4Launch == 
    /\ plan[1].refused = {} /\ plan[1].steps = PlannedSteps /\ Asks(plan[1].wire)
    /\ plan[1].wire.complete <=> plan[1].reasons = {}
Answered ==
    \/ /\ launch = <<>> /\ plan # <<>> /\ plan[1].refused # {}
       /\ plan[1].refused = {"wire"} => scenario.backend = "windows" /\ scenario.boot
    \/ /\ plan # <<>> /\ Ready4Launch /\ launch # <<>>
       /\ launch[1].refused = {} <=> plan[1].wire.complete /\ ~scenario.network /\ Fits
       /\ launch[1].refused = {} =>
            /\ launch[1].steps = PlannedSteps /\ launch[1].network = "none"
            /\ launch[1].excluded = Range(scenario.exclusions)
            /\ launch[1].environment \cap {"secret", "other"} \subseteq scenario.granted
AnswerInv ==
    /\ Known
    /\ stage \in {"select", "walk", "order", "launch", "done"}
    /\ stage \in {"walk", "order"} => closure # {}
    /\ stage \in {"select", "walk", "order"} => Unplanned
    /\ stage = "launch" => plan # <<>> /\ launch = <<>> /\ Ready4Launch
    /\ stage = "done" => Answered

(* The steps of a plan are what the walk and the order make them.          *)
LEMMA SamePlan ==
  ASSUME UNCHANGED <<graph, truths, order>>
  PROVE  PlannedSteps' = PlannedSteps
<1>1. \A n : Found(n)' = Found(n)
  BY DEF Found
<1>2. \A n : Truth(n)' = Truth(n)
  BY <1>1 DEF Truth
<1>3. Sure' = Sure
  BY <1>2 DEF Sure, Commands, NodesOf
<1> QED BY <1>3 DEF PlannedSteps

(* Before anything is selected nothing is planned or started.              *)
LEMMA AnswerInit ==
  ASSUME PlannerInit PROVE AnswerInv
BY DEF PlannerInit, AnswerInv, Known, Unplanned

(* A scenario that is not refused has a job that is selected.              *)
LEMMA SelectAnswer ==
  ASSUME ScenarioAssumption, AnswerInv, Select PROVE AnswerInv'
<1>1. /\ Known' /\ Unplanned' /\ stage' = "walk"
  BY DEF AnswerInv, Select, Known, Unplanned
<1>2. OfJob(scenario.job) # {} /\ OfJob(scenario.job) \subseteq NodesOf(graph)
  BY DEF Select, Refusals, OfJob
<1>3. Plannable(graph)
  BY DEF AnswerInv, Known, ScenarioAssumption
<1>4. OfJob(scenario.job) \in SUBSET Int
  BY <1>2, <1>3 DEF Plannable
<1>5. closure' # {}
  BY <1>2, <1>3, <1>4, JobsClosed DEF Select
<1> QED BY <1>1, <1>5 DEF AnswerInv

(* What is built is launched only if build_sandbox_plan and the validation *)
(* of the wire let it through.                                             *)
LEMMA BuildAnswer ==
  ASSUME ScenarioAssumption, AnswerInv, Build PROVE AnswerInv'
<1> DEFINE refused == IF Contradictions # {} THEN Contradictions
                      ELSE IF Validated(Wire) THEN {} ELSE {"wire"}
           built == [refused |-> {}, steps |-> PlannedSteps, wire |-> Wire, reasons |-> AllReasons]
<1>1. /\ stage = "order" /\ closure # {} /\ launch = <<>> /\ Known
      /\ plan' = <<IF refused # {} THEN [refused |-> refused] ELSE built>>
      /\ stage' = IF refused = {} THEN "launch" ELSE "done"
      /\ UNCHANGED <<scenario, graph, closure, queue, truths, order, launch>>
  BY DEF Build, AnswerInv, Unplanned
<1>2. Known'
  BY <1>1 DEF Known
<1>3. scenario.backend \in DOMAIN SystemOf
      /\ {scenario.network, scenario.destinations, scenario.helper, scenario.boot} \subseteq BOOLEAN
  BY <1>1 DEF ScenarioAssumption, Known
<1>4. CASE refused # {}
  <2>1. plan' = <<[refused |-> refused]>> /\ stage' = "done" /\ launch' = <<>>
    BY <1>1, <1>4
  <2>2. ASSUME refused = {"wire"} PROVE scenario.backend = "windows" /\ scenario.boot
    <3>1. Contradictions = {} /\ ~Validated(Wire)
      BY <2>2 DEF Contradictions
    <3> QED BY <1>1, <1>3, <3>1, WireIsValid
  <2> HIDE DEF refused
  <2>3. plan' # <<>> /\ plan'[1].refused = refused
    BY <2>1
  <2>4. Answered'
    BY <1>1, <1>4, <2>1, <2>2, <2>3 DEF Answered
  <2> QED BY <1>2, <2>1, <2>4 DEF AnswerInv
<1>5. CASE refused = {}
  <2>1. plan' = <<built>> /\ stage' = "launch" /\ launch' = <<>>
    BY <1>1, <1>5
  <2>2. Contradictions = {} /\ Validated(Wire)
    BY <1>5
  <2>3. /\ Wire.backend = scenario.backend /\ Wire.engine = scenario.engine
        /\ Wire.controls = Controls(scenario.backend, scenario.network)
        /\ Wire.secrets = scenario.secrets
        /\ Wire.complete = (AllReasons = {})
    BY DEF Wire
  <2>4. Wire.complete => scenario.secrets \subseteq scenario.granted
    <3>1. SUFFICES ASSUME BuildReasons = {} PROVE scenario.secrets \subseteq scenario.granted
      BY <2>3 DEF AllReasons
    <3>2. \A s \in scenario.secrets \ scenario.granted : <<"secret", s>> \in BuildReasons
      BY Zenon DEF BuildReasons
    <3> QED BY <3>1, <3>2
  <2>5. /\ built.refused = {} /\ built.steps = PlannedSteps /\ built.wire = Wire
        /\ built.reasons = AllReasons
    OBVIOUS
  <2> HIDE DEF built, refused
  <2>6. plan' # <<>> /\ plan'[1] = built
    BY <2>1
  <2>7. Asks(Wire) /\ scenario' = scenario
    BY <1>1, <2>2, <2>3, <2>4 DEF Asks
  <2>8. Asks(plan[1].wire)'
    BY <2>5, <2>6, <2>7 DEF Asks
  <2>9. PlannedSteps' = PlannedSteps
    BY <1>1, SamePlan
  <2>10. Ready4Launch'
    BY <2>3, <2>5, <2>6, <2>8, <2>9 DEF Ready4Launch
  <2> QED BY <1>2, <2>1, <2>6, <2>10 DEF AnswerInv
<1> QED BY <1>4, <1>5

(* What is launched is started only if the plan is complete, denies the    *)
(* network and fits the host.                                              *)
LEMMA RunAnswer ==
  ASSUME ScenarioAssumption, AnswerInv, RunPlan PROVE AnswerInv'
<1> DEFINE wire == plan[1].wire
           arguments == Arguments(wire, scenario.exclusions)
           refused == IF ~wire.complete THEN {"incomplete"}
                      ELSE IF ~scenario.installed THEN {"infrastructure"}
                      ELSE Refused(wire, arguments, scenario.host)
           started == [refused |-> {}, steps |-> plan[1].steps, network |-> StepNetwork(wire),
                       excluded |-> Exclusions(arguments),
                       environment |-> HelperEnvironment(wire, scenario.environment)]
<1>1. /\ Known /\ plan # <<>> /\ Ready4Launch
      /\ launch' = <<IF refused # {} THEN [refused |-> refused] ELSE started>>
      /\ stage' = "done"
      /\ UNCHANGED <<scenario, graph, closure, queue, truths, order, plan>>
  BY DEF RunPlan, AnswerInv
<1>2. Known' /\ plan' # <<>>
  BY <1>1 DEF Known
<1>3. /\ Asks(wire) /\ plan[1].steps = PlannedSteps
  BY <1>1 DEF Ready4Launch
<1>4. PlannedSteps' = PlannedSteps
  BY <1>1, SamePlan
<1>5. Ready4Launch'
  BY <1>1, <1>4 DEF Ready4Launch, Asks
<1>6. refused = {} <=> wire.complete /\ ~scenario.network /\ Fits
  BY <1>1, <1>3, NotRefused DEF Known, Fits
<1>7. ASSUME refused = {}
      PROVE  /\ started.network = "none" /\ started.excluded = Range(scenario.exclusions)
             /\ started.environment \cap {"secret", "other"} \subseteq scenario.granted
  <2>1. wire.complete /\ ~scenario.network /\ Fits
    BY <1>6, <1>7
  <2>2. /\ scenario.backend \in DOMAIN SystemOf /\ scenario.network \in BOOLEAN
        /\ scenario.exclusions \in Seq(Range(scenario.exclusions))
        /\ Blank \notin Range(scenario.exclusions)
    BY <1>1 DEF ScenarioAssumption, Known
  <2>3. "network_deny" \in wire.controls
    BY <1>3, <2>1, <2>2, NetworkAsked DEF Asks
  <2>4. wire.backend = "oci" => wire.engine \in {"docker", "podman"}
    BY <1>3, <2>1 DEF Asks, Fits
  <2>5. Exclusions(arguments) = Range(scenario.exclusions)
    BY <2>2, <2>4, ExclusionsRead
  <2>6. wire.secrets \subseteq scenario.granted
    BY <1>3, <2>1 DEF Asks
  <2> HIDE DEF wire, arguments
  <2> QED BY <2>3, <2>5, <2>6 DEF StepNetwork, HelperEnvironment
<1>8. launch' # <<>> /\ launch'[1].refused = refused /\ (refused = {} => launch'[1] = started)
  <2>1. started.refused = {}
    OBVIOUS
  <2> HIDE DEF started, refused
  <2> QED BY <1>1, <2>1
<1>9. started.steps = plan[1].steps
  OBVIOUS
<1> HIDE DEF started, refused
<1>10. Answered'
  BY <1>1, <1>2, <1>3, <1>4, <1>5, <1>6, <1>7, <1>8, <1>9 DEF Answered, Fits
<1> QED BY <1>1, <1>2, <1>10 DEF AnswerInv

(* Every step of the planner keeps that.                                   *)
LEMMA AnswerNext ==
  ASSUME ScenarioAssumption, AnswerInv, [PlannerNext]_plannerVars PROVE AnswerInv'
<1>1. CASE Refuse
  <2>1. {"wire"} # Refusals /\ Refusals # {}
    BY <1>1 DEF Refuse, Refusals
  <2>2. plan' # <<>> /\ plan'[1].refused = Refusals
    BY <1>1 DEF Refuse
  <2> QED BY <1>1, <2>1, <2>2 DEF Refuse, AnswerInv, Answered, Known, Unplanned
<1>2. CASE VisitNode \/ EndWalk \/ Emit
  BY <1>2 DEF VisitNode, EndWalk, Emit, AnswerInv, Known, Unplanned
<1>3. CASE UNCHANGED plannerVars
  <2>1. PlannedSteps' = PlannedSteps
    BY <1>3, SamePlan DEF plannerVars
  <2>2. UNCHANGED <<scenario, graph, stage, closure, plan, launch>>
    BY <1>3 DEF plannerVars
  <2>3. Ready4Launch' <=> Ready4Launch
    BY <2>1, <2>2 DEF Ready4Launch, Asks
  <2>4. Answered' <=> Answered
    BY <2>1, <2>2, <2>3 DEF Answered, Fits
  <2> QED BY <2>2, <2>3, <2>4 DEF AnswerInv, Known, Unplanned
<1> QED BY <1>1, <1>2, <1>3, SelectAnswer, BuildAnswer, RunAnswer DEF PlannerNext

(* Steps start exactly when the plan is complete, denies the network and   *)
(* fits the host, and then they are the plan's, with the exclusions and of *)
(* the environment the granted secrets: neither the plan's builder nor     *)
(* validate_plan and the helpers let through what the other would not.     *)
THEOREM ContainedWork ==
  PlannerSpec => []OnlyContainedWorkStarts
<1>1. AnswerInv => OnlyContainedWorkStarts
  BY DEF AnswerInv, OnlyContainedWorkStarts, Answered, Ready4Launch, Started, Complete, Planned, Asks
<1>2. AnswerInv /\ [PlannerNext]_plannerVars => AnswerInv'
  BY ScenarioAssumption, AnswerNext
<1> QED BY <1>1, <1>2, AnswerInit, PTL DEF PlannerSpec
-----------------------------------------------------------------------------
(* Nodes that are selected, and those that come after one of them.         *)
After(n) == Spread(graph, FlowKinds, NodesOf(graph) \ Selected, {n})

(* A composed program can be searched.                                     *)
LEMMA GraphIsSearchable ==
  ASSUME Plannable(graph) PROVE Searchable(graph)
BY DEF Plannable, Searchable

(* What is selected is a finite set of nodes.                              *)
LEMMA SelectedIsFinite ==
  ASSUME Plannable(graph)
  PROVE  Selected \in SUBSET NodesOf(graph) /\ Selected \in SUBSET Int /\ IsFiniteSet(Selected)
<1>1. Selected \in SUBSET NodesOf(graph)
  BY DEF Selected
<1> QED BY <1>1, FS_Subset DEF Plannable

(* Of two nodes that an edge connects, less comes after the later one      *)
(* where no node comes after itself.                                       *)
LEMMA LessComesAfter ==
  ASSUME Plannable(graph), ~Cyclic, NEW e \in graph.edges, e.kind \in FlowKinds,
         e.from \in Selected, e.to \in Selected
  PROVE  Left(NodesOf(graph), After(e.from)) < Left(NodesOf(graph), After(e.to))
<1> DEFINE avoided == NodesOf(graph) \ Selected
           Nodes == NodesOf(graph)
           p == e.from
           n == e.to
<1>1. /\ Searchable(graph) /\ p \in Nodes /\ n \in Nodes /\ Nodes \in SUBSET Int
      /\ IsFiniteSet(Nodes) /\ p \notin avoided /\ n \notin avoided
      /\ \A x \in graph.edges : x.to \in Nodes
  BY GraphIsSearchable DEF Selected, Plannable
<1>2. ASSUME NEW m \in Nodes
      PROVE  /\ After(m) \in SUBSET Int /\ m \in After(m)
             /\ Shut(graph, FlowKinds, avoided, After(m))
             /\ \A C \in SUBSET Int : m \in C /\ Shut(graph, FlowKinds, avoided, C)
                                        => After(m) \subseteq C
  <2>1. {m} \in SUBSET Int
    BY <1>1
  <2>2. After(m) = Spread(graph, FlowKinds, avoided, {m})
    BY DEF After
  <2> HIDE DEF avoided, Nodes
  <2> QED BY <1>1, <2>1, <2>2, SpreadIsLeast
<1>3. n \in After(p)
  BY <1>1, <1>2 DEF Shut
<1>4. After(n) \subseteq After(p)
  BY <1>1, <1>2, <1>3
<1>5. p \notin After(n)
  BY <1>1 DEF Cyclic, After
<1>6. p \in After(p) /\ p \in Nodes
  BY <1>1, <1>2
<1> HIDE DEF Nodes
<1>7. Left(Nodes, After(p)) < Left(Nodes, After(n))
  BY <1>1, <1>4, <1>5, <1>6, LeftShrinks
<1> QED BY <1>7 DEF Nodes

(* What is left of the nodes can be counted.                               *)
LEMMA LeftIsNumber ==
  ASSUME Plannable(graph), NEW C PROVE Left(NodesOf(graph), C) \in Nat
BY FS_Difference, FS_CardinalityType DEF Left, Plannable

(* Where no node comes after itself, one of those left is ready.           *)
LEMMA SomeAreReady ==
  ASSUME Plannable(graph), NEW remaining \in SUBSET Selected, remaining # {},
         Selected \ remaining \subseteq Range(order), Ready(remaining) = {}
  PROVE  Cyclic
<1> SUFFICES ASSUME ~Cyclic PROVE FALSE
  OBVIOUS
<1> DEFINE many(n) == Left(NodesOf(graph), After(n))
           S == {many(n) : n \in remaining}
<1>1. S \in SUBSET Nat /\ S # {}
  <2>1. \A n : many(n) \in Nat
    BY LeftIsNumber
  <2> HIDE DEF many
  <2> QED BY <2>1
<1>2. PICK n \in remaining : \A m \in remaining : many(n) <= many(m)
  <2> HIDE DEF many, S
  <2>1. PICK x \in S : \A y \in S : x <= y
    BY <1>1, LeastMember
  <2> QED BY <2>1 DEF S
<1>3. PICK e \in graph.edges : /\ e.kind \in FlowKinds /\ e.to = n /\ e.from \in Selected
                               /\ e.from \notin Range(order)
  BY DEF Ready
<1>4. e.from \in remaining /\ e.to \in Selected
  BY <1>3
<1>5. many(e.from) < many(n)
  BY <1>3, <1>4, LessComesAfter
<1>6. many(e.from) \in Nat /\ many(n) \in Nat
  BY LeftIsNumber
<1>7. many(n) <= many(e.from)
  BY <1>2, <1>4
<1> HIDE DEF many
<1> QED BY <1>5, <1>6, <1>7

-----------------------------------------------------------------------------
Unrepeated(s) == \A i, j \in 1 .. Len(s) : s[i] = s[j] => i = j
FlowsInto(x) == {e \in Flows : e.to \in x}
Ordered == \A e \in FlowsInto(Range(order)) : Before(e.from, e.to)

(* When a node is emitted, so is what waits only for one before it; and    *)
(* what is emitted after the node comes after that too.                    *)
Eager == \A e \in FlowsInto(Range(order)) : \A n \in Selected :
             WaitsOnlyFor(n, e.from) => n \in Range(order)
Leveled == \A f \in FlowsInto(Range(order)) : \A e \in Flows : \A n \in Selected :
               e.to = f.from /\ WaitsOnlyFor(n, e.from) => Before(n, f.to)
OrderInv ==
    /\ Known
    /\ order \in Seq(Int)
    /\ stage \in {"select", "walk"} => order = <<>>
    /\ stage = "order" => /\ Range(order) \subseteq Selected /\ Unrepeated(order)
                          /\ ~Cyclic => Ordered /\ Eager /\ Leveled

(* What is emitted at once: everything ready, or all that is left.         *)
LEMMA BatchSet ==
  ASSUME Plannable(graph), NEW remaining \in SUBSET Selected
  PROVE  LET B == IF Ready(remaining) = {} THEN remaining ELSE Ready(remaining)
         IN  /\ Batch(remaining) \in Seq(Int) /\ Range(Batch(remaining)) = B
             /\ Unrepeated(Batch(remaining)) /\ B \subseteq remaining
<1> DEFINE B == IF Ready(remaining) = {} THEN remaining ELSE Ready(remaining)
<1>1. B \subseteq remaining
  BY DEF Ready
<1>2. B \in SUBSET Int /\ IsFiniteSet(B)
  <2>1. B \in SUBSET Selected
    BY <1>1
  <2> HIDE DEF B
  <2> QED BY <2>1, SelectedIsFinite, FS_Subset
<1>3. Batch(remaining) = Ascending(B)
  BY DEF Batch
<1> HIDE DEF B
<1>4. /\ Ascending(B) \in Seq(B) /\ Range(Ascending(B)) = B
      /\ Unrepeated(Ascending(B))
  BY <1>2, AscendingLists DEF Unrepeated
<1>5. Ascending(B) \in Seq(Int)
  <2>1. Ascending(B) \in [1 .. Len(Ascending(B)) -> B] /\ Len(Ascending(B)) \in Nat
    BY <1>4
  <2>2. Ascending(B) \in [1 .. Len(Ascending(B)) -> Int]
    BY <1>2, <2>1
  <2> QED BY <2>1, <2>2
<1> QED BY <1>1, <1>3, <1>4, <1>5 DEF B

(* A list continued by what is not in it repeats nothing.                  *)
LEMMA JoinedOnce ==
  ASSUME NEW p \in Seq(Int), NEW q \in Seq(Int), Unrepeated(p), Unrepeated(q), Range(p) \cap Range(q) = {}
  PROVE  /\ p \o q \in Seq(Int) /\ Unrepeated(p \o q) /\ Range(p \o q) = Range(p) \cup Range(q)
         /\ \A i \in 1 .. Len(p) : (p \o q)[i] = p[i]
         /\ \A x \in Range(q) : \E i \in 1 .. Len(p \o q) : (p \o q)[i] = x /\ i > Len(p)
         /\ Len(p) <= Len(p \o q)
<1>0. Len(p) \in Nat /\ Len(q) \in Nat
  OBVIOUS
<1>1. p \o q \in Seq(Int) /\ Len(p \o q) = Len(p) + Len(q)
  OBVIOUS
<1>2. \A i \in 1 .. Len(p) : (p \o q)[i] = p[i] /\ p[i] \in Range(p)
  BY DEF Range
<1>3. \A i \in 1 .. Len(q) : (p \o q)[Len(p) + i] = q[i] /\ q[i] \in Range(q)
  BY DEF Range
<1>4. \A x \in Range(q) : \E i \in 1 .. Len(q) : q[i] = x
  BY DEF Range
<1>5. Range(p \o q) = Range(p) \cup Range(q)
  BY RangeOfConcatenation
<1> DEFINE r == p \o q
<1> HIDE DEF r
<1>6. ASSUME NEW i \in 1 .. Len(r), NEW j \in 1 .. Len(r), r[i] = r[j] PROVE i = j
  <2>1. ASSUME NEW k \in 1 .. Len(r), k > Len(p)
        PROVE  k - Len(p) \in 1 .. Len(q) /\ r[k] = q[k - Len(p)] /\ r[k] \in Range(q)
    <3>1. k - Len(p) \in 1 .. Len(q) /\ Len(p) + (k - Len(p)) = k
      BY <1>0, <1>1, <2>1 DEF r
    <3> QED BY <1>3, <3>1 DEF r
  <2>2. ASSUME NEW k \in 1 .. Len(r), ~(k > Len(p))
        PROVE  k \in 1 .. Len(p) /\ r[k] = p[k] /\ r[k] \in Range(p)
    BY <1>0, <1>2, <2>2 DEF r
  <2>3. CASE i > Len(p) /\ j > Len(p)
    <3>1. i - Len(p) = j - Len(p)
      BY <1>6, <2>1, <2>3 DEF Unrepeated
    <3> QED BY <1>0, <1>1, <3>1
  <2>4. CASE ~(i > Len(p)) /\ ~(j > Len(p))
    BY <1>6, <2>2, <2>4 DEF Unrepeated
  <2>5. CASE (i > Len(p)) # (j > Len(p))
    BY <1>6, <2>1, <2>2, <2>5
  <2> QED BY <2>3, <2>4, <2>5
<1>7. ASSUME NEW x \in Range(q) PROVE \E i \in 1 .. Len(r) : r[i] = x /\ i > Len(p)
  <2>1. PICK i \in 1 .. Len(q) : q[i] = x
    BY <1>4
  <2>2. Len(p) + i \in 1 .. Len(r) /\ Len(p) + i > Len(p) /\ r[Len(p) + i] = x
    BY <1>0, <1>1, <1>3, <2>1 DEF r
  <2> QED BY <2>2
<1>8. Len(p) <= Len(p \o q)
  BY <1>0, <1>1
<1> QED BY <1>1, <1>2, <1>5, <1>6, <1>7, <1>8 DEF r, Unrepeated

(* Emitting what is ready keeps the order, and where the program has no    *)
(* cycle something is ready.                                               *)
LEMMA EmitOrder ==
  ASSUME ScenarioAssumption, OrderInv, Emit PROVE OrderInv'
<1> DEFINE remaining == Selected \ Range(order)
           batch == Batch(remaining)
           B == IF Ready(remaining) = {} THEN remaining ELSE Ready(remaining)
<1>1. /\ Known /\ order \in Seq(Int) /\ stage = "order" /\ Range(order) # Selected
      /\ Range(order) \subseteq Selected /\ Unrepeated(order)
      /\ (~Cyclic => Ordered /\ Eager /\ Leveled)
      /\ order' = order \o batch
      /\ UNCHANGED <<scenario, graph, stage, truths>>
  BY DEF OrderInv, Emit
<1>2. Plannable(graph)
  BY <1>1 DEF Known, ScenarioAssumption
<1>3. batch \in Seq(Int) /\ Range(batch) = B /\ Unrepeated(batch) /\ B \subseteq remaining
  <2>1. remaining \in SUBSET Selected
    OBVIOUS
  <2> HIDE DEF remaining
  <2> QED BY <1>2, <2>1, BatchSet
<1>4. /\ Selected' = Selected /\ (Cyclic' <=> Cyclic) /\ Flows' = Flows
      /\ \A n, m : WaitsOnlyFor(n, m)' <=> WaitsOnlyFor(n, m)
  <2>1. \A n : Truth(n)' = Truth(n)
    BY <1>1 DEF Truth, Found
  <2>2. Selected' = Selected
    BY <1>1, <2>1 DEF Selected, NodesOf
  <2>3. Cyclic' <=> Cyclic
    BY <1>1, <2>2 DEF Cyclic, NodesOf
  <2>4. Flows' = Flows
    BY <1>1, <2>2 DEF Flows
  <2> QED BY <2>2, <2>3, <2>4 DEF WaitsOnlyFor
<1>5. Known'
  BY <1>1 DEF Known
<1> HIDE DEF batch
<1>6. Range(order) \cap Range(batch) = {}
  BY <1>3
<1>7. /\ order' \in Seq(Int) /\ Unrepeated(order') /\ Range(order') = Range(order) \cup Range(batch)
      /\ \A i \in 1 .. Len(order) : order'[i] = order[i]
      /\ \A x \in Range(batch) : \E i \in 1 .. Len(order') : order'[i] = x /\ i > Len(order)
      /\ Len(order) <= Len(order')
  <2>1. /\ order \o batch \in Seq(Int) /\ Unrepeated(order \o batch)
        /\ Range(order \o batch) = Range(order) \cup Range(batch)
        /\ \A i \in 1 .. Len(order) : (order \o batch)[i] = order[i]
        /\ \A x \in Range(batch) : \E i \in 1 .. Len(order \o batch) :
                                      (order \o batch)[i] = x /\ i > Len(order)
        /\ Len(order) <= Len(order \o batch)
    BY <1>1, <1>3, <1>6, JoinedOnce
  <2>2. order' = order \o batch
    BY <1>1
  <2> QED BY <2>1, <2>2
<1>8. Range(order') \subseteq Selected
  BY <1>1, <1>3, <1>7
<1>9. DOMAIN order = 1 .. Len(order) /\ DOMAIN order' = 1 .. Len(order')
      /\ Len(order) \in Nat /\ Len(order') \in Nat
  BY <1>1, <1>7
<1>10. ASSUME NEW a, NEW b, Before(a, b) PROVE Before(a, b)'
  <2>1. PICK i, j \in 1 .. Len(order) : order[i] = a /\ order[j] = b /\ i < j
    BY <1>9, <1>10 DEF Before
  <2>2. i \in 1 .. Len(order') /\ j \in 1 .. Len(order')
    BY <1>7, <1>9
  <2>3. order'[i] = a /\ order'[j] = b
    BY <1>7, <2>1
  <2> QED BY <1>9, <2>1, <2>2, <2>3 DEF Before
<1>11. ASSUME NEW a \in Range(order), NEW b \in Range(batch) PROVE Before(a, b)'
  <2>1. PICK i \in 1 .. Len(order) : order[i] = a
    BY <1>9 DEF Range
  <2>2. PICK j \in 1 .. Len(order') : order'[j] = b /\ j > Len(order)
    BY <1>7
  <2>3. i \in 1 .. Len(order') /\ i < j /\ order'[i] = a
    BY <1>7, <1>9, <2>1, <2>2
  <2> QED BY <1>9, <2>2, <2>3 DEF Before
<1>12. ASSUME ~Cyclic PROVE Range(batch) = Ready(remaining)
  <2>1. remaining # {} /\ Selected \ remaining \subseteq Range(order) /\ remaining \in SUBSET Selected
    BY <1>1
  <2>2. Ready(remaining) # {}
    <3> HIDE DEF remaining
    <3> QED BY <1>2, <1>12, <2>1, SomeAreReady
  <2> QED BY <1>3, <2>2
<1>13. ASSUME NEW e \in Flows, e.to \in Ready(remaining) PROVE e.from \in Range(order)
  BY <1>13 DEF Ready, Flows
<1>14. ASSUME NEW n \in remaining, NEW m \in Range(order), WaitsOnlyFor(n, m)
       PROVE  n \in Ready(remaining)
  BY <1>14 DEF Ready, Flows, WaitsOnlyFor
<1> HIDE DEF B
<1>15. ~Cyclic => Ordered'
  <2> SUFFICES ASSUME ~Cyclic, NEW e \in Flows, e.to \in Range(order')
               PROVE  Before(e.from, e.to)'
    BY <1>4 DEF Ordered, FlowsInto
  <2>1. CASE e.to \in Range(order)
    BY <1>1, <1>10, <2>1 DEF Ordered, FlowsInto
  <2>2. CASE e.to \in Range(batch)
    BY <1>11, <1>12, <1>13, <2>2
  <2> QED BY <1>7, <2>1, <2>2
<1>16. ~Cyclic => Eager'
  <2> SUFFICES ASSUME ~Cyclic, NEW e \in Flows, e.to \in Range(order'),
                      NEW n \in Selected, WaitsOnlyFor(n, e.from)
               PROVE  n \in Range(order')
    BY <1>4 DEF Eager, FlowsInto
  <2>1. CASE e.to \in Range(order)
    BY <1>1, <1>7, <2>1 DEF Eager, FlowsInto
  <2>2. CASE e.to \in Range(batch)
    <3>1. e.from \in Range(order)
      BY <1>12, <1>13, <2>2
    <3>2. n \in Range(order) \/ n \in Ready(remaining)
      BY <1>14, <3>1
    <3> QED BY <1>7, <1>12, <3>2
  <2> QED BY <1>7, <2>1, <2>2
<1>17. ~Cyclic => Leveled'
  <2> SUFFICES ASSUME ~Cyclic, NEW f \in Flows, f.to \in Range(order'), NEW e \in Flows,
                      NEW n \in Selected, e.to = f.from, WaitsOnlyFor(n, e.from)
               PROVE  Before(n, f.to)'
    BY <1>4 DEF Leveled, FlowsInto
  <2>1. CASE f.to \in Range(order)
    BY <1>1, <1>10, <2>1 DEF Leveled, FlowsInto
  <2>2. CASE f.to \in Range(batch)
    <3>1. e.to \in Range(order)
      BY <1>12, <1>13, <2>2
    <3>2. n \in Range(order)
      BY <1>1, <3>1 DEF Eager, FlowsInto
    <3> QED BY <1>11, <2>2, <3>2
  <2> QED BY <1>7, <2>1, <2>2
<1> QED BY <1>1, <1>4, <1>5, <1>7, <1>8, <1>15, <1>16, <1>17 DEF OrderInv

(* Every step of the planner keeps the order.                              *)
LEMMA OrderNext ==
  ASSUME ScenarioAssumption, OrderInv, [PlannerNext]_plannerVars PROVE OrderInv'
<1> USE DEF OrderInv, Known
<1>1. CASE Refuse
  BY <1>1 DEF Refuse
<1>2. CASE Select
  BY <1>2 DEF Select
<1>3. CASE VisitNode
  BY <1>3 DEF VisitNode
<1>4. CASE EndWalk
  <2>1. order' = <<>> /\ Range(order') = {}
    BY <1>4 DEF EndWalk, Range
  <2>2. Unrepeated(order') /\ Ordered' /\ Eager' /\ Leveled'
    BY <2>1 DEF Unrepeated, Ordered, Eager, Leveled, FlowsInto
  <2> QED BY <1>4, <2>1, <2>2 DEF EndWalk
<1>5. CASE Build
  BY <1>5 DEF Build
<1>6. CASE RunPlan
  BY <1>6 DEF RunPlan
<1>7. CASE UNCHANGED plannerVars
  <2>1. UNCHANGED <<scenario, graph, stage, truths, order>>
    BY <1>7 DEF plannerVars
  <2>2. \A n : Truth(n)' = Truth(n)
    BY <2>1 DEF Truth, Found
  <2>3. Selected' = Selected
    BY <2>1, <2>2 DEF Selected, NodesOf
  <2>4. Cyclic' <=> Cyclic
    BY <2>1, <2>3 DEF Cyclic, NodesOf
  <2>5. Flows' = Flows
    BY <2>1, <2>3 DEF Flows
  <2>6. /\ \A n, m : WaitsOnlyFor(n, m)' <=> WaitsOnlyFor(n, m)
        /\ \A a, b : Before(a, b)' <=> Before(a, b)
    BY <2>1, <2>5 DEF WaitsOnlyFor, Before
  <2>7. (Ordered' <=> Ordered) /\ (Eager' <=> Eager) /\ (Leveled' <=> Leveled)
    BY <2>1, <2>3, <2>5, <2>6 DEF Ordered, Eager, Leveled, FlowsInto
  <2> QED BY <2>1, <2>3, <2>4, <2>7
<1> QED BY <1>1, <1>2, <1>3, <1>4, <1>5, <1>6, <1>7, EmitOrder DEF PlannerNext

(* The nodes are emitted once each, and without a cycle each after all it  *)
(* waits for and in whole levels (topological_nodes, whatever the graph).  *)
THEOREM OrderIsKept ==
  PlannerSpec => []OrderFollowsEdges
<1>1. PlannerInit => OrderInv
  BY DEF PlannerInit, OrderInv, Known
<1>2. OrderInv /\ [PlannerNext]_plannerVars => OrderInv'
  BY ScenarioAssumption, OrderNext
<1>3. OrderInv => OrderFollowsEdges
  <2> SUFFICES ASSUME OrderInv, stage = "order", Range(order) = Selected
               PROVE  /\ Len(order) = Cardinality(Selected)
                      /\ ~Cyclic => Ordered /\ Leveled
    BY DEF OrderFollowsEdges, Ordered, Leveled, FlowsInto, Flows
  <2>1. Len(order) = Cardinality(Selected)
    <3>1. order \in Seq(Int) /\ Unrepeated(order) /\ Len(order) \in Nat /\ DOMAIN order = 1 .. Len(order)
      BY DEF OrderInv
    <3>2. order \in Bijection(1 .. Len(order), Selected)
      BY <3>1 DEF Bijection, Injection, Surjection, IsInjective, Unrepeated, Range
    <3>3. IsFiniteSet(1 .. Len(order)) /\ Cardinality(1 .. Len(order)) = Len(order)
      BY <3>1, FS_Interval
    <3> DEFINE places == 1 .. Len(order)
    <3> HIDE DEF places
    <3>4. IsFiniteSet(places) /\ order \in Bijection(places, Selected)
      BY <3>2, <3>3 DEF places
    <3>5. Cardinality(Selected) = Cardinality(places)
      BY <3>4, FS_Bijection DEF ExistsBijection
    <3> QED BY <3>3, <3>5 DEF places
  <2>2. ~Cyclic => Ordered /\ Leveled
    BY DEF OrderInv
  <2> QED BY <2>1, <2>2
<1> QED BY <1>1, <1>2, <1>3, PTL DEF PlannerSpec
-----------------------------------------------------------------------------
Truths == 0 .. 2
Keys == Int \X BOOLEAN
Entries == Int \X BOOLEAN \X Truths

(* Truths are numbers, And their minimum and Or their maximum.             *)
LEMMA TruthArithmetic ==
  /\ \A guard : Evaluate(guard) \in Truths
  /\ \A a, b \in Truths : /\ And(a, b) \in Truths /\ Or(a, b) \in Truths
                          /\ \A k \in Truths : And(a, b) >= k <=> a >= k /\ b >= k
                          /\ \A k \in Truths : Or(a, b) >= k <=> a >= k \/ b >= k
<1>1. \A guard : Evaluate(guard) \in Truths
  BY DEF Evaluate, Truths, False, Unsure, True
<1> QED BY <1>1 DEF And, Or, Truths

-----------------------------------------------------------------------------
(* The nodes at which the walk starts.                                     *)
Gates(j) == {e.from : e \in {x \in graph.edges : /\ IsControl(x) /\ x.to = j
                                                 /\ x.label = "gate"
                                                 /\ graph.node[x.from].kind = "gate"}}
First(j) == IF Gates(j) = {} THEN {j} ELSE Gates(j)
Firsts(jobs) == UNION {First(j) : j \in jobs}

(* A listing with a permission and a truth to each.                        *)
LEMMA Tagged ==
  ASSUME NEW s \in Seq(Int), NEW local \in BOOLEAN, NEW truth \in Truths, NEW tagged,
         tagged = [i \in DOMAIN s |-> <<s[i], local, truth>>]
  PROVE  tagged \in Seq(Entries) /\ Range(tagged) = {<<x, local, truth>> : x \in Range(s)}
<1>1. Len(s) \in Nat /\ DOMAIN s = 1 .. Len(s) /\ \A i \in 1 .. Len(s) : s[i] \in Int
  OBVIOUS
<1>2. tagged \in [1 .. Len(s) -> Entries]
  BY <1>1 DEF Entries
<1>3. tagged \in Seq(Entries)
  BY <1>1, <1>2
<1>4. Range(tagged) = {<<x, local, truth>> : x \in Range(s)}
  BY <1>1 DEF Range
<1> QED BY <1>3, <1>4

(* A set of nodes in ascending order is a list of nodes.                   *)
LEMMA AscendingInts ==
  ASSUME NEW S \in SUBSET Int, IsFiniteSet(S)
  PROVE  Ascending(S) \in Seq(Int) /\ Range(Ascending(S)) = S /\ Len(Ascending(S)) = Cardinality(S)
<1>1. Ascending(S) \in Seq(S) /\ Range(Ascending(S)) = S
  BY AscendingLists
<1>2. Ascending(S) \in [1 .. Len(Ascending(S)) -> S] /\ Len(Ascending(S)) \in Nat
  BY <1>1
<1>3. Ascending(S) \in [1 .. Len(Ascending(S)) -> Int]
  BY <1>2
<1>4. Cardinality(S) \in Nat
  BY FS_CardinalityType
<1>5. DOMAIN Ascending(S) = 1 .. Cardinality(S)
  BY DEF Ascending
<1> QED BY <1>1, <1>2, <1>3, <1>4, <1>5

(* The walk's first entries are the gates before the jobs, or the jobs.    *)
LEMMA StartsAre ==
  ASSUME Plannable(graph), NEW jobs \in SUBSET NodesOf(graph)
  PROVE  /\ Starts(jobs) \in Seq(Entries)
         /\ Range(Starts(jobs)) = {<<x, FALSE, True>> : x \in Firsts(jobs)}
<1> DEFINE n == Cardinality(jobs)
           listed == Ascending(jobs)
           firsts == [i \in 1 .. n |-> Ascending(First(listed[i]))]
           starts == FlattenSeq(firsts)
<1>1. /\ NodesOf(graph) \in SUBSET Int /\ IsFiniteSet(NodesOf(graph))
      /\ \A e \in graph.edges : e.from \in NodesOf(graph)
  BY DEF Plannable
<1>2. jobs \in SUBSET Int /\ IsFiniteSet(jobs) /\ n \in Nat
  BY <1>1, FS_Subset, FS_CardinalityType
<1>3. listed \in Seq(Int) /\ Range(listed) = jobs /\ Len(listed) = n
  BY <1>2, AscendingInts
<1>4. ASSUME NEW j \in jobs
      PROVE  /\ First(j) \in SUBSET Int
             /\ Ascending(First(j)) \in Seq(Int) /\ Range(Ascending(First(j))) = First(j)
  <2>1. First(j) \in SUBSET NodesOf(graph)
    BY <1>1 DEF First, Gates
  <2>2. First(j) \in SUBSET Int /\ IsFiniteSet(First(j))
    BY <1>1, <2>1, FS_Subset
  <2> QED BY <2>2, AscendingInts
<1>5. Starts(jobs) = [i \in DOMAIN starts |-> <<starts[i], FALSE, True>>]
  BY DEF Starts, First, Gates
<1> HIDE DEF listed, n
<1>6. \A i \in 1 .. n : listed[i] \in jobs
  BY <1>3 DEF Range
<1>7. \A j \in jobs : \E i \in 1 .. n : listed[i] = j
  BY <1>3 DEF Range
<1>8. firsts \in [1 .. n -> Seq(Int)]
  BY <1>4, <1>6
<1>9. \A i \in 1 .. n : Range(firsts[i]) = First(listed[i])
  BY <1>4, <1>6
<1> HIDE DEF firsts
<1>10. /\ starts \in Seq(Int)
       /\ Range(starts) = UNION {Range(firsts[i]) : i \in 1 .. n}
  BY <1>2, <1>8, FlattenJoins
<1>11. UNION {Range(firsts[i]) : i \in 1 .. n} = Firsts(jobs)
  <2>1. \A x \in Firsts(jobs) : \E i \in 1 .. n : x \in Range(firsts[i])
    BY <1>7, <1>9 DEF Firsts
  <2>2. \A i \in 1 .. n : Range(firsts[i]) \subseteq Firsts(jobs)
    BY <1>6, <1>9 DEF Firsts
  <2> QED BY <2>1, <2>2
<1>12. True \in Truths
  BY DEF True, Truths
<1> HIDE DEF starts
<1> QED BY <1>5, <1>10, <1>11, <1>12, Tagged

-----------------------------------------------------------------------------
(* What a visit pushes: what its edges lead to, where they may enter.      *)
Goes(n, local, e) ==
    /\ e.kind \in FlowKinds /\ e.from = n /\ Enters(e.to, local \/ e.label = "local-unit")
IsLocal(e) == e.label = "local-unit"

IsPushed(pushed, n, local, truth) ==
  /\ pushed \in Seq(Entries)
  /\ Range(pushed) = {<<e.to, local \/ IsLocal(e), truth>> : e \in {x \in graph.edges : Goes(n, local, x)}}

(* A visit pushes an entry for every edge it may follow, and no other.     *)
LEMMA PushedAre ==
  ASSUME Plannable(graph), NEW n, NEW local \in BOOLEAN, NEW truth \in Truths
  PROVE  IsPushed(Pushed(n, local, truth), n, local, truth)
<1> DEFINE let(label) == local \/ label
           into(kind, label) == {t \in Targets(n, kind, label) : Enters(t, let(label))}
           along(kind, label) ==
              [i \in DOMAIN Ascending(into(kind, label)) |->
                  <<Ascending(into(kind, label))[i], let(label), truth>>]
           a == along("control", FALSE)
           b == along("control", TRUE)
           c == along("call", FALSE)
           d == along("call", TRUE)
           pushed == {<<e.to, local \/ IsLocal(e), truth>> : e \in {x \in graph.edges : Goes(n, local, x)}}
<1>1. Pushed(n, local, truth) = a \o b \o c \o d
  BY DEF Pushed
<1>2. ASSUME NEW kind, NEW label \in BOOLEAN
      PROVE  /\ along(kind, label) \in Seq(Entries)
             /\ Range(along(kind, label)) = {<<x, let(label), truth>> : x \in into(kind, label)}
  <2>1. into(kind, label) \in SUBSET NodesOf(graph)
    BY DEF Targets, Plannable
  <2> HIDE DEF into
  <2>2. into(kind, label) \in SUBSET Int /\ IsFiniteSet(into(kind, label))
    BY <2>1, FS_Subset DEF Plannable
  <2>3. Ascending(into(kind, label)) \in Seq(Int)
        /\ Range(Ascending(into(kind, label))) = into(kind, label)
    BY <2>2, AscendingInts
  <2>4. let(label) \in BOOLEAN
    OBVIOUS
  <2> HIDE DEF let
  <2> QED BY <2>3, <2>4, Tagged
<1> HIDE DEF along
<1>3. a \in Seq(Entries) /\ b \in Seq(Entries) /\ c \in Seq(Entries) /\ d \in Seq(Entries)
  BY <1>2
<1>4. /\ Range(a) = {<<x, let(FALSE), truth>> : x \in into("control", FALSE)}
      /\ Range(b) = {<<x, let(TRUE), truth>> : x \in into("control", TRUE)}
      /\ Range(c) = {<<x, let(FALSE), truth>> : x \in into("call", FALSE)}
      /\ Range(d) = {<<x, let(TRUE), truth>> : x \in into("call", TRUE)}
  BY <1>2
<1> HIDE DEF a, b, c, d
<1>5. a \o b \in Seq(Entries) /\ a \o b \o c \in Seq(Entries) /\ a \o b \o c \o d \in Seq(Entries)
  BY <1>3
<1>6. Range(a \o b \o c \o d) = Range(a) \cup Range(b) \cup Range(c) \cup Range(d)
  <2>1. Range(a \o b) = Range(a) \cup Range(b)
    BY <1>3, RangeOfConcatenation
  <2>2. Range(a \o b \o c) = Range(a \o b) \cup Range(c)
    BY <1>3, <1>5, RangeOfConcatenation
  <2>3. Range(a \o b \o c \o d) = Range(a \o b \o c) \cup Range(d)
    BY <1>3, <1>5, RangeOfConcatenation
  <2> QED BY <2>1, <2>2, <2>3
<1>7. ASSUME NEW kind \in FlowKinds, NEW label \in BOOLEAN, NEW x \in into(kind, label)
      PROVE  <<x, let(label), truth>> \in pushed
  <2>1. PICK e \in graph.edges : /\ e.to = x /\ e.from = n /\ e.kind = kind
                                 /\ (e.label = "local-unit") = label
    BY DEF Targets
  <2>2. let(label) = (local \/ IsLocal(e)) /\ Enters(e.to, local \/ e.label = "local-unit")
    BY <2>1 DEF IsLocal
  <2>3. Goes(n, local, e)
    BY <2>1, <2>2 DEF Goes
  <2> HIDE DEF into, let
  <2> QED BY <2>1, <2>2, <2>3
<1>8. ASSUME NEW e \in graph.edges, Goes(n, local, e)
      PROVE  \E kind \in FlowKinds, label \in BOOLEAN :
                /\ e.to \in into(kind, label)
                /\ <<e.to, local \/ IsLocal(e), truth>> = <<e.to, let(label), truth>>
  <2> DEFINE label == e.label = "local-unit"
  <2>1. e.kind \in FlowKinds /\ label \in BOOLEAN /\ e.to \in into(e.kind, label)
    BY <1>8 DEF Goes, Targets
  <2>2. (local \/ IsLocal(e)) = let(label)
    BY DEF IsLocal
  <2> HIDE DEF label, into, let
  <2> QED BY <2>1, <2>2
<1>9. Range(a) \cup Range(b) \cup Range(c) \cup Range(d) = pushed
  <2>2. \A r \in Range(a) \cup Range(b) \cup Range(c) \cup Range(d) : r \in pushed
    BY <1>4, <1>7 DEF FlowKinds
  <2>3. ASSUME NEW r \in pushed PROVE r \in Range(a) \cup Range(b) \cup Range(c) \cup Range(d)
    <3>1. PICK e \in graph.edges : Goes(n, local, e) /\ r = <<e.to, local \/ IsLocal(e), truth>>
      OBVIOUS
    <3>2. PICK kind \in FlowKinds, label \in BOOLEAN :
             e.to \in into(kind, label) /\ r = <<e.to, let(label), truth>>
      BY <1>8, <3>1
    <3> HIDE DEF into, let, pushed
    <3> QED BY <1>4, <3>2 DEF FlowKinds
  <2> HIDE DEF into, let, pushed
  <2> QED BY <2>2, <2>3
<1> QED BY <1>1, <1>5, <1>6, <1>9 DEF IsPushed
-----------------------------------------------------------------------------
(* What a walk may reach at least as true as k, and what the walk has of   *)
(* it: what it has found, and what its queue holds.                        *)
Levels == {Unsure, True}
Allowed(n, k) == Evaluate(graph.node[n].guard) >= k
Begun(k) == {<<x, FALSE>> : x \in {y \in Firsts(closure) : Allowed(y, k)}}
GoesOn(p, C, k) ==
    \A e \in graph.edges : Goes(p[1], p[2], e) /\ Allowed(e.to, k) => Onto(p, e) \in C
ClosedAt(k, C) == Begun(k) \subseteq C /\ \A p \in C : GoesOn(p, C, k)
FoundAt(k) == {key \in DOMAIN truths : truths[key] >= k}
WaitingIn(entries, k) ==
    {<<q[1], q[2]>> : q \in {r \in entries : r[3] >= k /\ Allowed(r[1], k)}}
SeenAt(k) == FoundAt(k) \cup WaitingIn(Range(queue), k)

Sound == \A k \in Levels : \A C \in SUBSET Keys : ClosedAt(k, C) => SeenAt(k) \subseteq C
Thorough == \A k \in Levels : /\ Begun(k) \subseteq SeenAt(k)
                              /\ \A p \in FoundAt(k) : GoesOn(p, SeenAt(k), k)
WalkHalfway ==
    /\ closure \in SUBSET NodesOf(graph)
    /\ queue \in Seq(Entries)
    /\ DOMAIN truths \in SUBSET Keys /\ \A key \in DOMAIN truths : truths[key] \in Truths
    /\ Sound /\ Thorough
WalkInv ==
    /\ Known
    /\ stage = "select" => queue = <<>> /\ truths = <<>>
    /\ stage \in {"walk", "order"} => WalkHalfway
    /\ stage = "order" => queue = <<>>

(* The levels are the truths above the least.                              *)
LEMMA LevelsAreTruths == Levels \subseteq Truths /\ \A k \in Levels : k > 0 /\ k <= 2
BY DEF Levels, Truths, Unsure, True

(* At its start the walk has the first entries to visit and nothing else.  *)
LEMMA SelectWalk ==
  ASSUME ScenarioAssumption, WalkInv, Select PROVE WalkInv'
<1>1. /\ stage = "select" /\ stage' = "walk" /\ truths = <<>> /\ truths' = <<>>
      /\ graph' = graph /\ scenario' = scenario /\ queue' = Starts(closure')
      /\ closure' = JobClosure(OfJob(scenario.job)) /\ Known /\ Known'
  BY DEF Select, WalkInv, Known
<1>2. Plannable(graph)
  BY <1>1 DEF Known, ScenarioAssumption
<1>3. closure' \in SUBSET NodesOf(graph)
  <2>1. OfJob(scenario.job) \subseteq NodesOf(graph)
    BY DEF OfJob
  <2>2. OfJob(scenario.job) \in SUBSET Int
    BY <1>2, <2>1 DEF Plannable
  <2> QED BY <1>1, <1>2, <2>1, <2>2, JobsClosed
<1>4. NodesOf(graph)' = NodesOf(graph)
  BY <1>1 DEF NodesOf
<1>5. queue' \in Seq(Entries) /\ Range(queue') = {<<x, FALSE, True>> : x \in Firsts(closure')}
  BY <1>1, <1>2, <1>3, StartsAre
<1>6. Firsts(closure)' = Firsts(closure')
  BY <1>1 DEF Firsts, First, Gates, IsControl
<1>7. \A k : FoundAt(k)' = {}
  BY <1>1 DEF FoundAt
<1>8. ASSUME NEW k \in Levels PROVE SeenAt(k)' = Begun(k)'
  <2>1. True >= k
    BY DEF Levels, True, Unsure
  <2>2. SeenAt(k)' = WaitingIn(Range(queue), k)'
    BY <1>7 DEF SeenAt
  <2>3. \A p : p \in WaitingIn(Range(queue), k)' <=>
                 \E q \in Range(queue') : p = <<q[1], q[2]>> /\ q[3] >= k /\ Allowed(q[1], k)'
    BY DEF WaitingIn
  <2>4. \A p : p \in WaitingIn(Range(queue), k)' <=>
                 \E x \in Firsts(closure') : p = <<x, FALSE>> /\ Allowed(x, k)'
    <3> DEFINE first == Firsts(closure')
               held == Range(queue')
               shut == FALSE
    <3>1. \A q : q \in held <=> \E x \in first : q = <<x, shut, True>>
      BY <1>5, Zenon
    <3>2. \A x : <<x, shut>> = <<x, FALSE>>
      OBVIOUS
    <3> HIDE DEF first, held, shut
    <3>3. \A q \in held : \E x \in first : q[1] = x /\ q[2] = shut /\ q[3] = True
      BY <3>1
    <3>4. ASSUME NEW x \in first PROVE \E q \in held : q[1] = x /\ q[2] = shut /\ q[3] = True
      <4>1. <<x, shut, True>> \in held
        BY <3>1
      <4> QED BY <4>1
    <3>5. ASSUME NEW x \in first, Allowed(x, k)' PROVE <<x, shut>> \in WaitingIn(Range(queue), k)'
      BY <2>1, <2>3, <3>4, <3>5 DEF held
    <3>6. ASSUME NEW p, p \in WaitingIn(Range(queue), k)'
          PROVE  \E x \in first : p = <<x, shut>> /\ Allowed(x, k)'
      BY <2>3, <3>3, <3>6 DEF held
    <3> QED BY <3>2, <3>5, <3>6, Zenon DEF first
  <2>5. \A p : p \in Begun(k)' <=> \E x \in Firsts(closure') : p = <<x, FALSE>> /\ Allowed(x, k)'
    BY <1>6 DEF Begun
  <2> QED BY <2>2, <2>4, <2>5
<1>9. Sound' /\ Thorough'
  BY <1>7, <1>8 DEF Sound, Thorough, ClosedAt
<1>10. DOMAIN truths' = {}
  BY <1>1
<1>11. WalkHalfway'
  BY <1>3, <1>4, <1>5, <1>9, <1>10 DEF WalkHalfway
<1> QED BY <1>1, <1>11 DEF WalkInv

(* What does not change the walk does not change what is known of it.      *)
LEMMA SameRules ==
  ASSUME UNCHANGED <<scenario, graph, closure>>
  PROVE  /\ NodesOf(graph)' = NodesOf(graph)
         /\ \A n, k : Allowed(n, k)' = Allowed(n, k)
         /\ \A k : Begun(k)' = Begun(k)
         /\ \A p, C, k : GoesOn(p, C, k)' = GoesOn(p, C, k)
         /\ \A k, C : ClosedAt(k, C)' = ClosedAt(k, C)
         /\ \A entries, k : WaitingIn(entries, k)' = WaitingIn(entries, k)
<1>1. NodesOf(graph)' = NodesOf(graph)
  BY DEF NodesOf
<1>2. Possible' = Possible
  BY DEF Possible
<1>3. \A guard : Evaluate(guard)' = Evaluate(guard)
  BY <1>2 DEF Evaluate
<1>4. \A n, k : Allowed(n, k)' = Allowed(n, k)
  BY <1>3 DEF Allowed
<1>5. Firsts(closure)' = Firsts(closure)
  BY DEF Firsts, First, Gates, IsControl
<1>6. \A k : Begun(k)' = Begun(k)
  BY <1>4, <1>5 DEF Begun
<1>7. \A n, local, e : Goes(n, local, e)' = Goes(n, local, e)
  BY DEF Goes, Enters
<1>8. \A p, C, k : GoesOn(p, C, k)' = GoesOn(p, C, k)
  BY <1>4, <1>7 DEF GoesOn, Onto
<1>9. \A k, C : ClosedAt(k, C)' = ClosedAt(k, C)
  BY <1>6, <1>8 DEF ClosedAt
<1>10. \A entries, k : WaitingIn(entries, k)' = WaitingIn(entries, k)
  BY <1>4 DEF WaitingIn
<1> QED BY <1>1, <1>4, <1>6, <1>8, <1>9, <1>10

(* What does not change the walk does not change how far it has come.      *)
LEMMA SameWalk ==
  ASSUME WalkHalfway, UNCHANGED <<scenario, graph, closure, queue, truths>> PROVE WalkHalfway'
<1>1. \A k : FoundAt(k)' = FoundAt(k)
  BY DEF FoundAt
<1>2. Range(queue)' = Range(queue)
  BY DEF Range
<1>3. \A k : SeenAt(k)' = SeenAt(k)
  BY <1>1, <1>2, SameRules DEF SeenAt
<1>4. Sound' /\ Thorough'
  BY <1>1, <1>3, SameRules DEF WalkHalfway, Sound, Thorough
<1> QED BY <1>4, SameRules DEF WalkHalfway

(* A visit adds to what is found what its entry says, and to the queue     *)
(* what follows from it: nothing that is not reachable, and all that       *)
(* follows.                                                                *)
LEMMA VisitWalk ==
  ASSUME ScenarioAssumption, WalkInv, VisitNode PROVE WalkInv'
<1> DEFINE n == Head(queue)[1]
           local == Head(queue)[2]
           asked == Head(queue)[3]
           rest == Tail(queue)
           key == <<n, local>>
           met == And(asked, Evaluate(graph.node[n].guard))
           truth == Merged(key, met)
           known == key \in DOMAIN truths /\ truths[key] = truth
           new == IF known \/ truth = False THEN <<>> ELSE Pushed(n, local, truth)
<1>1. /\ stage = "walk" /\ queue # <<>> /\ WalkHalfway /\ Known
      /\ UNCHANGED <<scenario, graph, stage, closure>>
  BY DEF VisitNode, WalkInv
<1>2. Plannable(graph) /\ Known'
  BY <1>1 DEF Known, ScenarioAssumption
<1>3. /\ queue \in Seq(Entries) /\ DOMAIN truths \in SUBSET Keys
      /\ \A k \in DOMAIN truths : truths[k] \in Truths
  BY <1>1 DEF WalkHalfway
<1>4. Head(queue) \in Entries /\ rest \in Seq(Entries) /\ Range(queue) = {Head(queue)} \cup Range(rest)
  BY <1>1, <1>3, RangeOfQueue
<1>5. n \in Int /\ local \in BOOLEAN /\ asked \in Truths /\ Head(queue) = <<n, local, asked>> /\ key \in Keys
  BY <1>4 DEF Entries, Keys
<1>6. met \in Truths /\ \A k \in Truths : met >= k <=> asked >= k /\ Allowed(n, k)
  BY <1>5, TruthArithmetic DEF Allowed
<1> HIDE DEF met
<1>7. /\ truth \in Truths
      /\ \A k \in Truths : truth >= k <=> met >= k \/ (key \in DOMAIN truths /\ truths[key] >= k)
  BY <1>3, <1>6, TruthArithmetic DEF Merged
<1>8. /\ DOMAIN truths' = DOMAIN truths \cup {key}
      /\ truths'[key] = truth
      /\ \A other \in DOMAIN truths : other # key => truths'[other] = truths[other]
      /\ queue' = IF known \/ truth = False THEN rest ELSE rest \o Pushed(n, local, truth)
  BY DEF VisitNode, met
<1> HIDE DEF n, local, asked, rest, key, truth
<1>9. IsPushed(Pushed(n, local, truth), n, local, truth)
  BY <1>2, <1>5, <1>7, PushedAre
<1>10. /\ queue' \in Seq(Entries)
       /\ Range(queue') = Range(rest) \cup (IF known \/ truth = False THEN {}
                                            ELSE Range(Pushed(n, local, truth)))
  BY <1>4, <1>8, <1>9, RangeOfConcatenation DEF IsPushed
<1>11. /\ DOMAIN truths' \in SUBSET Keys
       /\ \A k \in DOMAIN truths' : truths'[k] \in Truths
  BY <1>3, <1>5, <1>7, <1>8
<1>12. closure' \in SUBSET NodesOf(graph)'
  BY <1>1, SameRules DEF WalkHalfway
<1>13. ASSUME NEW k \in Levels
       PROVE  /\ FoundAt(k) \subseteq FoundAt(k)' /\ FoundAt(k)' \subseteq FoundAt(k) \cup {key}
              /\ key \in FoundAt(k)' <=> truth >= k
              /\ FoundAt(k)' \subseteq SeenAt(k) /\ SeenAt(k) \subseteq SeenAt(k)'
  <2>1. k \in Truths /\ k > 0
    BY LevelsAreTruths
  <2>2. /\ FoundAt(k) \subseteq FoundAt(k)' /\ FoundAt(k)' \subseteq FoundAt(k) \cup {key}
        /\ key \in FoundAt(k)' <=> truth >= k
    BY <1>3, <1>7, <1>8, <2>1 DEF FoundAt
  <2>3. WaitingIn(Range(queue), k) =
          WaitingIn(Range(rest), k) \cup (IF met >= k THEN {key} ELSE {})
    <3>1. Head(queue)[1] = n /\ Head(queue)[2] = local /\ Head(queue)[3] = asked
      BY DEF n, local, asked
    <3> QED BY <1>4, <1>6, <2>1, <3>1 DEF WaitingIn, key
  <2>4. FoundAt(k)' \subseteq SeenAt(k)
    BY <1>7, <2>1, <2>2, <2>3 DEF SeenAt, FoundAt
  <2>5. WaitingIn(Range(rest), k) \subseteq WaitingIn(Range(queue), k)'
    <3>1. WaitingIn(Range(rest), k) \subseteq WaitingIn(Range(queue'), k)
      BY <1>10 DEF WaitingIn
    <3>2. WaitingIn(Range(queue), k)' = WaitingIn(Range(queue'), k)
      BY <1>1, SameRules DEF WaitingIn
    <3> QED BY <3>1, <3>2
  <2>6. SeenAt(k) \subseteq SeenAt(k)'
    BY <1>7, <2>1, <2>2, <2>3, <2>5 DEF SeenAt
  <2> QED BY <2>2, <2>4, <2>6
<1>14. ASSUME NEW k \in Levels
       PROVE  WaitingIn(Range(queue), k)' =
                WaitingIn(Range(rest), k) \cup (IF known \/ truth = False THEN {}
                                                ELSE WaitingIn(Range(Pushed(n, local, truth)), k))
  <2>1. WaitingIn(Range(queue), k)' = WaitingIn(Range(queue'), k)
    BY <1>1, SameRules DEF WaitingIn
  <2>2. \A A, B : WaitingIn(A \cup B, k) = WaitingIn(A, k) \cup WaitingIn(B, k)
    BY DEF WaitingIn
  <2>3. WaitingIn({}, k) = {}
    BY DEF WaitingIn
  <2> QED BY <1>10, <2>1, <2>2, <2>3
<1>15. ASSUME NEW k \in Levels
       PROVE  /\ \A p \in WaitingIn(Range(Pushed(n, local, truth)), k) :
                    /\ truth >= k
                    /\ \E e \in graph.edges : Goes(n, local, e) /\ Allowed(e.to, k) /\ p = Onto(key, e)
              /\ truth >= k => \A e \in graph.edges : Goes(n, local, e) /\ Allowed(e.to, k)
                                  => Onto(key, e) \in WaitingIn(Range(Pushed(n, local, truth)), k)
  <2>1. \A e : Onto(key, e) = <<e.to, local \/ IsLocal(e)>>
    BY DEF Onto, key, IsLocal
  <2>2. \A q : q \in Range(Pushed(n, local, truth)) <=>
           \E e \in graph.edges : Goes(n, local, e) /\ q = <<e.to, local \/ IsLocal(e), truth>>
    BY <1>9 DEF IsPushed
  <2>3. ASSUME NEW p \in WaitingIn(Range(Pushed(n, local, truth)), k)
        PROVE  truth >= k /\ \E e \in graph.edges : Goes(n, local, e) /\ Allowed(e.to, k) /\ p = Onto(key, e)
    <3>1. PICK q \in Range(Pushed(n, local, truth)) :
             p = <<q[1], q[2]>> /\ q[3] >= k /\ Allowed(q[1], k)
      BY DEF WaitingIn
    <3>2. PICK e \in graph.edges : Goes(n, local, e) /\ q = <<e.to, local \/ IsLocal(e), truth>>
      BY <2>2
    <3> QED BY <2>1, <3>1, <3>2
  <2>4. ASSUME truth >= k, NEW e \in graph.edges, Goes(n, local, e), Allowed(e.to, k)
        PROVE  Onto(key, e) \in WaitingIn(Range(Pushed(n, local, truth)), k)
    <3> DEFINE q == <<e.to, local \/ IsLocal(e), truth>>
    <3>1. q \in Range(Pushed(n, local, truth))
      BY <2>2, <2>4
    <3>2. q[1] = e.to /\ <<q[1], q[2]>> = Onto(key, e) /\ q[3] = truth
      BY <2>1
    <3> HIDE DEF q
    <3> QED BY <2>4, <3>1, <3>2 DEF WaitingIn
  <2> QED BY <2>3, <2>4
<1>16. Sound'
  <2> SUFFICES ASSUME NEW k \in Levels, NEW C \in SUBSET Keys, ClosedAt(k, C)
               PROVE  SeenAt(k)' \subseteq C
    BY <1>1, SameRules DEF Sound
  <2>1. SeenAt(k) \subseteq C
    BY <1>1 DEF WalkHalfway, Sound
  <2>2. WaitingIn(Range(rest), k) \subseteq C
    BY <1>4, <2>1 DEF WaitingIn, SeenAt
  <2>3. ASSUME truth >= k PROVE WaitingIn(Range(Pushed(n, local, truth)), k) \subseteq C
    <3>1. key \in C
      BY <1>13, <2>1, <2>3
    <3>2. \A e \in graph.edges : Goes(n, local, e) /\ Allowed(e.to, k) => Onto(key, e) \in C
      BY <3>1 DEF ClosedAt, GoesOn, key
    <3> QED BY <1>15, <3>2
  <2>4. WaitingIn(Range(Pushed(n, local, truth)), k) \subseteq C
    BY <1>15, <2>3
  <2> QED BY <1>13, <1>14, <2>1, <2>2, <2>4 DEF SeenAt
<1>17. Thorough'
  <2> SUFFICES ASSUME NEW k \in Levels
               PROVE  /\ Begun(k) \subseteq SeenAt(k)'
                      /\ \A p \in FoundAt(k)' : GoesOn(p, SeenAt(k)', k)
    BY <1>1, SameRules DEF Thorough
  <2>1. Begun(k) \subseteq SeenAt(k)'
    BY <1>1, <1>13 DEF WalkHalfway, Thorough
  <2>2. ASSUME NEW p \in FoundAt(k) PROVE GoesOn(p, SeenAt(k)', k)
    BY <1>1, <1>13 DEF WalkHalfway, Thorough, GoesOn
  <2>3. ASSUME key \in FoundAt(k)', key \notin FoundAt(k) PROVE GoesOn(key, SeenAt(k)', k)
    <3>1. truth >= k /\ ~known /\ truth # False
      BY <1>7, <1>13, <2>3, LevelsAreTruths DEF FoundAt, False, Truths
    <3>2. \A e \in graph.edges : Goes(n, local, e) /\ Allowed(e.to, k) => Onto(key, e) \in SeenAt(k)'
      BY <1>14, <1>15, <3>1 DEF SeenAt
    <3> QED BY <3>2 DEF GoesOn, key
  <2> QED BY <1>13, <2>1, <2>2, <2>3
<1>18. WalkHalfway'
  BY <1>10, <1>11, <1>12, <1>16, <1>17 DEF WalkHalfway
<1> QED BY <1>1, <1>2, <1>18 DEF WalkInv

-----------------------------------------------------------------------------
(* What the search finds that has no work list.                            *)
LeastReach(k, found) ==
    /\ found \in SUBSET Keys /\ ClosedAt(k, found)
    /\ \A C \in SUBSET Keys : ClosedAt(k, C) => found \subseteq C

(* The search without a work list finds the least set that has the starts  *)
(* and is closed under the edges.                                          *)
LEMMA ReachedIsLeast ==
  ASSUME Plannable(graph), closure \in SUBSET NodesOf(graph), NEW k \in Levels
  PROVE  LeastReach(k, Reached(k))
<1> DEFINE next(seen) == {Onto(p[1], p[2]) : p \in
                           {p \in seen \X graph.edges : p[2].kind \in FlowKinds /\ p[2].from = p[1][1]}}
           open(seen) == {s \in next(seen) : Enters(s[1], s[2]) /\ Evaluate(graph.node[s[1]].guard) >= k}
           add == [seen \in SUBSET Keys |-> open(seen)]
           Step(f) == [seen \in SUBSET Keys |->
                          IF open(seen) \subseteq seen THEN seen ELSE f[seen \cup open(seen)]]
           Turn(f) == [seen \in SUBSET Keys |->
                          IF add[seen] \subseteq seen THEN seen ELSE f[seen \cup add[seen]]]
           walked == CHOOSE f : f = Step(f)
           F == NodesOf(graph) \X BOOLEAN
           begun == {<<start[1], FALSE>> : start \in
                       {s \in Range(Starts(closure)) : Evaluate(graph.node[s[1]].guard) >= k}}
<1>1. F \in SUBSET Keys /\ IsFiniteSet(F)
  <2>1. IsFiniteSet(NodesOf(graph)) /\ NodesOf(graph) \subseteq Int
    BY DEF Plannable
  <2>2. IsFiniteSet(BOOLEAN)
    <3>1. IsFiniteSet({} \cup {TRUE})
      BY FS_EmptySet, FS_AddElement
    <3>2. IsFiniteSet(({} \cup {TRUE}) \cup {FALSE})
      BY <3>1, FS_AddElement
    <3>3. BOOLEAN = ({} \cup {TRUE}) \cup {FALSE}
      BY Zenon
    <3> QED BY <3>2, <3>3
  <2> QED BY <2>1, <2>2, FS_Product DEF Keys
<1>2. ASSUME NEW seen \in SUBSET Keys
      PROVE  /\ open(seen) \in SUBSET F
             /\ \A x : x \in open(seen) <=>
                  \E p \in seen, e \in graph.edges :
                     x = Onto(p, e) /\ Goes(p[1], p[2], e) /\ Allowed(e.to, k)
  <2>1. \A p \in Keys, e \in graph.edges :
           /\ Onto(p, e)[1] = e.to /\ Onto(p, e)[2] = (p[2] \/ e.label = "local-unit")
           /\ Onto(p, e) \in F
    BY DEF Onto, Keys, Plannable
  <2>2. \A x : x \in next(seen) <=>
           \E p \in seen, e \in graph.edges : x = Onto(p, e) /\ e.kind \in FlowKinds /\ e.from = p[1]
    <3>1. ASSUME NEW x \in next(seen)
          PROVE  \E p \in seen, e \in graph.edges : x = Onto(p, e) /\ e.kind \in FlowKinds /\ e.from = p[1]
      <4>1. PICK p \in seen \X graph.edges :
               x = Onto(p[1], p[2]) /\ p[2].kind \in FlowKinds /\ p[2].from = p[1][1]
        OBVIOUS
      <4>2. p[1] \in seen /\ p[2] \in graph.edges
        OBVIOUS
      <4> QED BY <4>1, <4>2
    <3>2. ASSUME NEW p \in seen, NEW e \in graph.edges, e.kind \in FlowKinds, e.from = p[1]
          PROVE  Onto(p, e) \in next(seen)
      <4>1. <<p, e>> \in seen \X graph.edges /\ <<p, e>>[1] = p /\ <<p, e>>[2] = e
        OBVIOUS
      <4> QED BY <3>2, <4>1
    <3> QED BY <3>1, <3>2
  <2>3. \A p \in seen : p \in Keys
    OBVIOUS
  <2> HIDE DEF next
  <2>4. \A p \in seen, e \in graph.edges :
           Goes(p[1], p[2], e) /\ Allowed(e.to, k) <=>
             /\ e.kind \in FlowKinds /\ e.from = p[1]
             /\ Enters(Onto(p, e)[1], Onto(p, e)[2]) /\ Evaluate(graph.node[Onto(p, e)[1]].guard) >= k
    BY <2>1, <2>3 DEF Goes, Allowed
  <2>5. \A x : x \in open(seen) <=>
           /\ x \in next(seen) /\ Enters(x[1], x[2]) /\ Evaluate(graph.node[x[1]].guard) >= k
    OBVIOUS
  <2> HIDE DEF open, F
  <2>6. \A x : x \in open(seen) <=>
           \E p \in seen, e \in graph.edges :
              x = Onto(p, e) /\ Goes(p[1], p[2], e) /\ Allowed(e.to, k)
    BY <2>2, <2>4, <2>5
  <2>7. \A x \in open(seen) : x \in F
    BY <2>1, <2>3, <2>6
  <2> QED BY <2>6, <2>7
<1>3. \A seen \in SUBSET Keys : add[seen] = open(seen)
  OBVIOUS
<1>4. Reached(k) = walked[begun]
  BY DEF Reached, WalkedAt, Keys
<1> HIDE DEF open, F, begun, add
<1>5. add \in [SUBSET Keys -> SUBSET F]
  BY <1>2, <1>3 DEF add
<1>6. \A A, B \in SUBSET Keys : A \subseteq B => add[A] \subseteq add[B]
  <2> SUFFICES ASSUME NEW A \in SUBSET Keys, NEW B \in SUBSET Keys, A \subseteq B
               PROVE  open(A) \subseteq open(B)
    BY <1>3
  <2> QED BY <1>2
<1>7. IsClosure(Keys, add, walked)
  <2>1. \A f : Step(f) = Turn(f)
    BY <1>3
  <2> HIDE DEF Step, Turn
  <2>2. walked = CHOOSE f : f = Turn(f)
    BY <2>1
  <2> HIDE DEF walked
  <2> QED BY <2>2 DEF IsClosure, Turn
<1> HIDE DEF walked
<1>8. begun = Begun(k)
  <2>1. Range(Starts(closure)) = {<<x, FALSE, True>> : x \in Firsts(closure)}
    BY StartsAre
  <2> DEFINE first == Firsts(closure)
             held == Range(Starts(closure))
             shut == FALSE
  <2>2. \A q : q \in held <=> \E x \in first : q = <<x, shut, True>>
    BY <2>1, Zenon
  <2>3. /\ begun = {<<s[1], shut>> : s \in {s \in held : Allowed(s[1], k)}}
        /\ Begun(k) = {<<x, shut>> : x \in {y \in first : Allowed(y, k)}}
    BY DEF begun, Begun, Allowed
  <2> HIDE DEF first, held, shut
  <2>4. \A x : x \in first <=> \E q \in held : q[1] = x
    <3>1. ASSUME NEW x \in first PROVE \E q \in held : q[1] = x
      <4>1. <<x, shut, True>> \in held
        BY <2>2
      <4> QED BY <4>1
    <3>2. \A q \in held : q[1] \in first
      BY <2>2
    <3> QED BY <3>1, <3>2
  <2> QED BY <2>3, <2>4
<1>9. Begun(k) \in SUBSET Keys
  <2>1. Firsts(closure) \subseteq Int
    BY DEF Firsts, First, Gates, Plannable
  <2> DEFINE shut == FALSE
  <2>2. Begun(k) = {<<x, shut>> : x \in {y \in Firsts(closure) : Allowed(y, k)}} /\ shut \in BOOLEAN
    BY DEF Begun
  <2> HIDE DEF shut
  <2> QED BY <2>1, <2>2 DEF Keys
<1>10. LeastClosed(Keys, add, Begun(k), walked[Begun(k)])
  BY <1>1, <1>5, <1>6, <1>7, <1>9, ClosureIsLeast
<1>11. ASSUME NEW C \in SUBSET Keys
       PROVE  add[C] \subseteq C <=> \A p \in C : GoesOn(p, C, k)
  BY <1>2, <1>3 DEF GoesOn
<1> QED BY <1>4, <1>8, <1>10, <1>11 DEF LeastReach, LeastClosed, ClosedAt

(* Of truths, the greatest is at least k when one of them is.              *)
LEMMA TruthIsFound ==
  ASSUME DOMAIN truths \in SUBSET Keys, \A key \in DOMAIN truths : truths[key] \in Truths,
         NEW n, NEW k \in Levels
  PROVE  Truth(n) >= k <=> \E key \in FoundAt(k) : key[1] = n
<1> DEFINE found == Found(n) \cup {False}
<1>1. found \in SUBSET Truths /\ False \in found
  BY DEF Found, Truths, False
<1>2. \E x \in found : \A y \in found : x >= y
  <2> HIDE DEF found
  <2>1. CASE 2 \in found
    BY <1>1, <2>1 DEF Truths
  <2>2. CASE 2 \notin found /\ 1 \in found
    BY <1>1, <2>2 DEF Truths
  <2>3. CASE 2 \notin found /\ 1 \notin found
    BY <1>1, <2>3 DEF Truths
  <2> QED BY <2>1, <2>2, <2>3
<1>3. Truth(n) \in found /\ \A y \in found : Truth(n) >= y
  <2> HIDE DEF found
  <2>1. Max(found) \in found /\ \A y \in found : Max(found) >= y
    BY <1>2 DEF Max
  <2>2. Truth(n) = Max(found)
    BY DEF Truth, found
  <2> QED BY <2>1, <2>2
<1>4. \A x : x \in found <=> x = False \/ \E key \in DOMAIN truths : key[1] = n /\ truths[key] = x
  BY DEF Found
<1> HIDE DEF found
<1>5. k > 0 /\ k \in Truths
  BY LevelsAreTruths
<1>6. ASSUME Truth(n) >= k PROVE \E key \in FoundAt(k) : key[1] = n
  BY <1>3, <1>4, <1>5, <1>6 DEF FoundAt, False, Truths
<1>7. ASSUME NEW key \in FoundAt(k), key[1] = n PROVE Truth(n) >= k
  <2>1. truths[key] \in found /\ truths[key] >= k
    BY <1>4, <1>7 DEF FoundAt
  <2>2. Truth(n) >= truths[key]
    BY <1>3, <2>1
  <2>3. /\ Truth(n) \in Truths /\ truths[key] \in Truths /\ k \in Truths
        /\ Truths \subseteq Int
    <3>1. Truths \subseteq Int
      BY DEF Truths
    <3> QED BY <1>1, <1>3, <1>5, <2>1, <3>1
  <2>4. \A a, b, c \in Int : a >= b /\ b >= c => a >= c
    OBVIOUS
  <2>5. Truth(n) \in Int /\ truths[key] \in Int /\ k \in Int
    BY <2>3
  <2> QED BY <2>1, <2>2, <2>4, <2>5
<1> QED BY <1>6, <1>7

(* Every step of the planner keeps what is known of the walk.              *)
LEMMA WalkNext ==
  ASSUME ScenarioAssumption, WalkInv, [PlannerNext]_plannerVars PROVE WalkInv'
<1>1. CASE Refuse
  BY <1>1 DEF Refuse, WalkInv, Known
<1>2. CASE Select
  BY <1>2, SelectWalk
<1>3. CASE VisitNode
  BY <1>3, VisitWalk
<1>4. CASE EndWalk \/ Emit \/ UNCHANGED plannerVars
  <2>1. UNCHANGED <<scenario, graph, closure, queue, truths>>
    BY <1>4 DEF EndWalk, Emit, plannerVars
  <2>2. stage' \in {"walk", "order"} => stage \in {"walk", "order"}
    BY <1>4 DEF EndWalk, Emit, plannerVars
  <2>3. stage' = "order" => queue = <<>>
    BY <1>4 DEF EndWalk, Emit, plannerVars, WalkInv
  <2>4. stage' = "select" => stage = "select"
    BY <1>4 DEF EndWalk, Emit, plannerVars
  <2>5. stage' \in {"walk", "order"} => WalkHalfway'
    BY <2>1, <2>2, SameWalk DEF WalkInv
  <2> QED BY <2>1, <2>3, <2>4, <2>5 DEF WalkInv, Known
<1>5. CASE Build \/ RunPlan
  BY <1>5 DEF Build, RunPlan, WalkInv, Known
<1> QED BY <1>1, <1>2, <1>3, <1>4, <1>5 DEF PlannerNext

(* Whatever the order of the work list and the cycles of the program, the  *)
(* walk of plan_scenario gives a node a truth at least k exactly when a    *)
(* chain of conditions at least that true leads to it from a start.        *)
THEOREM WalkIsBest ==
  PlannerSpec => []TruthIsBestWalk
<1>1. PlannerInit => WalkInv
  BY DEF PlannerInit, WalkInv, Known
<1>2. WalkInv /\ [PlannerNext]_plannerVars => WalkInv'
  BY ScenarioAssumption, WalkNext
<1>3. WalkInv => TruthIsBestWalk
  <2> SUFFICES ASSUME WalkInv, stage = "order", NEW n \in NodesOf(graph), NEW k \in Levels
               PROVE  Truth(n) >= k <=> \E s \in Reached(k) : s[1] = n
    BY DEF TruthIsBestWalk, Levels
  <2>1. Plannable(graph) /\ WalkHalfway /\ queue = <<>>
    BY ScenarioAssumption DEF WalkInv, Known
  <2>2. LeastReach(k, Reached(k))
    BY <2>1, ReachedIsLeast DEF WalkHalfway
  <2>3. SeenAt(k) = FoundAt(k)
    <3>1. Range(queue) = {}
      BY <2>1 DEF Range
    <3> QED BY <3>1 DEF SeenAt, WaitingIn
  <2>4. FoundAt(k) \in SUBSET Keys /\ ClosedAt(k, FoundAt(k))
    BY <2>1, <2>3 DEF WalkHalfway, Thorough, ClosedAt, FoundAt
  <2>5. FoundAt(k) = Reached(k)
    BY <2>1, <2>2, <2>3, <2>4 DEF WalkHalfway, Sound, LeastReach
  <2> QED BY <2>1, <2>5, TruthIsFound DEF WalkHalfway
<1> QED BY <1>1, <1>2, <1>3, PTL DEF PlannerSpec
================================================================================
