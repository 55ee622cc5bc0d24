-------------------------- MODULE NativeStepProofs --------------------------
(***************************************************************************)
(* That every adapter implements ContainedStep, for every value of the     *)
(* constants.                                                              *)
(***************************************************************************)
EXTENDS NativeStep, SequenceTheorems, TLAPS

Prepared == applied = {Preparation[i] : i \in DOMAIN Preparation}

\* How far the Windows helper is says what is in force and what runs.
WindowsInv ==
  /\ stage \in {"prepare", "launch", "assign", "inspect", "resume", "wait",
                "terminate", "length", "read", "returned"}
  /\ in_job \in BOOLEAN /\ inspected \in BOOLEAN /\ background \in BOOLEAN /\ resumed \in BOOLEAN
  /\ answer \in {"none", "error", "limit", "exit"}
  /\ answer = "none" <=> stage # "returned"
  /\ stage \notin {"prepare", "returned"} => Prepared
  /\ stage \in {"prepare", "launch"} => child = "none"
  /\ stage \in {"assign", "inspect", "resume"} => child = "suspended"
  /\ stage \in {"wait", "terminate"} => child \in {"running", "exited"}
  /\ stage \in {"length", "read"} => child = "exited"
  /\ stage = "returned" => child \in {"none", "exited"} /\ ~background
  /\ stage \in {"prepare", "launch", "assign"} => ~in_job
  /\ stage \in {"inspect", "resume", "wait", "terminate", "length", "read"} => in_job
  /\ stage \in {"prepare", "launch", "assign", "inspect"} => ~inspected
  /\ stage \in {"resume", "wait", "terminate", "length", "read"} => inspected
  /\ stage \in {"prepare", "launch", "assign", "inspect", "resume"} => ~resumed /\ ~background
  /\ stage \in {"wait", "terminate", "length", "read"} => resumed
  /\ answer = "exit" => resumed

\* The file position is the file's length until the helper moves it, and what
\* was noted of a limit stays true of a file that only grows.
WindowsOutputInv ==
  /\ TypeOK
  /\ stage \notin {"read", "returned"} => position = length /\ ~overwritten
  /\ stage \notin {"length", "read", "returned"} => ~outlived
  /\ stage \in {"length", "read"} /\ background => outlived
  /\ stage = "read" /\ ~outlived => output_bytes = length /\ ~overwritten
  /\ stage \in {"terminate", "length", "read"} /\ output_exceeded => length > OutputLimit
  /\ stage = "terminate" => output_exceeded \/ timed_out
  /\ stage \in {"length", "read"} /\ ~outlived /\ length > OutputLimit =>
       output_exceeded \/ timed_out
  /\ WindowsOutputExact

LinuxInv ==
  /\ L!TypeOK
  /\ answer = "none" <=> helper \in {"prepare", "run"}
  /\ helper = "prepare" => broker = "none"
  /\ helper \in {"answered", "dropped"} => broker \in {"none", "gone"}
  /\ broker = "none" => installed = <<>>
  /\ broker \in {"none", "setup"} => child = "none" /\ ~ran
  /\ broker = "spawn" => child = "setup" /\ ~ran
  /\ broker \in {"attest", "wait"} => child \in {"running", "gone"} /\ ran
  /\ broker = "gone" => child \in {"none", "gone"}
  /\ descendant => child = "running"
  /\ ready => ran
  /\ ready => broker \in {"wait", "gone"} /\ status # "126"
  /\ broker = "wait" => ready
  /\ broker # "gone" => status = "none"
  /\ answer = "exit" => ready

\* What the guest's agent observed, and published if it got to that.
Observation == [code |-> ending, timed_out |-> guestTimedOut, exceeded |-> exceeded]

VmStages ==
  /\ answer = "none" <=> controller # "returned"
  /\ controller \in {"load", "request"} => shim = "none"
  /\ shim \in {"none", "verify", "start"} => guest = "off"
  /\ shim \in {"verify", "start", "wait"} => controller = "invoke"
  /\ guest \notin {"off", "stopped", "crashed"} => shim = "wait"
  /\ guest \in {"off", "boot", "mounted", "rooted"} => ~confined
  /\ guest \in {"confined", "supervise", "publish", "stop"} => confined
  /\ guest \in {"off", "boot", "mounted", "rooted", "confined"} => workload = "none"
  /\ workload = "running" => guest = "supervise"
  /\ guest \in {"publish", "stop"} => workload = "gone"

VmResponse ==
  /\ guest = "supervise" /\ workload = "gone" => ending # "none"
  /\ guest = "supervise" => workload # "none"
  /\ guest \in {"publish", "stop"} => ending # "none"
  /\ response # V!NoResponse =>
       /\ response = Observation /\ ending # "none" /\ workload = "gone"
       /\ guest \in {"stop", "stopped", "crashed"}
  /\ shim = "exited" => response # V!NoResponse
  /\ transport = "exit0" => response # V!NoResponse
  /\ transport # "none" => controller \in {"decode", "returned"}
  /\ shim \in {"exited", "failed"} => guest \in {"off", "stopped", "crashed"}
  /\ answer = "exit" => workload = "gone"

VmClocks ==
  /\ guestClock \leq hostClock
  /\ ending = "signal" => guestTimedOut \/ exceeded
  /\ guestTimedOut => guestClock = Limit
  /\ transport = "timed_out" => hostClock = Limit

VmInv == V!TypeOK /\ VmStages /\ VmResponse /\ VmClocks /\ V!VmAnswerIsGuests

-----------------------------------------------------------------------------

LEMMA PreparationIsASequence ==
  DOMAIN Preparation = 1 .. Len(Preparation) /\ Len(Preparation) \in Nat
<1> DEFINE Named == {"profileMutex", "profile", "sid", "token", "privileges", "jobLimits",
                     "allowRead", "denyMutation", "lowIntegrity", "allowAll"}
           Operation == {<<name, n>> : name \in Named, n \in Nat}
<1>1. ASSUME NEW operation \in Named, NEW nodes \in Nat
      PROVE  OverTree(operation, nodes) \in Seq(Operation)
  <2>1. \A n \in 1 .. nodes : <<operation, n>> \in Operation
    OBVIOUS
  <2> HIDE DEF Operation
  <2>2. OverTree(operation, nodes) \in [1 .. nodes -> Operation]
    BY <2>1 DEF OverTree
  <2>3. QED
    BY <2>2, SeqDef
<1>2. /\ <<"profileMutex", 0>> \in Operation /\ <<"profile", 0>> \in Operation
      /\ <<"sid", 0>> \in Operation /\ <<"token", 0>> \in Operation
      /\ <<"privileges", 0>> \in Operation /\ <<"jobLimits", 0>> \in Operation
  OBVIOUS
<1> HIDE DEF Operation
<1>3. Profile \in Seq(Operation) /\ RestrictedToken \in Seq(Operation) /\ JobLimits \in Seq(Operation)
  BY <1>2 DEF Profile, RestrictedToken, JobLimits
<1>4. \A a, b \in Seq(Operation) : a \o b \in Seq(Operation)
  BY ConcatProperties
<1>5. SourceNodes \in Nat /\ ScratchNodes \in Nat
  BY WindowsAssumption
<1>6. AuthorizeSource \in Seq(Operation)
  BY <1>1, <1>4, <1>5 DEF AuthorizeSource
<1>7. LabelScratch \in Seq(Operation)
  BY <1>1, <1>4, <1>5 DEF LabelScratch
<1>8. Preparation \in Seq(Operation)
  BY <1>3, <1>4, <1>6, <1>7 DEF Preparation
<1>9. QED
  BY <1>8, LenProperties

LEMMA WindowsStarts == Init => WindowsInv
BY DEF Init, WindowsInv

LEMMA WindowsKeeps ==
  ASSUME WindowsInv, Next
  PROVE  WindowsInv'
<1> USE DEF WindowsInv, vars, processVars, fileVars, observationVars
<1>1. CASE Prepare
  <2>1. PICK i \in DOMAIN Preparation :
          /\ {Preparation[j] : j \in 1 .. i - 1} = applied
          /\ applied' = applied \cup {Preparation[i]}
          /\ stage' = IF i = Len(Preparation) THEN "launch" ELSE "prepare"
    BY <1>1 DEF Prepare
  <2>2. i = Len(Preparation) => Prepared'
    BY <2>1, PreparationIsASequence DEF Prepared
  <2>3. QED
    BY <1>1, <2>1, <2>2 DEF Prepare
<1>2. CASE Refuse \/ LaunchFails \/ Fail
  BY <1>2 DEF Refuse, LaunchFails, Fail, Finish, Prepared
<1>3. CASE Create
  BY <1>3 DEF Create, Prepared
<1>31. CASE Assign
  BY <1>31 DEF Assign, Prepared
<1>32. CASE Inspect
  BY <1>32 DEF Inspect, Prepared
<1>33. CASE Resume
  BY <1>33 DEF Resume, Prepared
<1>4. CASE WaitObject \/ WaitTimeout \/ TerminateJob \/ MeasureAndSeek
  BY <1>4 DEF WaitObject, WaitTimeout, TerminateJob, MeasureAndSeek, Prepared
<1>5. CASE ReadOutput
  BY <1>5 DEF ReadOutput, Finish, Prepared
<1>6. CASE Write
  BY <1>6 DEF Write, Prepared
<1>7. CASE Fork \/ Exit
  BY <1>7 DEF Fork, Exit, Prepared
<1>8. CASE Expire
  BY <1>8 DEF Expire, Prepared
<1>9. QED
  BY <1>1, <1>2, <1>3, <1>31, <1>32, <1>33, <1>4, <1>5, <1>6, <1>7, <1>8 DEF Next, Helper

LEMMA WindowsOutputStarts == Init => WindowsOutputInv
<1> SUFFICES ASSUME Init PROVE WindowsOutputInv
  OBVIOUS
<1>1. TypeOK
  BY DEF Init, TypeOK
<1>2. QED
  BY <1>1 DEF Init, WindowsOutputInv, WindowsOutputExact

LEMMA WindowsTypesKeep ==
  ASSUME TypeOK, Next
  PROVE  TypeOK'
<1> USE DEF TypeOK, vars, processVars, fileVars, observationVars
<1>1. CASE Prepare
  BY <1>1 DEF Prepare
<1>2. CASE Refuse
  BY <1>2 DEF Refuse, Finish
<1>3. CASE LaunchFails
  BY <1>3 DEF LaunchFails, Finish
<1>4. CASE Fail
  BY <1>4 DEF Fail, Finish
<1>5. CASE Create
  BY <1>5 DEF Create
<1>6. CASE Assign
  BY <1>6 DEF Assign
<1>7. CASE Inspect
  BY <1>7 DEF Inspect
<1>8. CASE Resume
  BY <1>8 DEF Resume
<1>9. CASE WaitObject
  BY <1>9 DEF WaitObject
<1>10. CASE WaitTimeout
  BY <1>10 DEF WaitTimeout
<1>11. CASE TerminateJob
  BY <1>11 DEF TerminateJob
<1>12. CASE MeasureAndSeek
  BY <1>12 DEF MeasureAndSeek
<1>13. CASE ReadOutput
  BY <1>13, WindowsAssumption DEF ReadOutput, Finish, AtMost
<1>14. CASE Write
  BY <1>14 DEF Write
<1>15. CASE Fork
  BY <1>15 DEF Fork
<1>16. CASE Exit
  <2>1. /\ child' \in {child, "exited"} /\ background' \in {background, FALSE}
        /\ UNCHANGED <<stage, applied, in_job, inspected, resumed, length, position,
                       overwritten, expired, timed_out, output_exceeded, output_bytes,
                       captured, outlived, answer>>
    BY <1>16 DEF Exit
  <2>2. child' \in {"none", "suspended", "running", "exited"} /\ background' \in BOOLEAN
    BY <2>1, Zenon
  <2>3. QED
    BY <2>1, <2>2
<1>17. CASE Expire
  BY <1>17 DEF Expire
<1>18. QED
  BY <1>1, <1>2, <1>3, <1>4, <1>5, <1>6, <1>7, <1>8, <1>9, <1>10, <1>11, <1>12, <1>13, <1>14, <1>15, <1>16, <1>17
  DEF Next, Helper

LEMMA WindowsOutputKeeps ==
  ASSUME WindowsInv, WindowsOutputInv, Next
  PROVE  WindowsOutputInv'
<1>1. TypeOK'
  BY WindowsTypesKeep DEF WindowsOutputInv
<1> USE <1>1, WindowsAssumption
    DEF WindowsOutputInv, WindowsOutputExact, TypeOK, vars, processVars, fileVars, observationVars
<1>2. CASE Prepare
  BY <1>2 DEF Prepare, WindowsInv
<1>3. CASE Refuse \/ LaunchFails \/ Fail
  BY <1>3 DEF Refuse, LaunchFails, Fail, Finish
<1>4. CASE Create \/ Assign \/ Inspect \/ Resume
  BY <1>4 DEF Create, Assign, Inspect, Resume, WindowsInv
<1>5. CASE WaitObject
  BY <1>5 DEF WaitObject, WindowsInv
<1>6. CASE WaitTimeout
  BY <1>6 DEF WaitTimeout, WindowsInv
<1>7. CASE TerminateJob
  BY <1>7 DEF TerminateJob, WindowsInv
<1>8. CASE MeasureAndSeek
  BY <1>8 DEF MeasureAndSeek, WindowsInv
<1>9. CASE ReadOutput
  BY <1>9 DEF ReadOutput, Finish, WindowsInv
<1>10. CASE Write
  BY <1>10 DEF Write, Running, WindowsInv
<1>11. CASE Fork
  BY <1>11 DEF Fork, WindowsInv
<1>12. CASE Exit
  BY <1>12 DEF Exit, WindowsInv
<1>13. CASE Expire
  BY <1>13 DEF Expire
<1>14. QED
  BY <1>2, <1>3, <1>4, <1>5, <1>6, <1>7, <1>8, <1>9, <1>10, <1>11, <1>12, <1>13
  DEF Next, Helper

LEMMA WindowsContained ==
  ASSUME platform = "windows", platform' = "windows", WindowsInv, Next
  PROVE  [Contained!Next]_(Contained!vars)
<1>1. Secured = WindowsSecured /\ Secured' = WindowsSecured'
  BY DEF Secured
<1>2. Workload = WindowsWorkload /\ Workload' = WindowsWorkload'
  BY DEF Workload
<1> HIDE DEF Secured, Workload
<1> USE <1>1, <1>2 DEF Contained!Next, Contained!vars, WindowsWorkload, Running, WindowsInv,
      vars, processVars, fileVars, observationVars
<1>3. CASE Prepare
  BY <1>3 DEF Prepare, WindowsSecured
<1>4. CASE Refuse
  BY <1>4 DEF Refuse, Finish, WindowsSecured, Contained!Answer
<1>41. CASE LaunchFails
  BY <1>41 DEF LaunchFails, Finish, WindowsSecured, Contained!Answer
<1>42. CASE Fail
  BY <1>42 DEF Fail, Finish, WindowsSecured, Contained!Answer
<1>5. CASE Create \/ Assign
  BY <1>5 DEF Create, Assign, WindowsSecured
<1>6. CASE Inspect
  BY <1>6 DEF Inspect, WindowsSecured, Prepared, Contained!Secure
<1>7. CASE Resume
  BY <1>7 DEF Resume, WindowsSecured, Prepared, Contained!Start
<1>8. CASE WaitObject \/ WaitTimeout \/ MeasureAndSeek \/ Write \/ Fork \/ Expire
  BY <1>8 DEF WaitObject, WaitTimeout, MeasureAndSeek, Write, Fork, Expire, WindowsSecured
<1>9. CASE TerminateJob
  BY <1>9 DEF TerminateJob, WindowsSecured, Contained!Stop
<1>10. CASE ReadOutput
  BY <1>10 DEF ReadOutput, Finish, WindowsSecured, Contained!Answer
<1>11. CASE Exit
  BY <1>11 DEF Exit, WindowsSecured, Contained!Stop
<1>12. QED
  BY <1>3, <1>4, <1>41, <1>42, <1>5, <1>6, <1>7, <1>8, <1>9, <1>10, <1>11 DEF Next, Helper

-----------------------------------------------------------------------------

Controls == {L!BrokerSetup[i] : i \in DOMAIN L!BrokerSetup} \cup
            {L!ChildSetup[i] : i \in DOMAIN L!ChildSetup}

LEMMA SetupIsSequences ==
  /\ L!BrokerSetup \in Seq(Controls) /\ L!BrokerSetup \o L!ChildSetup \in Seq(Controls)
  /\ Len(L!BrokerSetup) < Len(L!BrokerSetup \o L!ChildSetup)
<1> DEFINE Named == {"cgroup", "userNamespace", "idMaps", "namespaces", "privateMounts",
                     "readOnlySource", "hostname", "landlockRules", "syscallFilter",
                     "deathSignal", "privateProc", "noNewPrivileges", "landlock", "seccomp"}
<1>1. \A a, b \in Seq(Named) : a \o b \in Seq(Named)
  BY ConcatProperties
<1>2. /\ <<"cgroup">> \in Seq(Named) /\ L!NamespaceSetup \in Seq(Named)
      /\ L!LandlockRules \in Seq(Named) /\ L!SyscallFilter \in Seq(Named)
  BY DEF L!NamespaceSetup, L!LandlockRules, L!SyscallFilter
<1>3. /\ L!PrepareChild \in Seq(Named)
      /\ <<"noNewPrivileges", "landlock", "seccomp">> \in Seq(Named)
      /\ Len(L!PrepareChild) = 2
  BY DEF L!PrepareChild
<1> HIDE DEF Named
<1>4. L!BrokerSetup \in Seq(Named)
  BY <1>1, <1>2 DEF L!BrokerSetup
<1>5. L!ChildSetup \in Seq(Named) /\ Len(L!ChildSetup) > 0
  BY <1>1, <1>3, ConcatProperties DEF L!ChildSetup
<1>6. L!BrokerSetup \in Seq(Controls) /\ L!ChildSetup \in Seq(Controls)
  BY <1>4, <1>5, LenProperties, SeqDef DEF Controls
<1>7. QED
  BY <1>5, <1>6, ConcatProperties, LenProperties

LEMMA LinuxStarts == L!Init => LinuxInv
<1> SUFFICES ASSUME L!Init PROVE LinuxInv
  OBVIOUS
<1>1. L!TypeOK
  BY EmptySeq DEF L!Init, L!TypeOK
<1>2. QED
  BY <1>1 DEF L!Init, LinuxInv

\* L!TypeOK by whose variables they are: what kills the broker leaves the
\* helper's variables and the installed controls alone.
LinuxHelperTypes ==
  /\ cgroup \in {"none", "ready", "removed"}
  /\ helper \in {"prepare", "run", "answered", "dropped"}
  /\ expired \in BOOLEAN /\ exceeded \in BOOLEAN
  /\ terminated \in BOOLEAN /\ timed_out \in BOOLEAN
  /\ answer \in {"none", "error", "limit", "exit"}

LinuxBrokerTypes ==
  /\ broker \in {"none", "setup", "spawn", "attest", "wait", "gone"}
  /\ child \in {"none", "setup", "running", "gone"}
  /\ descendant \in BOOLEAN /\ ran \in BOOLEAN /\ ready \in BOOLEAN
  /\ status \in {"none", "killed", "126", "workload"}

LEMMA LinuxTypesAre ==
  L!TypeOK <=> LinuxHelperTypes /\ LinuxBrokerTypes /\ installed \in Seq(Controls)
BY DEF L!TypeOK, LinuxHelperTypes, LinuxBrokerTypes, Controls

LEMMA LinuxTypesAreNext ==
  L!TypeOK' <=>
    LinuxHelperTypes' /\ LinuxBrokerTypes' /\ installed' \in Seq(Controls)
BY DEF L!TypeOK, LinuxHelperTypes, LinuxBrokerTypes, Controls

LEMMA KillBrokerTypes ==
  ASSUME LinuxBrokerTypes, NEW how \in {"killed", "126", "workload"},
         L!KillBroker(how)
  PROVE  /\ LinuxBrokerTypes' /\ installed' = installed
         /\ ran' = ran /\ ready' = ready /\ broker' = "gone" /\ status' = how
         /\ child' \in {"none", "gone"} /\ ~descendant'
         /\ child' = "none" <=> child = "none"
<1>1. /\ broker' = "gone" /\ status' = how /\ descendant' = FALSE
      /\ child' = IF child = "none" THEN "none" ELSE "gone"
      /\ installed' = installed /\ ran' = ran /\ ready' = ready
  BY DEF L!KillBroker
<1>2. QED
  BY <1>1 DEF LinuxBrokerTypes

LEMMA KillCgroupTypes ==
  ASSUME LinuxBrokerTypes, L!KillCgroup
  PROVE  LinuxBrokerTypes' /\ installed' = installed /\ ran' = ran /\ ready' = ready
<1>1. CASE L!KillBroker("killed")
  BY <1>1, KillBrokerTypes
<1>2. CASE UNCHANGED L!brokerVars
  BY <1>2 DEF L!brokerVars, LinuxBrokerTypes
<1>3. QED
  BY <1>1, <1>2 DEF L!KillCgroup

LEMMA LinuxTypesKeep ==
  ASSUME L!TypeOK, L!Next
  PROVE  L!TypeOK'
<1>0. LinuxHelperTypes /\ LinuxBrokerTypes /\ installed \in Seq(Controls)
  BY LinuxTypesAre
<1> SUFFICES LinuxHelperTypes' /\ LinuxBrokerTypes' /\ installed' \in Seq(Controls)
  BY LinuxTypesAreNext
<1>a. ASSUME UNCHANGED <<L!limitVars, L!helperVars>> PROVE LinuxHelperTypes'
  BY <1>0, <1>a DEF LinuxHelperTypes, L!limitVars, L!helperVars
<1>b. ASSUME UNCHANGED L!brokerVars
      PROVE  LinuxBrokerTypes' /\ installed' \in Seq(Controls)
  BY <1>0, <1>b DEF LinuxBrokerTypes, L!brokerVars
<1>1. CASE L!Prepare
  BY <1>0, <1>1, <1>b DEF L!Prepare, LinuxHelperTypes, L!limitVars
<1>2. CASE L!PrepareFails
  BY <1>0, <1>2, <1>b DEF L!PrepareFails, LinuxHelperTypes, L!limitVars
<1>3. CASE L!Run
  BY <1>0, <1>3 DEF L!Run, LinuxHelperTypes, LinuxBrokerTypes, L!limitVars
<1>4. CASE L!Terminate
  <2>1. LinuxHelperTypes'
    BY <1>0, <1>4 DEF L!Terminate, LinuxHelperTypes, L!limitVars
  <2>2. QED
    BY <1>0, <1>4, <2>1, KillCgroupTypes DEF L!Terminate
<1>5. CASE L!Return
  BY <1>0, <1>5, <1>b DEF L!Return, LinuxHelperTypes, L!limitVars
<1>6. CASE L!Drop
  <2>1. LinuxHelperTypes'
    BY <1>0, <1>6 DEF L!Drop, LinuxHelperTypes, L!limitVars
  <2>2. QED
    BY <1>0, <1>6, <2>1, KillCgroupTypes DEF L!Drop
<1>7. CASE L!BrokerInstalls
  <2>1. L!BrokerSetup[Len(installed) + 1] \in Controls
    BY <1>0, <1>7, SetupIsSequences, ElementOfSeq DEF L!BrokerInstalls
  <2>2. installed' \in Seq(Controls)
    BY <1>0, <1>7, <2>1 DEF L!BrokerInstalls
  <2>3. LinuxBrokerTypes'
    BY <1>0, <1>7 DEF L!BrokerInstalls, LinuxBrokerTypes
  <2>4. QED
    BY <1>7, <1>a, <2>2, <2>3 DEF L!BrokerInstalls
<1>8. CASE L!Fork
  <2>1. LinuxBrokerTypes' /\ installed' = installed
    BY <1>0, <1>8 DEF L!Fork, LinuxBrokerTypes
  <2>2. QED
    BY <1>0, <1>8, <1>a, <2>1 DEF L!Fork
<1>9. CASE L!ChildInstalls
  <2>1. (L!BrokerSetup \o L!ChildSetup)[Len(installed) + 1] \in Controls
    BY <1>0, <1>9, SetupIsSequences, ElementOfSeq DEF L!ChildInstalls
  <2>2. installed' \in Seq(Controls)
    BY <1>0, <1>9, <2>1 DEF L!ChildInstalls
  <2>3. LinuxBrokerTypes'
    BY <1>0, <1>9 DEF L!ChildInstalls, LinuxBrokerTypes
  <2>4. QED
    BY <1>9, <1>a, <2>2, <2>3 DEF L!ChildInstalls
<1>10. CASE L!Exec
  <2>1. LinuxBrokerTypes' /\ installed' = installed
    BY <1>0, <1>10 DEF L!Exec, LinuxBrokerTypes
  <2>2. QED
    BY <1>0, <1>10, <1>a, <2>1 DEF L!Exec
<1>11. CASE L!Attest
  <2>1. LinuxBrokerTypes' /\ installed' = installed
    BY <1>0, <1>11 DEF L!Attest, LinuxBrokerTypes
  <2>2. QED
    BY <1>0, <1>11, <1>a, <2>1 DEF L!Attest
<1>12. CASE L!BrokerFails
  BY <1>0, <1>12, <1>a, KillBrokerTypes DEF L!BrokerFails
<1>13. CASE L!WorkloadExits
  <2>1. LinuxBrokerTypes' /\ installed' = installed
    BY <1>0, <1>13 DEF L!WorkloadExits, LinuxBrokerTypes
  <2>2. QED
    BY <1>0, <1>13, <1>a, <2>1 DEF L!WorkloadExits
<1>14. CASE L!BrokerExits
  BY <1>0, <1>14, <1>a, KillBrokerTypes DEF L!BrokerExits
<1>15. CASE L!WorkloadForks
  <2>1. LinuxBrokerTypes' /\ installed' = installed
    BY <1>0, <1>15 DEF L!WorkloadForks, LinuxBrokerTypes
  <2>2. QED
    BY <1>0, <1>15, <1>a, <2>1 DEF L!WorkloadForks
<1>16. CASE L!OutOfMemory
  BY <1>0, <1>16, <1>a, KillBrokerTypes DEF L!OutOfMemory
<1>17. CASE L!Expire
  BY <1>0, <1>17, <1>b DEF L!Expire, LinuxHelperTypes, L!helperVars
<1>18. CASE L!Exceed
  BY <1>0, <1>18, <1>b DEF L!Exceed, LinuxHelperTypes, L!helperVars
<1>19. QED
  BY <1>1, <1>2, <1>3, <1>4, <1>5, <1>6, <1>7, <1>8, <1>9, <1>10,
     <1>11, <1>12, <1>13, <1>14, <1>15, <1>16, <1>17, <1>18
  DEF L!Next, L!Helper, L!Broker

LEMMA LinuxKeeps ==
  ASSUME LinuxInv, L!Next
  PROVE  LinuxInv'
<1>0. L!TypeOK'
  BY LinuxTypesKeep DEF LinuxInv
<1> USE <1>0 DEF LinuxInv, L!vars, L!brokerVars, L!limitVars, L!helperVars
<1>1. CASE L!Prepare
  BY <1>1 DEF L!Prepare, L!TypeOK
<1>2. CASE L!PrepareFails
  BY <1>2 DEF L!PrepareFails, L!TypeOK
<1>3. CASE L!Run
  BY <1>3 DEF L!Run, L!TypeOK
<1>4. CASE L!Terminate
  BY <1>4 DEF L!Terminate, L!KillCgroup, L!KillBroker, L!TypeOK
<1>5. CASE L!Return
  BY <1>5 DEF L!Return, L!TypeOK
<1>6. CASE L!Drop
  BY <1>6 DEF L!Drop, L!KillCgroup, L!KillBroker, L!TypeOK
<1>7. CASE L!BrokerInstalls
  BY <1>7 DEF L!BrokerInstalls, L!TypeOK
<1>8. CASE L!Fork
  BY <1>8 DEF L!Fork, L!TypeOK
<1>9. CASE L!ChildInstalls
  BY <1>9 DEF L!ChildInstalls, L!TypeOK
<1>10. CASE L!Exec
  BY <1>10 DEF L!Exec, L!TypeOK
<1>11. CASE L!Attest
  <2>1. ready' = TRUE /\ broker' = "wait" /\ status # "126"
    BY <1>11 DEF L!Attest
  <2>2. QED
    BY <1>11, <2>1 DEF L!Attest
<1>12. CASE L!BrokerFails
  BY <1>12 DEF L!BrokerFails, L!KillBroker, L!TypeOK
<1>13. CASE L!WorkloadExits
  BY <1>13 DEF L!WorkloadExits, L!TypeOK
<1>14. CASE L!BrokerExits
  BY <1>14 DEF L!BrokerExits, L!KillBroker, L!TypeOK
<1>15. CASE L!WorkloadForks
  BY <1>15 DEF L!WorkloadForks, L!TypeOK
<1>16. CASE L!OutOfMemory
  BY <1>16 DEF L!OutOfMemory, L!KillBroker, L!TypeOK
<1>17. CASE L!Expire
  BY <1>17 DEF L!Expire, L!TypeOK
<1>18. CASE L!Exceed
  BY <1>18 DEF L!Exceed, L!TypeOK
<1>19. QED
  BY <1>1, <1>2, <1>3, <1>4, <1>5, <1>6, <1>7, <1>8, <1>9, <1>10,
     <1>11, <1>12, <1>13, <1>14, <1>15, <1>16, <1>17, <1>18
  DEF L!Next, L!Helper, L!Broker

LEMMA LinuxContained ==
  ASSUME platform = "linux", platform' = "linux", LinuxInv, L!Next
  PROVE  [Contained!Next]_(Contained!vars)
<1>a. Secured = L!LinuxSecured /\ Secured' = L!LinuxSecured'
  BY DEF Secured
<1>b. Workload = L!LinuxWorkload /\ Workload' = L!LinuxWorkload'
  BY DEF Workload
<1> USE <1>a, <1>b DEF Contained!Next, Contained!vars, L!LinuxWorkload, L!LinuxSecured, LinuxInv,
      L!TypeOK, L!vars, L!brokerVars, L!limitVars, L!helperVars
<1>1. CASE L!Prepare
  BY <1>1 DEF L!Prepare
<1>2. CASE L!PrepareFails
  BY <1>2 DEF L!PrepareFails, Contained!Answer
<1>3. CASE L!Run
  BY <1>3 DEF L!Run
<1>4. CASE L!Terminate
  BY <1>4 DEF L!Terminate, L!KillCgroup, L!KillBroker, Contained!Stop
<1>5. CASE L!Return
  BY <1>5 DEF L!Return, Contained!Answer
<1>6. CASE L!Drop
  BY <1>6 DEF L!Drop, L!KillCgroup, L!KillBroker, L!Installed
<1>7. CASE L!BrokerInstalls
  <2>1. broker = "setup" /\ child = "none" /\ ~descendant /\ ~ran /\ answer = "none"
    BY <1>7 DEF L!BrokerInstalls
  <2>2. UNCHANGED <<child, descendant, ran, answer>>
    BY <1>7 DEF L!BrokerInstalls
  <2>3. L!LinuxWorkload = "none" /\ L!LinuxWorkload' = "none"
    BY <2>1, <2>2
  <2>4. ~L!LinuxSecured
    BY <1>7, SetupIsSequences DEF L!BrokerInstalls
  <2>5. QED
    BY <2>1, <2>2, <2>3, <2>4 DEF Contained!Secure
<1>8. CASE L!Fork
  BY <1>8 DEF L!Fork
<1>9. CASE L!ChildInstalls
  <2>1. broker = "spawn" /\ child = "setup" /\ ~descendant /\ ~ran /\ answer = "none"
    BY <1>9 DEF L!ChildInstalls
  <2>2. UNCHANGED <<child, descendant, ran, answer>> /\ ~L!LinuxSecured
    BY <1>9 DEF L!ChildInstalls
  <2>3. QED
    BY <2>1, <2>2 DEF Contained!Secure
<1>10. CASE L!Exec
  BY <1>10 DEF L!Exec, Contained!Start
<1>11. CASE L!Attest
  BY <1>11 DEF L!Attest
<1>12. CASE L!BrokerFails
  BY <1>12 DEF L!BrokerFails, L!KillBroker, Contained!Stop
<1>13. CASE L!WorkloadExits
  BY <1>13 DEF L!WorkloadExits, Contained!Stop
<1>14. CASE L!BrokerExits
  BY <1>14 DEF L!BrokerExits, L!KillBroker, Contained!Stop
<1>15. CASE L!WorkloadForks
  BY <1>15 DEF L!WorkloadForks
<1>16. CASE L!OutOfMemory
  BY <1>16 DEF L!OutOfMemory, L!KillBroker, Contained!Stop
<1>17. CASE L!Expire
  BY <1>17 DEF L!Expire
<1>18. CASE L!Exceed
  BY <1>18 DEF L!Exceed
<1>19. QED
  BY <1>1, <1>2, <1>3, <1>4, <1>5, <1>6, <1>7, <1>8, <1>9, <1>10,
     <1>11, <1>12, <1>13, <1>14, <1>15, <1>16, <1>17, <1>18
  DEF L!Next, L!Helper, L!Broker

-----------------------------------------------------------------------------

LEMMA NoResponseIsOne == V!NoResponse \in V!Responses
BY DEF V!NoResponse, V!Responses

LEMMA VmStarts == V!Init => VmInv
<1> SUFFICES ASSUME V!Init PROVE VmInv
  OBVIOUS
<1>1. hostClock \in 0 .. Limit /\ guestClock \in 0 .. Limit
  BY NativeAssumption DEF V!Init
<1>2. response \in V!Responses /\ reported \in V!Responses
  BY NoResponseIsOne DEF V!Init
<1>3. V!TypeOK
  BY <1>1, <1>2 DEF V!Init, V!TypeOK
<1>4. QED
  BY <1>3, NativeAssumption
  DEF V!Init, VmInv, VmStages, VmResponse, VmClocks, V!VmAnswerIsGuests, V!NoResponse

LEMMA ReturningKeepsTypes ==
  ASSUME V!TypeOK, NEW kind \in {"error", "limit", "exit"}, NEW observation \in V!Responses,
         V!Returns(kind, observation),
         UNCHANGED <<transport, shim, V!guestVars, V!clockVars>>
  PROVE  V!TypeOK'
<1> USE DEF V!Returns, V!TypeOK, V!guestVars, V!clockVars
<1>1. hostClock' \in 0 .. Limit /\ guestClock' \in 0 .. Limit
  OBVIOUS
<1>2. response' \in V!Responses /\ reported' \in V!Responses
  OBVIOUS
<1>3. /\ confined' \in BOOLEAN /\ exceeded' \in BOOLEAN /\ guestTimedOut' \in BOOLEAN
      /\ control' \in BOOLEAN
  OBVIOUS
<1>4. controller' = "returned" /\ answer' \in {"none", "error", "limit", "exit"}
  OBVIOUS
<1>5. QED
  BY <1>1, <1>2, <1>3, <1>4

LEMMA VmTypesKeep ==
  ASSUME V!TypeOK, V!Next
  PROVE  V!TypeOK'
<1> USE NativeAssumption DEF V!TypeOK, V!vars, V!hostVars, V!guestVars, V!clockVars
<1>1. CASE V!LoadBundle
  BY <1>1 DEF V!LoadBundle, V!NoResponse, V!Responses
<1>2. CASE V!Invoke
  BY <1>2 DEF V!Invoke, V!NoResponse, V!Responses
<1>3. CASE V!InvokeFails
  BY <1>3, NoResponseIsOne, ReturningKeepsTypes DEF V!InvokeFails
<1>4. CASE V!ShimEnded
  BY <1>4 DEF V!ShimEnded, V!NoResponse, V!Responses
<1>5. CASE V!ShimKilled
  BY <1>5 DEF V!ShimKilled, V!PowerLost, V!NoResponse, V!Responses
<1>6. CASE V!Decode
  <2>1. PICK kind \in {"error", "limit", "exit"},
             observation \in {V!NoResponse, [V!NoResponse EXCEPT !.timed_out = TRUE], response} :
          V!Returns(kind, observation)
    BY <1>6 DEF V!Decode
  <2>2. [V!NoResponse EXCEPT !.timed_out = TRUE] \in V!Responses
    BY DEF V!NoResponse, V!Responses
  <2>3. observation \in V!Responses
    BY <2>1, <2>2, NoResponseIsOne
  <2>4. UNCHANGED <<transport, shim, V!guestVars, V!clockVars>>
    BY <1>6 DEF V!Decode
  <2> HIDE DEF V!TypeOK
  <2>5. QED
    BY <2>1, <2>3, <2>4, ReturningKeepsTypes
<1>7. CASE V!Verify
  BY <1>7 DEF V!Verify, V!NoResponse, V!Responses
<1>8. CASE V!StartMachine
  BY <1>8 DEF V!StartMachine, V!NoResponse, V!Responses
<1>9. CASE V!ShimFails
  BY <1>9 DEF V!ShimFails, V!PowerLost, V!NoResponse, V!Responses
<1>10. CASE V!Respond
  BY <1>10 DEF V!Respond, V!NoResponse, V!Responses
<1>11. CASE V!MountFilesystems
  BY <1>11 DEF V!MountFilesystems, V!Advances, V!NoResponse, V!Responses
<1>12. CASE V!EnterRootfs
  BY <1>12 DEF V!EnterRootfs, V!Advances, V!NoResponse, V!Responses
<1>13. CASE V!ConfigureCgroup
  BY <1>13 DEF V!ConfigureCgroup, V!Advances, V!NoResponse, V!Responses
<1>14. CASE V!StartWorkload
  BY <1>14 DEF V!StartWorkload, V!Advances, V!NoResponse, V!Responses
<1>15. CASE V!AgentFails
  BY <1>15 DEF V!AgentFails, V!NoResponse, V!Responses
<1>16. CASE V!WorkloadEnds
  BY <1>16 DEF V!WorkloadEnds, V!NoResponse, V!Responses
<1>17. CASE V!OutputExceeds
  BY <1>17 DEF V!OutputExceeds, V!NoResponse, V!Responses
<1>18. CASE V!KillWorkload
  BY <1>18 DEF V!KillWorkload, V!NoResponse, V!Responses
<1>19. CASE V!Observed
  BY <1>19 DEF V!Observed, V!NoResponse, V!Responses
<1>20. CASE V!Publish
  BY <1>20 DEF V!Publish, V!NoResponse, V!Responses
<1>21. CASE V!PowerOff
  BY <1>21 DEF V!PowerOff, V!NoResponse, V!Responses
<1>22. CASE V!Tick
  BY <1>22 DEF V!Tick, V!Counting, V!NoResponse, V!Responses
<1>23. QED
  BY <1>1, <1>2, <1>3, <1>4, <1>5, <1>6, <1>7, <1>8, <1>9, <1>10, <1>11,
     <1>12, <1>13, <1>14, <1>15, <1>16, <1>17, <1>18, <1>19, <1>20, <1>21, <1>22
  DEF V!Next, V!Controller, V!Shim, V!Guest

LEMMA VmStagesKeep ==
  ASSUME V!TypeOK, VmStages, V!Next
  PROVE  VmStages'
<1> USE DEF V!TypeOK, VmStages, V!vars, V!hostVars, V!guestVars, V!clockVars
<1>1. CASE V!LoadBundle
  BY <1>1 DEF V!LoadBundle
<1>2. CASE V!Invoke
  BY <1>2 DEF V!Invoke
<1>3. CASE V!InvokeFails
  BY <1>3 DEF V!InvokeFails, V!Returns
<1>4. CASE V!ShimEnded
  BY <1>4 DEF V!ShimEnded
<1>5. CASE V!ShimKilled
  BY <1>5 DEF V!ShimKilled, V!PowerLost
<1>6. CASE V!Decode
  BY <1>6 DEF V!Decode, V!Returns
<1>7. CASE V!Verify
  BY <1>7 DEF V!Verify
<1>8. CASE V!StartMachine
  BY <1>8 DEF V!StartMachine
<1>9. CASE V!ShimFails
  BY <1>9 DEF V!ShimFails, V!PowerLost
<1>10. CASE V!Respond
  BY <1>10 DEF V!Respond
<1>11. CASE V!MountFilesystems
  BY <1>11 DEF V!MountFilesystems, V!Advances
<1>12. CASE V!EnterRootfs
  BY <1>12 DEF V!EnterRootfs, V!Advances
<1>13. CASE V!ConfigureCgroup
  BY <1>13 DEF V!ConfigureCgroup, V!Advances
<1>14. CASE V!StartWorkload
  BY <1>14 DEF V!StartWorkload, V!Advances
<1>15. CASE V!AgentFails
  BY <1>15 DEF V!AgentFails
<1>16. CASE V!WorkloadEnds
  BY <1>16 DEF V!WorkloadEnds
<1>17. CASE V!OutputExceeds
  BY <1>17 DEF V!OutputExceeds
<1>18. CASE V!KillWorkload
  BY <1>18 DEF V!KillWorkload
<1>19. CASE V!Observed
  BY <1>19 DEF V!Observed
<1>20. CASE V!Publish
  BY <1>20 DEF V!Publish
<1>21. CASE V!PowerOff
  BY <1>21 DEF V!PowerOff
<1>22. CASE V!Tick
  BY <1>22 DEF V!Tick, V!Counting
<1>23. QED
  BY <1>1, <1>2, <1>3, <1>4, <1>5, <1>6, <1>7, <1>8, <1>9, <1>10, <1>11,
     <1>12, <1>13, <1>14, <1>15, <1>16, <1>17, <1>18, <1>19, <1>20, <1>21, <1>22
  DEF V!Next, V!Controller, V!Shim, V!Guest

LEMMA VmResponseKeeps ==
  ASSUME V!TypeOK, VmStages, VmResponse, V!Next
  PROVE  VmResponse'
<1> USE DEF V!TypeOK, VmStages, VmResponse, Observation, V!vars, V!hostVars, V!guestVars, V!clockVars
<1>1. CASE V!LoadBundle
  BY <1>1 DEF V!LoadBundle
<1>2. CASE V!Invoke
  BY <1>2 DEF V!Invoke
<1>3. CASE V!InvokeFails
  BY <1>3 DEF V!InvokeFails, V!Returns
<1>4. CASE V!ShimEnded
  BY <1>4 DEF V!ShimEnded
<1>5. CASE V!ShimKilled
  BY <1>5 DEF V!ShimKilled, V!PowerLost
<1>6. CASE V!Decode
  BY <1>6 DEF V!Decode, V!Returns
<1>7. CASE V!Verify
  BY <1>7 DEF V!Verify
<1>8. CASE V!StartMachine
  BY <1>8 DEF V!StartMachine
<1>9. CASE V!ShimFails
  BY <1>9 DEF V!ShimFails, V!PowerLost
<1>10. CASE V!Respond
  BY <1>10 DEF V!Respond
<1>11. CASE V!MountFilesystems
  BY <1>11 DEF V!MountFilesystems, V!Advances
<1>12. CASE V!EnterRootfs
  BY <1>12 DEF V!EnterRootfs, V!Advances
<1>13. CASE V!ConfigureCgroup
  BY <1>13 DEF V!ConfigureCgroup, V!Advances
<1>14. CASE V!StartWorkload
  BY <1>14 DEF V!StartWorkload, V!Advances
<1>15. CASE V!AgentFails
  BY <1>15 DEF V!AgentFails
<1>16. CASE V!WorkloadEnds
  BY <1>16 DEF V!WorkloadEnds
<1>17. CASE V!OutputExceeds
  BY <1>17 DEF V!OutputExceeds
<1>18. CASE V!KillWorkload
  BY <1>18 DEF V!KillWorkload
<1>19. CASE V!Observed
  BY <1>19 DEF V!Observed
<1>20. CASE V!Publish
  BY <1>20 DEF V!Publish
<1>21. CASE V!PowerOff
  BY <1>21 DEF V!PowerOff
<1>22. CASE V!Tick
  BY <1>22 DEF V!Tick, V!Counting
<1>23. QED
  BY <1>1, <1>2, <1>3, <1>4, <1>5, <1>6, <1>7, <1>8, <1>9, <1>10, <1>11,
     <1>12, <1>13, <1>14, <1>15, <1>16, <1>17, <1>18, <1>19, <1>20, <1>21, <1>22
  DEF V!Next, V!Controller, V!Shim, V!Guest

LEMMA VmClocksKeep ==
  ASSUME V!TypeOK, VmStages, VmClocks, V!Next
  PROVE  VmClocks'
<1> USE NativeAssumption DEF V!TypeOK, VmStages, VmClocks, V!vars, V!hostVars, V!guestVars, V!clockVars
<1>1. CASE V!LoadBundle
  BY <1>1 DEF V!LoadBundle
<1>2. CASE V!Invoke
  BY <1>2 DEF V!Invoke
<1>3. CASE V!InvokeFails
  BY <1>3 DEF V!InvokeFails, V!Returns
<1>4. CASE V!ShimEnded
  BY <1>4 DEF V!ShimEnded
<1>5. CASE V!ShimKilled
  BY <1>5 DEF V!ShimKilled, V!PowerLost
<1>6. CASE V!Decode
  BY <1>6 DEF V!Decode, V!Returns
<1>7. CASE V!Verify
  BY <1>7 DEF V!Verify
<1>8. CASE V!StartMachine
  BY <1>8 DEF V!StartMachine
<1>9. CASE V!ShimFails
  BY <1>9 DEF V!ShimFails, V!PowerLost
<1>10. CASE V!Respond
  BY <1>10 DEF V!Respond
<1>11. CASE V!MountFilesystems
  BY <1>11 DEF V!MountFilesystems, V!Advances
<1>12. CASE V!EnterRootfs
  BY <1>12 DEF V!EnterRootfs, V!Advances
<1>13. CASE V!ConfigureCgroup
  BY <1>13 DEF V!ConfigureCgroup, V!Advances
<1>14. CASE V!StartWorkload
  BY <1>14 DEF V!StartWorkload, V!Advances
<1>15. CASE V!AgentFails
  BY <1>15 DEF V!AgentFails
<1>16. CASE V!WorkloadEnds
  BY <1>16 DEF V!WorkloadEnds
<1>17. CASE V!OutputExceeds
  BY <1>17 DEF V!OutputExceeds
<1>18. CASE V!KillWorkload
  BY <1>18 DEF V!KillWorkload
<1>19. CASE V!Observed
  BY <1>19 DEF V!Observed
<1>20. CASE V!Publish
  BY <1>20 DEF V!Publish
<1>21. CASE V!PowerOff
  BY <1>21 DEF V!PowerOff
<1>22. CASE V!Tick
  BY <1>22 DEF V!Tick, V!Counting
<1>23. QED
  BY <1>1, <1>2, <1>3, <1>4, <1>5, <1>6, <1>7, <1>8, <1>9, <1>10, <1>11,
     <1>12, <1>13, <1>14, <1>15, <1>16, <1>17, <1>18, <1>19, <1>20, <1>21, <1>22
  DEF V!Next, V!Controller, V!Shim, V!Guest

LEMMA VmAnswersKeep ==
  ASSUME VmInv, V!Next
  PROVE  V!VmAnswerIsGuests'
<1> USE NativeAssumption DEF VmInv, V!TypeOK, VmStages, VmResponse, VmClocks, V!VmAnswerIsGuests, V!vars, V!hostVars, V!guestVars, V!clockVars
<1>1. CASE V!LoadBundle
  BY <1>1 DEF V!LoadBundle
<1>2. CASE V!Invoke
  BY <1>2 DEF V!Invoke
<1>3. CASE V!InvokeFails
  BY <1>3 DEF V!InvokeFails, V!Returns, V!NoResponse
<1>4. CASE V!ShimEnded
  BY <1>4 DEF V!ShimEnded
<1>5. CASE V!ShimKilled
  BY <1>5 DEF V!ShimKilled, V!PowerLost
<1>6. CASE V!Decode
  <2>1. UNCHANGED <<ending, guestTimedOut, exceeded, hostClock>>
    BY <1>6 DEF V!Decode
  <2>2. CASE transport = "timed_out"
    BY <1>6, <2>1, <2>2 DEF V!Decode, V!Returns, V!NoResponse
  <2>3. CASE transport = "exit5"
    BY <1>6, <2>1, <2>3 DEF V!Decode, V!Returns, V!NoResponse
  <2>4. CASE transport = "exit0"
    BY <1>6, <2>1, <2>4 DEF V!Decode, V!Returns, V!NoResponse, Observation
  <2>5. QED
    BY <1>6, <2>2, <2>3, <2>4 DEF V!Decode
<1>7. CASE V!Verify
  BY <1>7 DEF V!Verify
<1>8. CASE V!StartMachine
  BY <1>8 DEF V!StartMachine
<1>9. CASE V!ShimFails
  BY <1>9 DEF V!ShimFails, V!PowerLost
<1>10. CASE V!Respond
  BY <1>10 DEF V!Respond
<1>11. CASE V!MountFilesystems
  BY <1>11 DEF V!MountFilesystems, V!Advances
<1>12. CASE V!EnterRootfs
  BY <1>12 DEF V!EnterRootfs, V!Advances
<1>13. CASE V!ConfigureCgroup
  BY <1>13 DEF V!ConfigureCgroup, V!Advances
<1>14. CASE V!StartWorkload
  BY <1>14 DEF V!StartWorkload, V!Advances
<1>15. CASE V!AgentFails
  BY <1>15 DEF V!AgentFails
<1>16. CASE V!WorkloadEnds
  BY <1>16 DEF V!WorkloadEnds
<1>17. CASE V!OutputExceeds
  BY <1>17 DEF V!OutputExceeds
<1>18. CASE V!KillWorkload
  BY <1>18 DEF V!KillWorkload
<1>19. CASE V!Observed
  BY <1>19 DEF V!Observed
<1>20. CASE V!Publish
  BY <1>20 DEF V!Publish
<1>21. CASE V!PowerOff
  BY <1>21 DEF V!PowerOff
<1>22. CASE V!Tick
  BY <1>22 DEF V!Tick, V!Counting
<1>23. QED
  BY <1>1, <1>2, <1>3, <1>4, <1>5, <1>6, <1>7, <1>8, <1>9, <1>10, <1>11,
     <1>12, <1>13, <1>14, <1>15, <1>16, <1>17, <1>18, <1>19, <1>20, <1>21, <1>22
  DEF V!Next, V!Controller, V!Shim, V!Guest

LEMMA VmKeeps ==
  ASSUME VmInv, V!Next
  PROVE  VmInv'
BY VmTypesKeep, VmStagesKeep, VmResponseKeeps, VmClocksKeep, VmAnswersKeep DEF VmInv

LEMMA VmContained ==
  ASSUME platform = "macos", platform' = "macos", VmInv, V!Next
  PROVE  [Contained!Next]_(Contained!vars)
<1>a. Secured = confined /\ Secured' = confined'
  BY DEF Secured, V!VmSecured
<1>b. Workload = workload /\ Workload' = workload'
  BY DEF Workload
<1> USE <1>a, <1>b DEF Contained!Next, Contained!vars, VmInv, V!TypeOK, VmStages,
      V!vars, V!hostVars, V!guestVars, V!clockVars
<1>1. CASE V!LoadBundle
  BY <1>1 DEF V!LoadBundle
<1>2. CASE V!Invoke
  BY <1>2 DEF V!Invoke
<1>3. CASE V!InvokeFails
  BY <1>3 DEF V!InvokeFails, V!Returns, Contained!Answer
<1>4. CASE V!ShimEnded
  BY <1>4 DEF V!ShimEnded
<1>5. CASE V!ShimKilled
  BY <1>5 DEF V!ShimKilled, V!PowerLost, Contained!Stop
<1>6. CASE V!Decode
  BY <1>6 DEF V!Decode, V!Returns, Contained!Answer, VmResponse
<1>7. CASE V!Verify
  BY <1>7 DEF V!Verify
<1>8. CASE V!StartMachine
  BY <1>8 DEF V!StartMachine
<1>9. CASE V!ShimFails
  BY <1>9 DEF V!ShimFails, V!PowerLost, Contained!Stop
<1>10. CASE V!Respond
  BY <1>10 DEF V!Respond
<1>11. CASE V!MountFilesystems
  BY <1>11 DEF V!MountFilesystems, V!Advances
<1>12. CASE V!EnterRootfs
  BY <1>12 DEF V!EnterRootfs, V!Advances
<1>13. CASE V!ConfigureCgroup
  BY <1>13 DEF V!ConfigureCgroup, V!Advances, Contained!Secure
<1>14. CASE V!StartWorkload
  BY <1>14 DEF V!StartWorkload, V!Advances, Contained!Start
<1>15. CASE V!AgentFails
  BY <1>15 DEF V!AgentFails, Contained!Stop
<1>16. CASE V!WorkloadEnds
  BY <1>16 DEF V!WorkloadEnds, Contained!Stop
<1>17. CASE V!OutputExceeds
  BY <1>17 DEF V!OutputExceeds
<1>18. CASE V!KillWorkload
  BY <1>18 DEF V!KillWorkload, Contained!Stop
<1>19. CASE V!Observed
  BY <1>19 DEF V!Observed
<1>20. CASE V!Publish
  BY <1>20 DEF V!Publish
<1>21. CASE V!PowerOff
  BY <1>21 DEF V!PowerOff
<1>22. CASE V!Tick
  BY <1>22 DEF V!Tick, V!Counting
<1>23. QED
  BY <1>1, <1>2, <1>3, <1>4, <1>5, <1>6, <1>7, <1>8, <1>9, <1>10, <1>11,
     <1>12, <1>13, <1>14, <1>15, <1>16, <1>17, <1>18, <1>19, <1>20, <1>21, <1>22
  DEF V!Next, V!Controller, V!Shim, V!Guest

-----------------------------------------------------------------------------

NativeInv ==
  /\ platform \in {"windows", "linux", "macos"}
  /\ platform = "windows" => WindowsInv /\ WindowsOutputInv
  /\ platform = "linux" => LinuxInv
  /\ platform = "macos" => VmInv

LEMMA NativeStarts == NativeInit => NativeInv
BY WindowsStarts, WindowsOutputStarts, LinuxStarts, VmStarts DEF NativeInit, NativeInv

LEMMA NativeStutters ==
  ASSUME UNCHANGED nativeVars
  PROVE  /\ NativeInv' = NativeInv
         /\ UNCHANGED Contained!vars
<1> USE DEF nativeVars, vars, processVars, fileVars, observationVars, linuxOnly, macosOnly
<1>1. WindowsInv' = WindowsInv
  BY DEF WindowsInv, Prepared
<1>2. WindowsOutputInv' = WindowsOutputInv
  BY DEF WindowsOutputInv, WindowsOutputExact, TypeOK
<1>3. LinuxInv' = LinuxInv
  BY DEF LinuxInv, L!TypeOK
<1>4. VmInv' = VmInv
  BY DEF VmInv, V!TypeOK, VmStages, VmResponse, VmClocks, V!VmAnswerIsGuests, Observation
<1>5. NativeInv' = NativeInv
  BY <1>1, <1>2, <1>3, <1>4 DEF NativeInv
<1>6. UNCHANGED Contained!vars
  BY DEF Contained!vars, Secured, Workload, WindowsSecured, WindowsWorkload, Running,
         L!LinuxSecured, L!LinuxWorkload, V!VmSecured
<1>7. QED
  BY <1>5, <1>6

LEMMA NativeKeeps ==
  ASSUME NativeInv, [NativeNext]_nativeVars
  PROVE  NativeInv' /\ [Contained!Next]_(Contained!vars)
<1>1. CASE OnWindows(Next)
  <2>1. platform = "windows" /\ platform' = "windows" /\ Next
    BY <1>1 DEF OnWindows
  <2>2. QED
    BY <2>1, WindowsKeeps, WindowsOutputKeeps, WindowsContained DEF NativeInv
<1>2. CASE OnLinux(L!Next)
  <2>1. platform = "linux" /\ platform' = "linux" /\ L!Next
    BY <1>2 DEF OnLinux
  <2>2. QED
    BY <2>1, LinuxKeeps, LinuxContained DEF NativeInv
<1>3. CASE OnMacos(V!Next)
  <2>1. platform = "macos" /\ platform' = "macos" /\ V!Next
    BY <1>3 DEF OnMacos
  <2>2. QED
    BY <2>1, VmKeeps, VmContained DEF NativeInv
<1>4. CASE UNCHANGED nativeVars
  BY <1>4, NativeStutters
<1>5. QED
  BY <1>1, <1>2, <1>3, <1>4 DEF NativeNext

\* Every step of a native helper keeps, on every platform, the invariant that
\* ties how far the adapter is to what is in force and what runs (platform.rs
\* and controller.rs of the three helpers).
THEOREM NativeStepInvariant == NativeInit /\ [][NativeNext]_nativeVars => []NativeInv
<1>1. NativeInv /\ [NativeNext]_nativeVars => NativeInv'
  BY NativeKeeps
<1>2. QED
  BY NativeStarts, <1>1, PTL

\* What a native helper answers is what its workload did, on every platform and
\* for every limit and size of the trees (run_process, LinuxSandbox::run,
\* decode_transport).
THEOREM EveryAnswerIsExact == NativeSpec => []AnswersAreExact
<1>1. NativeSpec => NativeInit /\ [][NativeNext]_nativeVars
  BY PTL DEF NativeSpec
<1>2. NativeInv => AnswersAreExact
  BY DEF NativeInv, AnswersAreExact, WindowsOutputInv, LinuxInv, VmInv, L!LinuxExitIsWorkloads,
         L!TypeOK
<1>3. QED
  BY <1>1, <1>2, NativeStepInvariant, PTL

\* Every adapter implements ContainedStep: no workload runs before all controls
\* of its platform are in force, nor after it was answered for.
THEOREM EveryAdapterContains == NativeSpec => AdaptersContain
<1>1. NativeSpec => NativeInit /\ [][NativeNext]_nativeVars
  BY PTL DEF NativeSpec
<1>2. NativeInit => Contained!Init
  <2>1. SUFFICES ASSUME NativeInit PROVE ~Secured /\ Workload = "none" /\ answer = "none"
    BY DEF Contained!Init
  <2>2. CASE platform = "windows"
    BY <2>1, <2>2 DEF NativeInit, Init, Secured, Workload, WindowsSecured, WindowsWorkload, Running
  <2>3. CASE platform = "linux"
    <3>1. L!BrokerSetup \o L!ChildSetup # <<>>
      BY SetupIsSequences, LenProperties, EmptySeq
    <3>2. QED
      BY <2>1, <2>3, <3>1
      DEF NativeInit, L!Init, Secured, Workload, L!LinuxSecured, L!LinuxWorkload
  <2>4. CASE platform = "macos"
    BY <2>1, <2>4 DEF NativeInit, V!Init, Secured, Workload, V!VmSecured
  <2>5. QED
    BY <2>1, <2>2, <2>3, <2>4 DEF NativeInit
<1>3. NativeInv /\ [NativeNext]_nativeVars => [Contained!Next]_(Contained!vars)
  BY NativeKeeps
<1>4. QED
  BY <1>1, <1>2, <1>3, NativeStepInvariant, PTL DEF AdaptersContain, Contained!Spec
==============================================================================
