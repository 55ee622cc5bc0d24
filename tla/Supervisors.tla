----------------------------- MODULE Supervisors -----------------------------
(***************************************************************************)
(* The two supervisors of child processes side by side: a helper's, which  *)
(* runs the workload of a step (RunCommand), and the command line's, which *)
(* runs a helper, a credential provider or a probe (SuperviseProcess).     *)
(* One of them runs; the variables only the other has stay as they are.    *)
(***************************************************************************)
EXTENDS RunCommand

CONSTANTS
  StreamBytes,                                        \* SuperviseProcess's MaxBytes
  StreamLimit, InputSize, InputCapacity, ReadsInput   \* SuperviseProcess's

ASSUME SupervisorsAssumption ==
  /\ StreamBytes \in Nat /\ StreamLimit \in Nat
  /\ InputSize \in Nat /\ InputCapacity \in Nat \ {0}

VARIABLES
  supervisor,       \* "helper" or "command"
  toWrite, inPipe   \* SuperviseProcess's

\* The command line's processes are in its group from the start, and a helper
\* it starts may put a process of its own in another session.
C == INSTANCE SuperviseProcess WITH
       JoinsLate <- FALSE, MayLeave <- TRUE, MaxBytes <- StreamBytes

counters == <<chunk, previous, total>>
input == <<toWrite, inPipe>>
allVars == <<supervisor, vars, input>>

SupervisorsInit ==
  \/ supervisor = "helper" /\ Init /\ toWrite = 0 /\ inPipe = 0
  \/ /\ supervisor = "command" /\ C!Init
     /\ total = 0 /\ chunk = [s \in Streams |-> 0] /\ previous = chunk

OfHelper(A) == supervisor = "helper" /\ A /\ UNCHANGED <<supervisor, input>>
OfCommand(A) == supervisor = "command" /\ A /\ UNCHANGED <<supervisor, counters>>

SupervisorsNext == OfHelper(Next) \/ OfCommand(C!Next)

\* The fairness of both: their threads are scheduled and time passes.
SupervisorsSpec ==
  /\ SupervisorsInit /\ [][SupervisorsNext]_allVars
  /\ \A s \in Streams : WF_allVars(OfHelper(ReaderStep(s)))
  /\ WF_allVars(OfHelper(CallerStep))
  /\ WF_allVars(OfHelper(Expire))
  /\ \A s \in Streams : WF_allVars(OfCommand(C!ReaderStep(s)))
  /\ WF_allVars(OfCommand(C!CallerStep))
  /\ WF_allVars(OfCommand(C!Expire))
  /\ ReadsInput => WF_allVars(OfCommand(C!ReadInput))

-----------------------------------------------------------------------------

\* What a supervisor reports is what happened: the helper's counts every byte
\* of the tree and never takes a kill for an exit; the command line's gives the
\* caller what was written, and of a process it killed, or whose pipe it
\* closed, it says timed out or over the limit, so that cut output is never
\* taken for the whole of a protocol answer.
SupervisionIsExact ==
  IF supervisor = "helper" THEN ObservationExact /\ KilledIsReported
  ELSE C!TypeOK /\ C!OutputExact /\ C!SignalIsExplained

\* Both calls return unless one of the processes that are out of reach holds
\* the output open.
CallsReturn ==
  /\ supervisor = "helper" => ReturnsUnlessHeld
  /\ supervisor = "command" => C!ReturnsUnlessHeld
=============================================================================
