--------------------------- MODULE SupervisorsProofs ---------------------------
(***************************************************************************)
(* What a supervised run returns, for every tree of processes, limit and   *)
(* interleaving of the two readers with the calling thread: first of the   *)
(* helper's supervisor, then of the command line's, then of whichever runs.*)
(***************************************************************************)
EXTENDS Supervisors, TLAPS

Least(a, b) == IF a <= b THEN a ELSE b

\* Bytes read and not yet counted, and what is about to be kept of a read.
Uncounted(s) == IF reader[s] = "count" THEN chunk[s] ELSE 0
Unkept(s) == IF reader[s] = "keep" THEN Kept(s) ELSE 0

\* Every byte written is in a pipe, in a thread's hands or in the counter.
BytesCounted ==
  written["stdout"] + written["stderr"] =
    total + Uncounted("stdout") + Uncounted("stderr")
      + pipe["stdout"] + pipe["stderr"]

\* The threads' claims on the limit never overlap.
BytesKept ==
  captured["stdout"] + captured["stderr"] + Unkept("stdout") + Unkept("stderr")
    = Least(total, OutputLimit)

ReadsCounted ==
  \A s \in Streams : reader[s] = "keep" => previous[s] + chunk[s] <= total

FlagMeansMore ==
  /\ exceeded => total > OutputLimit
  /\ total > OutputLimit =>
       \/ exceeded
       \/ \E s \in Streams :
            reader[s] = "keep" /\ previous[s] + chunk[s] > OutputLimit

EndMeansEmpty ==
  \A s \in Streams : reader[s] = "end" => pipe[s] = 0 /\ holders = {}

JoinedReaders ==
  /\ stage \in {"joinStderr", "done"} => reader["stdout"] = "end"
  /\ stage = "done" => reader["stderr"] = "end"

\* What the calling thread knows when it terminates.
TerminatedForCause ==
  /\ stage = "terminate" => timed_out \/ exceeded
  /\ killed => stage \in {"wait", "joinStdout", "joinStderr", "done"}
               /\ (timed_out \/ exceeded)

RInv ==
  /\ TypeOK
  /\ BytesCounted /\ BytesKept /\ ReadsCounted /\ FlagMeansMore
  /\ EndMeansEmpty /\ JoinedReaders /\ TerminatedForCause

-----------------------------------------------------------------------------

LEMMA StreamsAre == "stdout" \in Streams /\ "stderr" \in Streams
                    /\ \A s \in Streams : s = "stdout" \/ s = "stderr"
BY DEF Streams

LEMMA KeptIsNat ==
  ASSUME TypeOK, NEW s \in Streams
  PROVE  Kept(s) \in Nat
BY RunAssumption DEF TypeOK, Kept

\* The counter moves on by one read; the reading thread claims its share.
LEMMA ShareOfLimit ==
  ASSUME NEW t \in Nat, NEW c \in Nat, NEW l \in Nat
  PROVE  Least(t + c, l) = Least(t, l) +
           (IF t >= l THEN 0 ELSE IF c <= l - t THEN c ELSE l - t)
BY DEF Least

LEMMA RInvInit == Init => RInv
<1> SUFFICES ASSUME Init PROVE RInv
  OBVIOUS
<1> USE StreamsAre, TreeAssumption, RunAssumption DEF Init, TreeInit
<1>1. TypeOK
  <2>1. TreeTypeOK
    <3>1. 0 \in 0 .. PipeCapacity /\ 0 \in 0 .. MaxBytes
      OBVIOUS
    <3>2. QED BY <3>1 DEF TreeTypeOK, Processes, Codes
  <2>2. QED BY <2>1 DEF TypeOK, Stages
<1>2. BytesCounted /\ BytesKept
  BY DEF BytesCounted, BytesKept, Uncounted, Unkept, Least
<1>3. ReadsCounted /\ FlagMeansMore
  BY DEF ReadsCounted, FlagMeansMore
<1>4. EndMeansEmpty /\ JoinedReaders /\ TerminatedForCause
  BY DEF EndMeansEmpty, JoinedReaders, TerminatedForCause
<1>5. QED BY <1>1, <1>2, <1>3, <1>4 DEF RInv

\* The processes: they only write, close and exit.
LEMMA TreeTypes ==
  ASSUME TypeOK, ProcessStep
  PROVE  TypeOK'
<1> USE TreeAssumption
    DEF TypeOK, TreeTypeOK, ProcessStep, readerVars, callerVars, Processes
<1>1. CASE Join
  BY <1>1 DEF Join
<1>2. ASSUME NEW p \in Processes, NEW d \in Descendants, Spawn(p, d) PROVE TypeOK'
  BY <1>2 DEF Spawn
<1>3. ASSUME NEW d \in Descendants, Leave(d) PROVE TypeOK'
  BY <1>3 DEF Leave
<1>4. ASSUME NEW p \in Processes, NEW s \in Streams, WriteOutput(p, s)
      PROVE TypeOK'
  BY <1>4 DEF WriteOutput
<1>5. ASSUME NEW p \in Processes, CloseOutput(p) PROVE TypeOK'
  BY <1>5 DEF CloseOutput
<1>6. ASSUME NEW p \in Processes, Exit(p) PROVE TypeOK'
  BY <1>6 DEF Exit, Codes
<1>7. QED BY <1>1, <1>2, <1>3, <1>4, <1>5, <1>6 DEF TreeStep

\* A step that moves no byte and no reader.
LEMMA BytesStay ==
  ASSUME RInv, TypeOK', UNCHANGED <<written, pipe, readerVars>>,
         holders' \subseteq holders
  PROVE  /\ BytesCounted' /\ BytesKept' /\ ReadsCounted' /\ FlagMeansMore'
         /\ EndMeansEmpty'
<1> USE DEF readerVars, Uncounted, Unkept, Kept
<1>1. BytesCounted'
  BY DEF RInv, BytesCounted
<1>2. BytesKept'
  BY DEF RInv, BytesKept
<1>3. ReadsCounted' /\ FlagMeansMore'
  BY DEF RInv, ReadsCounted, FlagMeansMore
<1>4. EndMeansEmpty'
  BY DEF RInv, EndMeansEmpty, TypeOK, TreeTypeOK
<1>5. QED BY <1>1, <1>2, <1>3, <1>4

LEMMA ProcessPreserves ==
  ASSUME RInv, ProcessStep
  PROVE  RInv'
<1> USE DEF ProcessStep
<1>1. TypeOK'
  BY TreeTypes DEF RInv
<1>2. JoinedReaders' /\ TerminatedForCause'
  BY DEF RInv, JoinedReaders, TerminatedForCause, readerVars, callerVars
<1>3. CASE UNCHANGED <<written, pipe>> /\ holders' \subseteq holders
  BY <1>1, <1>2, <1>3, BytesStay DEF RInv
<1>4. ASSUME NEW p \in Processes, NEW s \in Streams, WriteOutput(p, s)
      PROVE  RInv'
  <2> USE <1>4 DEF WriteOutput, readerVars
  <2>1. BytesCounted'
    BY StreamsAre DEF RInv, TypeOK, TreeTypeOK, BytesCounted, Uncounted
  <2>2. BytesKept' /\ ReadsCounted' /\ FlagMeansMore'
    BY DEF RInv, BytesKept, ReadsCounted, FlagMeansMore, Unkept, Kept
  <2>3. EndMeansEmpty'
    BY DEF RInv, EndMeansEmpty
  <2>4. QED BY <1>1, <1>2, <2>1, <2>2, <2>3 DEF RInv
<1>5. ASSUME NEW p \in Processes, NEW d \in Descendants, Spawn(p, d)
      PROVE  RInv'
  <2> USE <1>5 DEF Spawn, readerVars, Uncounted, Unkept, Kept
  <2>1. BytesCounted' /\ BytesKept' /\ ReadsCounted' /\ FlagMeansMore'
    BY DEF RInv, BytesCounted, BytesKept, ReadsCounted, FlagMeansMore
  <2>2. EndMeansEmpty'
    BY DEF RInv, EndMeansEmpty
  <2>3. QED BY <1>1, <1>2, <2>1, <2>2 DEF RInv
<1>6. QED
  BY <1>3, <1>4, <1>5 DEF TreeStep, Join, Leave, CloseOutput, Exit

-----------------------------------------------------------------------------

LEMMA ReadPreserves ==
  ASSUME RInv, NEW s \in Streams, Read(s)
  PROVE  RInv'
<1>1. PICK count \in 1 .. pipe[s] :
        /\ chunk' = [chunk EXCEPT ![s] = count]
        /\ pipe' = [pipe EXCEPT ![s] = @ - count]
  BY DEF Read
<1>2. /\ pipe[s] \in 0 .. PipeCapacity /\ pipe[s] <= written[s]
      /\ PipeCapacity \in Nat /\ count \in Nat
      /\ pipe[s] - count \in 0 .. PipeCapacity /\ pipe[s] - count <= pipe[s]
  BY TreeAssumption DEF RInv, TypeOK, TreeTypeOK
<1> USE DEF Read
<1>3. TypeOK'
  <2>1. pipe' \in [Streams -> 0 .. PipeCapacity]
    BY <1>1, <1>2 DEF RInv, TypeOK, TreeTypeOK
  <2>2. \A r \in Streams : pipe'[r] <= written'[r]
    BY <1>1, <1>2, TreeAssumption DEF RInv, TypeOK, TreeTypeOK
  <2>3. chunk' \in [Streams -> Nat]
    BY <1>1, <1>2 DEF RInv, TypeOK
  <2>4. TreeTypeOK'
    BY <2>1, <2>2 DEF RInv, TypeOK, TreeTypeOK
  <2>5. QED BY <2>3, <2>4 DEF RInv, TypeOK, callerVars
<1>4. BytesCounted'
  <2>1. /\ pipe["stdout"] \in Nat /\ pipe["stderr"] \in Nat
        /\ chunk["stdout"] \in Nat /\ chunk["stderr"] \in Nat
    BY StreamsAre, TreeAssumption DEF RInv, TypeOK, TreeTypeOK
  <2>2. CASE s = "stdout"
    BY <1>1, <1>2, <2>1, <2>2, StreamsAre
       DEF RInv, TypeOK, TreeTypeOK, BytesCounted, Uncounted
  <2>3. CASE s = "stderr"
    BY <1>1, <1>2, <2>1, <2>3, StreamsAre
       DEF RInv, TypeOK, TreeTypeOK, BytesCounted, Uncounted
  <2>4. QED BY <2>2, <2>3, StreamsAre
<1>5. BytesKept'
  BY <1>1, StreamsAre DEF RInv, TypeOK, BytesKept, Unkept, Kept
<1>6. ReadsCounted' /\ FlagMeansMore'
  BY <1>1 DEF RInv, TypeOK, ReadsCounted, FlagMeansMore
<1>7. EndMeansEmpty' /\ JoinedReaders' /\ TerminatedForCause'
  BY <1>1 DEF RInv, TypeOK, TreeTypeOK, EndMeansEmpty, JoinedReaders,
              TerminatedForCause, callerVars
<1>8. QED BY <1>3, <1>4, <1>5, <1>6, <1>7 DEF RInv

LEMMA ReadEndPreserves ==
  ASSUME RInv, NEW s \in Streams, ReadEnd(s)
  PROVE  RInv'
<1> USE DEF ReadEnd, treeVars, callerVars
<1>1. TypeOK'
  BY DEF RInv, TypeOK, TreeTypeOK
<1>2. BytesCounted' /\ BytesKept'
  BY StreamsAre DEF RInv, TypeOK, BytesCounted, BytesKept, Uncounted, Unkept, Kept
<1>3. ReadsCounted' /\ FlagMeansMore'
  BY DEF RInv, TypeOK, ReadsCounted, FlagMeansMore
<1>4. EndMeansEmpty' /\ JoinedReaders' /\ TerminatedForCause'
  BY StreamsAre DEF RInv, TypeOK, EndMeansEmpty, JoinedReaders, TerminatedForCause
<1>5. QED BY <1>1, <1>2, <1>3, <1>4 DEF RInv

LEMMA CountPreserves ==
  ASSUME RInv, NEW s \in Streams, Count(s)
  PROVE  RInv'
<1> USE DEF Count, treeVars, callerVars
<1>1. TypeOK'
  BY DEF RInv, TypeOK, TreeTypeOK
<1>2. total \in Nat /\ chunk[s] \in Nat /\ total' = total + chunk[s]
  BY DEF RInv, TypeOK
<1>3. BytesCounted'
  <2>1. /\ pipe["stdout"] \in Nat /\ pipe["stderr"] \in Nat
        /\ chunk["stdout"] \in Nat /\ chunk["stderr"] \in Nat
    BY StreamsAre, TreeAssumption DEF RInv, TypeOK, TreeTypeOK
  <2>2. CASE s = "stdout"
    BY <1>2, <2>1, <2>2, StreamsAre DEF RInv, TypeOK, BytesCounted, Uncounted
  <2>3. CASE s = "stderr"
    BY <1>2, <2>1, <2>3, StreamsAre DEF RInv, TypeOK, BytesCounted, Uncounted
  <2>4. QED BY <2>2, <2>3, StreamsAre
<1>4. BytesKept'
  <2>1. Least(total, OutputLimit)' = Least(total, OutputLimit) + Kept(s)'
    BY <1>2, ShareOfLimit, RunAssumption DEF RInv, TypeOK, Kept, Least
  <2>2. Kept(s)' \in Nat
    BY <1>1, <1>2, RunAssumption DEF TypeOK, Kept
  <2>3. \A r \in Streams : r # s => Unkept(r)' = Unkept(r)
    BY DEF RInv, TypeOK, Unkept, Kept
  <2>4. Unkept(s) = 0 /\ Unkept(s)' = Kept(s)'
    BY DEF RInv, TypeOK, Unkept
  <2>5. \A r \in Streams : captured[r] \in Nat /\ Unkept(r) \in Nat
    BY KeptIsNat DEF RInv, TypeOK, Unkept
  <2>6. captured' = captured
    OBVIOUS
  <2>7. Least(total, OutputLimit) \in Nat
    BY RunAssumption DEF Least, RInv, TypeOK
  <2> HIDE DEF Count
  <2>8. CASE s = "stdout"
    BY <2>1, <2>2, <2>3, <2>4, <2>5, <2>6, <2>7, <2>8, StreamsAre
       DEF RInv, BytesKept
  <2>9. CASE s = "stderr"
    BY <2>1, <2>2, <2>3, <2>4, <2>5, <2>6, <2>7, <2>9, StreamsAre
       DEF RInv, BytesKept
  <2>10. QED BY <2>8, <2>9, StreamsAre
<1>5. ReadsCounted'
  BY <1>2 DEF RInv, TypeOK, ReadsCounted
<1>6. FlagMeansMore'
  <2>1. exceeded' => total' > OutputLimit
    BY <1>2, RunAssumption DEF RInv, FlagMeansMore
  <2>2. CASE total' > OutputLimit
    <3>1. /\ reader'[s] = "keep" /\ previous'[s] = total /\ chunk'[s] = chunk[s]
      BY DEF RInv, TypeOK
    <3>2. QED BY <1>2, <2>1, <2>2, <3>1 DEF FlagMeansMore
  <2>3. QED BY <2>1, <2>2 DEF FlagMeansMore
<1>7. EndMeansEmpty' /\ JoinedReaders' /\ TerminatedForCause'
  BY DEF RInv, TypeOK, EndMeansEmpty, JoinedReaders, TerminatedForCause
<1>8. QED BY <1>1, <1>3, <1>4, <1>5, <1>6, <1>7 DEF RInv

LEMMA KeepPreserves ==
  ASSUME RInv, NEW s \in Streams, Keep(s)
  PROVE  RInv'
<1> USE DEF Keep, treeVars, callerVars
<1>1. Kept(s) \in Nat /\ captured[s] \in Nat
  BY KeptIsNat DEF RInv, TypeOK
<1>2. TypeOK'
  BY <1>1 DEF RInv, TypeOK, TreeTypeOK
<1>3. BytesCounted'
  BY StreamsAre DEF RInv, TypeOK, BytesCounted, Uncounted
<1>4. BytesKept'
  <2>1. captured'[s] = captured[s] + Kept(s)
    BY DEF RInv, TypeOK
  <2>2. Unkept(s) = Kept(s) /\ Unkept(s)' = 0
    BY DEF RInv, TypeOK, Unkept
  <2>3. \A r \in Streams : r # s =>
          captured'[r] = captured[r] /\ Unkept(r)' = Unkept(r)
    BY DEF RInv, TypeOK, Unkept, Kept
  <2>4. \A r \in Streams : captured[r] \in Nat /\ Unkept(r) \in Nat
    BY KeptIsNat DEF RInv, TypeOK, Unkept
  <2>5. total' = total
    OBVIOUS
  <2> HIDE DEF Keep
  <2>6. CASE s = "stdout"
    BY <1>1, <2>1, <2>2, <2>3, <2>4, <2>5, <2>6, StreamsAre
       DEF RInv, BytesKept
  <2>7. CASE s = "stderr"
    BY <1>1, <2>1, <2>2, <2>3, <2>4, <2>5, <2>7, StreamsAre
       DEF RInv, BytesKept
  <2>8. QED BY <2>6, <2>7, StreamsAre
<1>5. ReadsCounted'
  BY DEF RInv, TypeOK, ReadsCounted
<1>6. FlagMeansMore'
  <2>1. previous[s] + chunk[s] <= total /\ total \in Nat
          /\ previous[s] \in Nat /\ chunk[s] \in Nat
    BY DEF RInv, TypeOK, ReadsCounted
  <2>2. exceeded' => total' > OutputLimit
    BY <2>1, RunAssumption DEF RInv, FlagMeansMore, TypeOK
  <2>3. ASSUME total' > OutputLimit, ~exceeded'
        PROVE  \E r \in Streams : /\ reader'[r] = "keep"
                                  /\ previous'[r] + chunk'[r] > OutputLimit
    <3>1. PICK r \in Streams :
            reader[r] = "keep" /\ previous[r] + chunk[r] > OutputLimit
      BY <2>3 DEF RInv, FlagMeansMore
    <3>2. r # s
      BY <2>3, <3>1
    <3>3. QED BY <3>1, <3>2 DEF RInv, TypeOK
  <2>4. QED BY <2>2, <2>3 DEF FlagMeansMore
<1>7. EndMeansEmpty' /\ JoinedReaders'
  BY DEF RInv, TypeOK, EndMeansEmpty, JoinedReaders
<1>8. TerminatedForCause'
  BY DEF RInv, TerminatedForCause
<1>9. QED BY <1>2, <1>3, <1>4, <1>5, <1>6, <1>7, <1>8 DEF RInv

-----------------------------------------------------------------------------

\* The calling thread moves no byte; a kill only closes writing ends.
LEMMA CallerPreserves ==
  ASSUME RInv, CallerStep
  PROVE  RInv'
<1> USE DEF Caller, treeVars
<1>1. UNCHANGED <<written, pipe, readerVars, expired>>
        /\ holders' \subseteq holders
  BY DEF CallerStep, TryWait, CheckClock, CheckFlag, Terminate,
         TerminateFails, Wait, JoinStdout, JoinStderr, Kill
<1>2. TypeOK'
  <2> USE DEF RInv, TypeOK, TreeTypeOK, Stages, readerVars
  <2>1. CASE Terminate
    BY <2>1 DEF Terminate, Kill, Codes
  <2>2. CASE ~Terminate
    BY <2>2 DEF CallerStep, TryWait, CheckClock, CheckFlag, TerminateFails,
                Wait, JoinStdout, JoinStderr
  <2>3. QED BY <2>1, <2>2
<1>3. /\ BytesCounted' /\ BytesKept' /\ ReadsCounted' /\ FlagMeansMore'
      /\ EndMeansEmpty'
  BY <1>1, <1>2, BytesStay
<1>4. JoinedReaders'
  BY <1>1 DEF RInv, JoinedReaders, readerVars, CallerStep, TryWait, CheckClock,
     CheckFlag, Terminate, TerminateFails, Wait, JoinStdout, JoinStderr
<1>5. TerminatedForCause'
  BY <1>1 DEF RInv, TerminatedForCause, readerVars, CallerStep, TryWait,
     CheckClock, CheckFlag, Terminate, TerminateFails, Wait, JoinStdout,
     JoinStderr
<1>6. QED BY <1>2, <1>3, <1>4, <1>5 DEF RInv

LEMMA RInvStep == RInv /\ [Next]_vars => RInv'
<1> SUFFICES ASSUME RInv, [Next]_vars PROVE RInv'
  OBVIOUS
<1>1. CASE ProcessStep
  BY <1>1, ProcessPreserves
<1>2. CASE \E s \in Streams : ReaderStep(s)
  BY <1>2, ReadPreserves, ReadEndPreserves, CountPreserves, KeepPreserves
     DEF ReaderStep
<1>3. CASE CallerStep
  BY <1>3, CallerPreserves
<1>4. CASE Expire \/ UNCHANGED vars
  <2> USE <1>4 DEF Expire, vars, treeVars, callerVars, readerVars
  <2>1. TypeOK'
    BY DEF RInv, TypeOK, TreeTypeOK
  <2>2. JoinedReaders' /\ TerminatedForCause'
    BY DEF RInv, JoinedReaders, TerminatedForCause
  <2>3. QED BY <2>1, <2>2, BytesStay DEF RInv
<1>5. QED BY <1>1, <1>2, <1>3, <1>4 DEF Next

LEMMA RInvAlways == Spec => []RInv
BY RInvInit, RInvStep, PTL DEF Spec

\* The types of the supervisor's state.
THEOREM RunTypeOK == Spec => []TypeOK
<1>1. RInv => TypeOK
  BY DEF RInv
<1>2. QED BY <1>1, RInvAlways, PTL

\* The two reader threads never keep more than the combined output limit,
\* although each decides alone how much of a read to keep.
THEOREM CombinedLimitHolds == Spec => []OutputWithinLimit
<1>1. RInv => OutputWithinLimit
  <2> SUFFICES ASSUME RInv PROVE OutputWithinLimit
    OBVIOUS
  <2>1. \A s \in Streams : captured[s] \in Nat /\ Unkept(s) \in Nat
    BY KeptIsNat DEF RInv, TypeOK, Unkept
  <2>2. total \in Nat
    BY DEF RInv, TypeOK
  <2>3. QED BY <2>1, <2>2, StreamsAre, RunAssumption
            DEF RInv, BytesKept, OutputWithinLimit, Least
<1>2. QED BY <1>1, RInvAlways, PTL

LEMMA InvMeansExact == RInv => ObservationExact /\ KilledIsReported
<1> SUFFICES ASSUME RInv PROVE ObservationExact /\ KilledIsReported
  OBVIOUS
<1>1. ASSUME stage = "done" PROVE ObservationExact
  <2>1. \A s \in Streams : reader[s] = "end" /\ pipe[s] = 0
    BY <1>1, StreamsAre DEF RInv, JoinedReaders, EndMeansEmpty
  <2>2. \A s \in Streams : Unkept(s) = 0 /\ Uncounted(s) = 0
    BY <2>1 DEF Unkept, Uncounted
  <2>3. /\ total \in Nat /\ captured["stdout"] \in Nat
        /\ captured["stderr"] \in Nat
    BY StreamsAre DEF RInv, TypeOK
  <2>4. total = written["stdout"] + written["stderr"]
    BY <2>1, <2>2, <2>3, StreamsAre DEF RInv, BytesCounted
  <2>5. exceeded <=> total > OutputLimit
    BY <2>1 DEF RInv, FlagMeansMore
  <2>6. captured["stdout"] + captured["stderr"] = Least(total, OutputLimit)
    BY <2>2, <2>3, StreamsAre DEF RInv, BytesKept
  <2>7. QED BY <2>4, <2>5, <2>6 DEF ObservationExact, Least
<1>2. KilledIsReported
  BY DEF RInv, TerminatedForCause, KilledIsReported
<1>3. QED BY <1>1, <1>2 DEF ObservationExact

\* What the call returns is exact: the byte count, the captured output and the
\* flag agree with what the process tree wrote.
THEOREM ObservationIsExact == Spec => []ObservationExact
<1>1. RInv => ObservationExact
  BY InvMeansExact
<1>2. QED BY <1>1, RInvAlways, PTL

\* A process the supervisor killed is reported as timed out or over its limit.
THEOREM KillsAreReported == Spec => []KilledIsReported
<1>1. RInv => KilledIsReported
  BY InvMeansExact
<1>2. QED BY <1>1, RInvAlways, PTL

-----------------------------------------------------------------------------

\* The command line's supervisor.  What it has read of a stream and what is in
\* the pipe is what was written, until the thread has cut what it keeps.
StreamsCounted ==
  \A s \in Streams : reader[s] # "end" => captured[s] + pipe[s] = written[s]

\* A thread stops at the end of the stream or past its limit.
StoppedForCause ==
  \A s \in Streams : reader[s] = "flag" =>
     \/ (pipe[s] = 0 /\ holders = {})
     \/ captured[s] = StreamLimit + 1

\* A thread has kept the whole stream, or has raised the flag.
EndedForCause ==
  \A s \in Streams : reader[s] = "end" =>
     /\ captured[s] <= StreamLimit
     /\ exceeded \/ (holders = {} /\ captured[s] = written[s])
     /\ captured[s] = written[s] \/ written[s] > StreamLimit

FlagMeansFlood == exceeded => \E s \in Streams : written[s] > StreamLimit

\* What the calling thread knows when it terminates, and of a child that did
\* not end by itself.
CallerKnows ==
  /\ stage = "verdict" => expired \/ exceeded
  /\ code = "signal" => timed_out \/ exceeded \/ stage \in {"abandoned", "error"}
  /\ stage = "done" => \A s \in Streams : reader[s] = "end"

CInv ==
  /\ C!TypeOK
  /\ StreamsCounted /\ StoppedForCause /\ EndedForCause
  /\ FlagMeansFlood /\ CallerKnows

LEMMA CInvInit == C!Init => CInv
<1> SUFFICES ASSUME C!Init PROVE CInv
  OBVIOUS
<1> USE StreamsAre, TreeAssumption, SupervisorsAssumption DEF C!Init, C!TreeInit, C!Streams
<1>1. C!TypeOK
  <2>1. 0 \in 0 .. PipeCapacity /\ 0 \in 0 .. StreamBytes /\ 0 \in 0 .. StreamLimit + 1
    OBVIOUS
  <2>2. C!TreeTypeOK
    BY <2>1 DEF C!TreeTypeOK, C!Processes, C!Codes
  <2>3. InputSize \in 0 .. InputSize /\ 0 \in 0 .. InputCapacity /\ 0 + InputSize <= InputSize
    OBVIOUS
  <2>4. QED BY <2>1, <2>2, <2>3 DEF C!TypeOK
<1>2. QED
  BY <1>1 DEF CInv, StreamsCounted, StoppedForCause, EndedForCause, FlagMeansFlood,
              CallerKnows, Streams

LEMMA CommandBytes ==
  ASSUME C!TypeOK, NEW s \in Streams
  PROVE  pipe[s] \in Nat /\ written[s] \in Nat /\ captured[s] \in Nat
<1>1. /\ pipe[s] \in 0 .. PipeCapacity /\ written[s] \in 0 .. StreamBytes
      /\ captured[s] \in 0 .. StreamLimit + 1
  BY DEF C!TypeOK, C!TreeTypeOK, C!Streams, Streams
<1>2. QED BY <1>1, TreeAssumption, SupervisorsAssumption

\* The processes keep the types.
LEMMA CommandTreeTypes ==
  ASSUME C!TypeOK, C!ProcessStep
  PROVE  C!TypeOK'
<1> USE TreeAssumption, SupervisorsAssumption
    DEF C!TypeOK, C!TreeTypeOK, C!ProcessStep, C!readerVars, C!inputVars, C!callerVars,
        C!Processes, C!Streams
<1>1. CASE C!Join
  BY <1>1 DEF C!Join
<1>2. ASSUME NEW p \in C!Processes, NEW d \in Descendants, C!Spawn(p, d) PROVE C!TypeOK'
  BY <1>2 DEF C!Spawn
<1>3. ASSUME NEW d \in Descendants, C!Leave(d) PROVE C!TypeOK'
  BY <1>3 DEF C!Leave
<1>4. ASSUME NEW p \in C!Processes, NEW s \in C!Streams, C!WriteOutput(p, s)
      PROVE C!TypeOK'
  BY <1>4 DEF C!WriteOutput
<1>5. ASSUME NEW p \in C!Processes, C!CloseOutput(p) PROVE C!TypeOK'
  BY <1>5 DEF C!CloseOutput
<1>6. ASSUME NEW p \in C!Processes, C!Exit(p) PROVE C!TypeOK'
  BY <1>6 DEF C!Exit, C!Codes
<1>7. QED BY <1>1, <1>2, <1>3, <1>4, <1>5, <1>6 DEF C!TreeStep

\* A step that moves no byte and no reader, and starts no holder.
LEMMA StreamsStay ==
  ASSUME CInv, UNCHANGED <<written, pipe, reader, captured, exceeded>>,
         holders = {} => holders' = {}
  PROVE  StreamsCounted' /\ StoppedForCause' /\ EndedForCause' /\ FlagMeansFlood'
BY DEF CInv, StreamsCounted, StoppedForCause, EndedForCause, FlagMeansFlood

LEMMA CommandProcessPreserves ==
  ASSUME CInv, C!ProcessStep
  PROVE  CInv'
<1> USE DEF C!ProcessStep, C!readerVars, C!inputVars, C!callerVars
<1>1. C!TypeOK'
  BY CommandTreeTypes DEF CInv
<1>2. code' = "signal" => code = "signal"
  BY DEF C!TreeStep, C!Join, C!Spawn, C!Leave, C!WriteOutput, C!CloseOutput, C!Exit
<1>3. CallerKnows'
  BY <1>2 DEF CInv, CallerKnows
<1>4. CASE UNCHANGED <<written, pipe>> /\ (holders = {} => holders' = {})
  BY <1>1, <1>3, <1>4, StreamsStay DEF CInv
<1>5. ASSUME NEW p \in C!Processes, NEW s \in C!Streams, C!WriteOutput(p, s)
      PROVE  CInv'
  <2>1. holders # {} /\ holders' = holders
    BY <1>5 DEF C!WriteOutput
  <2>2. s \in Streams /\ \A r \in Streams : pipe[r] \in Nat /\ written[r] \in Nat
                                              /\ captured[r] \in Nat
    BY CommandBytes DEF CInv, C!Streams, Streams
  <2>3. /\ pipe'[s] = pipe[s] + 1 /\ written'[s] = written[s] + 1
        /\ \A r \in Streams : r # s => pipe'[r] = pipe[r] /\ written'[r] = written[r]
    BY <1>5, <2>2 DEF C!WriteOutput, C!Streams, Streams, CInv, C!TypeOK, C!TreeTypeOK
  <2>4. reader[s] # "end"
    <3>1. written'[s] # written[s]
      BY <2>2, <2>3
    <3>2. QED BY <3>1 DEF C!Dropped
  <2>5. UNCHANGED <<reader, captured, exceeded>>
    OBVIOUS
  <2>6. StreamsCounted'
    <3>1. captured[s] + pipe[s] = written[s]
      BY <2>2, <2>4 DEF CInv, StreamsCounted
    <3>2. captured'[s] + pipe'[s] = written'[s]
      BY <2>2, <2>3, <2>5, <3>1
    <3>3. \A r \in Streams : r # s /\ reader'[r] # "end" => captured'[r] + pipe'[r] = written'[r]
      BY <2>3, <2>5 DEF CInv, StreamsCounted
    <3>4. QED BY <3>2, <3>3 DEF StreamsCounted
  <2>7. StoppedForCause' /\ EndedForCause'
    BY <2>1, <2>3, <2>4, <2>5 DEF CInv, StoppedForCause, EndedForCause
  <2>8. FlagMeansFlood'
    <3>1. \A r \in Streams : written[r] > StreamLimit => written'[r] > StreamLimit
      BY <2>2, <2>3, SupervisorsAssumption
    <3>2. QED BY <2>5, <3>1 DEF CInv, FlagMeansFlood
  <2>9. QED BY <1>1, <1>3, <2>6, <2>7, <2>8 DEF CInv
<1>6. ASSUME NEW p \in C!Processes, NEW d \in Descendants, C!Spawn(p, d)
      PROVE  UNCHANGED <<written, pipe>> /\ (holders = {} => holders' = {})
  BY <1>6 DEF C!Spawn
<1>7. QED
  BY <1>4, <1>5, <1>6 DEF C!TreeStep, C!Join, C!Leave, C!CloseOutput, C!Exit

\* A pipe that was closed before the stream's end was closed past the limit.
LEMMA BrokenPipePreserves ==
  ASSUME CInv, C!BrokenPipe
  PROVE  CInv'
<1> USE DEF C!BrokenPipe, C!readerVars, C!inputVars, C!callerVars
<1>1. C!TypeOK'
  BY DEF CInv, C!TypeOK, C!TreeTypeOK, C!Codes
<1>2. exceeded
  <2>1. PICK s \in Streams : reader[s] = "end"
    BY DEF C!Dropped, C!Streams, Streams
  <2>2. QED BY <2>1 DEF CInv, EndedForCause
<1>3. CallerKnows'
  BY <1>2 DEF CInv, CallerKnows
<1>4. QED
  BY <1>1, <1>3, StreamsStay DEF CInv

LEMMA CommandReaderPreserves ==
  ASSUME CInv, NEW s \in Streams, C!ReaderStep(s)
  PROVE  CInv'
<1> USE DEF C!inputVars, C!callerVars, C!treeVars
<1>1. CallerKnows'
  <2>1. UNCHANGED <<stage, expired, timed_out, code>> /\ (exceeded => exceeded')
    BY DEF C!ReaderStep, C!Read, C!ReadDone, C!Flag, CInv, C!TypeOK
  <2>2. reader[s] # "end"
    BY DEF C!ReaderStep, C!Read, C!ReadDone, C!Flag
  <2>3. QED BY <2>1, <2>2 DEF CInv, CallerKnows
<1>2. \A r \in Streams : pipe[r] \in Nat /\ written[r] \in Nat /\ captured[r] \in Nat
  BY CommandBytes DEF CInv
<1>3. CASE C!Read(s)
  <2>1. PICK count \in 1 .. pipe[s] :
          /\ captured[s] + count <= StreamLimit + 1
          /\ captured' = [captured EXCEPT ![s] = @ + count]
          /\ pipe' = [pipe EXCEPT ![s] = @ - count]
    BY <1>3 DEF C!Read
  <2>2. /\ count \in Nat \ {0} /\ pipe[s] - count \in Nat
        /\ pipe[s] - count <= pipe[s]
        /\ captured[s] + count \in Nat
    BY <1>2, <2>1
  <2>3. \A r \in Streams :
          /\ captured'[r] = IF r = s THEN captured[s] + count ELSE captured[r]
          /\ pipe'[r] = IF r = s THEN pipe[s] - count ELSE pipe[r]
    BY <2>1 DEF CInv, C!TypeOK, C!TreeTypeOK, C!Streams, Streams
  <2>4. /\ UNCHANGED <<alive, born, group, holders, written, code, reader, exceeded>>
        /\ reader[s] = "read"
    BY <1>3 DEF C!Read
  <2>5. C!TypeOK'
    <3>1. captured' \in [C!Streams -> 0 .. StreamLimit + 1]
      <4>1. captured[s] + count \in 0 .. StreamLimit + 1
        BY <2>1, <2>2, SupervisorsAssumption
      <4>2. QED BY <2>1, <4>1 DEF CInv, C!TypeOK
    <3>2. pipe[s] <= PipeCapacity /\ pipe[s] <= written[s]
      BY DEF CInv, C!TypeOK, C!TreeTypeOK, C!Streams, Streams
    <3>3. pipe[s] - count \in 0 .. PipeCapacity
      BY <1>2, <2>2, <3>2, TreeAssumption
    <3>4. pipe' \in [C!Streams -> 0 .. PipeCapacity]
      BY <2>1, <3>3 DEF CInv, C!TypeOK, C!TreeTypeOK
    <3>5. \A r \in C!Streams : pipe'[r] <= written'[r]
      BY <1>2, <2>2, <2>3, <2>4, <3>2 DEF CInv, C!TypeOK, C!TreeTypeOK, C!Streams, Streams
    <3>6. C!TreeTypeOK'
      BY <2>4, <3>4, <3>5 DEF CInv, C!TypeOK, C!TreeTypeOK
    <3>7. QED BY <1>3, <2>4, <3>1, <3>6 DEF CInv, C!TypeOK, C!Read
  <2>6. StreamsCounted'
    BY <1>2, <2>2, <2>3, <2>4 DEF CInv, StreamsCounted
  <2>7. StoppedForCause' /\ EndedForCause' /\ FlagMeansFlood'
    BY <2>3, <2>4 DEF CInv, StoppedForCause, EndedForCause, FlagMeansFlood
  <2>8. QED BY <1>1, <2>5, <2>6, <2>7 DEF CInv
<1>4. CASE C!ReadDone(s)
  <2>1. /\ UNCHANGED <<alive, born, group, holders, pipe, written, code, captured, exceeded>>
        /\ reader[s] = "read"
        /\ (pipe[s] = 0 /\ holders = {}) \/ captured[s] = StreamLimit + 1
        /\ \A r \in Streams : reader'[r] = IF r = s THEN "flag" ELSE reader[r]
    BY <1>4 DEF C!ReadDone, CInv, C!TypeOK, C!Streams, Streams
  <2>2. C!TypeOK'
    BY <1>4 DEF C!ReadDone, CInv, C!TypeOK, C!TreeTypeOK
  <2>3. StreamsCounted' /\ StoppedForCause' /\ EndedForCause' /\ FlagMeansFlood'
    BY <2>1 DEF CInv, StreamsCounted, StoppedForCause, EndedForCause, FlagMeansFlood
  <2>4. QED BY <1>1, <2>2, <2>3 DEF CInv
<1>5. CASE C!Flag(s)
  <2>1. /\ UNCHANGED <<alive, born, group, holders, pipe, written, code>>
        /\ reader[s] = "flag"
        /\ exceeded' = (exceeded \/ captured[s] > StreamLimit)
        /\ \A r \in Streams :
             /\ reader'[r] = IF r = s THEN "end" ELSE reader[r]
             /\ captured'[r] = IF r = s /\ captured[s] > StreamLimit THEN StreamLimit
                               ELSE captured[r]
    BY <1>5 DEF C!Flag, CInv, C!TypeOK, C!Streams, Streams
  <2>2. C!TypeOK'
    <3>1. StreamLimit \in 0 .. StreamLimit + 1
      BY SupervisorsAssumption
    <3>2. captured' \in [C!Streams -> 0 .. StreamLimit + 1]
      BY <1>5, <3>1 DEF C!Flag, CInv, C!TypeOK
    <3>3. exceeded' \in BOOLEAN
      BY <2>1 DEF CInv, C!TypeOK
    <3>4. QED BY <1>5, <3>2, <3>3 DEF C!Flag, CInv, C!TypeOK, C!TreeTypeOK
  <2>3. captured[s] + pipe[s] = written[s]
    BY <2>1 DEF CInv, StreamsCounted
  <2>4. captured[s] > StreamLimit => written[s] > StreamLimit
    BY <1>2, <2>3, SupervisorsAssumption
  <2>5. ~(captured[s] > StreamLimit) => holders = {} /\ captured[s] = written[s]
                                        /\ captured[s] <= StreamLimit
    <3>1. (pipe[s] = 0 /\ holders = {}) \/ captured[s] = StreamLimit + 1
      BY <2>1 DEF CInv, StoppedForCause
    <3>2. QED BY <1>2, <2>3, <3>1, SupervisorsAssumption
  <2>6. StreamsCounted' /\ StoppedForCause'
    BY <2>1 DEF CInv, StreamsCounted, StoppedForCause
  <2>7. EndedForCause'
    <3>1. ASSUME NEW r \in Streams, r # s, reader[r] = "end"
          PROVE  /\ captured'[r] <= StreamLimit
                 /\ exceeded' \/ (holders' = {} /\ captured'[r] = written'[r])
                 /\ captured'[r] = written'[r] \/ written'[r] > StreamLimit
      BY <2>1, <3>1 DEF CInv, EndedForCause
    <3>2. /\ captured'[s] <= StreamLimit
          /\ exceeded' \/ (holders' = {} /\ captured'[s] = written'[s])
          /\ captured'[s] = written'[s] \/ written'[s] > StreamLimit
      <4>1. CASE captured[s] > StreamLimit
        <5>1. captured'[s] = StreamLimit /\ written'[s] = written[s] /\ exceeded'
          BY <2>1, <4>1
        <5>2. captured'[s] <= StreamLimit
          BY <5>1, SupervisorsAssumption
        <5>3. written'[s] > StreamLimit
          BY <2>4, <4>1, <5>1
        <5>4. QED BY <5>1, <5>2, <5>3
      <4>2. CASE ~(captured[s] > StreamLimit)
        BY <2>1, <2>5, <4>2
      <4>3. QED BY <4>1, <4>2
    <3>3. QED BY <2>1, <3>1, <3>2 DEF EndedForCause
  <2>8. FlagMeansFlood'
    BY <2>1, <2>4 DEF CInv, FlagMeansFlood
  <2>9. QED BY <1>1, <2>2, <2>6, <2>7, <2>8 DEF CInv
<1>6. QED BY <1>3, <1>4, <1>5 DEF C!ReaderStep

\* The calling thread: a kill closes writing ends, and is never without cause.
LEMMA CommandCallerPreserves ==
  ASSUME CInv, C!CallerStep
  PROVE  CInv'
<1> USE DEF C!Caller, C!treeVars, C!Rest, C!readerVars, C!inputVars
<1>1. UNCHANGED <<written, pipe, reader, captured, exceeded, expired>>
        /\ holders' \subseteq holders
  BY DEF C!CallerStep, C!WriteInput, C!InputWritten, C!InputFails, C!Abandon,
         C!AbandonJoined, C!Poll, C!Verdict, C!Wait, C!JoinReaders, C!TerminateTree, C!Kill
<1>2. C!TypeOK'
  <2> USE DEF CInv, C!TypeOK, C!TreeTypeOK
  <2>1. CASE C!Abandon \/ C!Verdict
    BY <2>1 DEF C!Abandon, C!Verdict, C!TerminateTree, C!Kill, C!Codes, C!Victims
  <2>2. CASE C!WriteInput
    BY <2>2, SupervisorsAssumption DEF C!WriteInput
  <2>3. CASE ~(C!Abandon \/ C!Verdict \/ C!WriteInput)
    BY <2>3 DEF C!CallerStep, C!InputWritten, C!InputFails, C!AbandonJoined, C!Poll,
                C!Wait, C!JoinReaders
  <2>4. QED BY <2>1, <2>2, <2>3
<1>3. CallerKnows'
  <2> USE <1>1 DEF CInv, CallerKnows
  <2>1. CASE C!Verdict
    BY <2>1 DEF C!Verdict
  <2>2. CASE C!Abandon
    BY <2>2 DEF C!Abandon
  <2>3. CASE C!Poll
    BY <2>3 DEF C!Poll
  <2>4. CASE C!JoinReaders
    BY <2>4 DEF C!JoinReaders, C!Streams, Streams
  <2>5. CASE C!WriteInput \/ C!InputWritten \/ C!InputFails \/ C!AbandonJoined \/ C!Wait
    BY <2>5 DEF C!WriteInput, C!InputWritten, C!InputFails, C!AbandonJoined, C!Wait
  <2>6. QED BY <2>1, <2>2, <2>3, <2>4, <2>5 DEF C!CallerStep
<1>4. QED BY <1>1, <1>2, <1>3, StreamsStay DEF CInv

LEMMA CInvStep == CInv /\ [C!Next]_(C!vars) => CInv'
<1> SUFFICES ASSUME CInv, [C!Next]_(C!vars) PROVE CInv'
  OBVIOUS
<1>1. CASE C!ProcessStep \/ C!BrokenPipe
  BY <1>1, CommandProcessPreserves, BrokenPipePreserves
<1>2. CASE \E s \in C!Streams : C!ReaderStep(s)
  BY <1>2, CommandReaderPreserves DEF C!Streams, Streams
<1>3. CASE C!CallerStep
  BY <1>3, CommandCallerPreserves
<1>4. CASE C!ReadInput \/ C!Expire \/ UNCHANGED C!vars
  <2> USE <1>4 DEF C!ReadInput, C!Expire, C!vars, C!treeVars, C!readerVars, C!inputVars,
                   C!callerVars
  <2>1. C!TypeOK'
    <3>1. CASE C!ReadInput
      <4>1. inPipe' \in 0 .. InputCapacity /\ inPipe' + toWrite <= InputSize
        BY <3>1, SupervisorsAssumption DEF CInv, C!TypeOK
      <4>2. QED BY <3>1, <4>1 DEF CInv, C!TypeOK, C!TreeTypeOK
    <3>2. CASE ~C!ReadInput
      BY <3>2 DEF CInv, C!TypeOK, C!TreeTypeOK
    <3>3. QED BY <3>1, <3>2
  <2>2. CallerKnows'
    BY DEF CInv, CallerKnows
  <2>3. QED BY <2>1, <2>2, StreamsStay DEF CInv
<1>5. QED BY <1>1, <1>2, <1>3, <1>4 DEF C!Next

LEMMA CInvMeansExact == CInv => C!TypeOK /\ C!OutputExact /\ C!SignalIsExplained
<1> SUFFICES ASSUME CInv PROVE C!TypeOK /\ C!OutputExact /\ C!SignalIsExplained
  OBVIOUS
<1>1. C!OutputExact
  BY DEF CInv, EndedForCause, FlagMeansFlood, CallerKnows, C!OutputExact, C!Streams, Streams
<1>2. C!SignalIsExplained
  BY DEF CInv, CallerKnows, C!SignalIsExplained
<1>3. QED BY <1>1, <1>2 DEF CInv

\* Whichever supervisor runs, it tells its caller what the processes wrote and
\* how they ended: the helper's counts every byte (read_limited), the command
\* line's cuts what it gives away only under the flag (read_bounded).
THEOREM EverySupervisionIsExact == SupervisorsSpec => []SupervisionIsExact
<1> DEFINE Inv == /\ supervisor \in {"helper", "command"}
                  /\ supervisor = "helper" => RInv
                  /\ supervisor = "command" => CInv
<1>1. SupervisorsInit => Inv
  BY RInvInit, CInvInit DEF SupervisorsInit
<1>2. Inv /\ [SupervisorsNext]_allVars => Inv'
  <2> SUFFICES ASSUME Inv, [SupervisorsNext]_allVars PROVE Inv'
    OBVIOUS
  <2>1. CASE OfHelper(Next)
    BY <2>1, RInvStep DEF OfHelper
  <2>2. CASE OfCommand(C!Next)
    BY <2>2, CInvStep DEF OfCommand
  <2>3. CASE UNCHANGED allVars
    <3>1. UNCHANGED vars /\ UNCHANGED C!vars /\ supervisor' = supervisor
      BY <2>3 DEF allVars, vars, input, treeVars, readerVars, callerVars, C!vars, C!treeVars,
                  C!readerVars, C!inputVars, C!callerVars
    <3>2. QED BY <3>1, RInvStep, CInvStep
  <2>4. QED BY <2>1, <2>2, <2>3 DEF SupervisorsNext
<1>3. Inv => SupervisionIsExact
  BY InvMeansExact, CInvMeansExact DEF SupervisionIsExact
<1>4. SupervisorsSpec => SupervisorsInit /\ [][SupervisorsNext]_allVars
  BY PTL DEF SupervisorsSpec
<1>5. QED BY <1>1, <1>2, <1>3, <1>4, PTL
=============================================================================
