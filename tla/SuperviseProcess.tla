--------------------------- MODULE SuperviseProcess ---------------------------
(***************************************************************************)
(* application::supervise_process: how the command line runs a helper, a   *)
(* credential provider or a doctor probe, under a wall-clock limit and a   *)
(* limit on each output stream, with an optional input.                    *)
(*                                                                         *)
(* Each reader thread takes one byte more than its limit and then closes   *)
(* its pipe.  The calling thread writes the whole input first, and only    *)
(* then starts the clock.  Descendants share the child's process group and *)
(* output; the input is the child's alone.                                 *)
(***************************************************************************)
EXTENDS ProcessTree

CONSTANTS
  StreamLimit,     \* stdout_limit = stderr_limit
  InputSize,       \* pieces of the input, 0 for none
  InputCapacity,   \* pieces the input pipe holds, at least one
  ReadsInput       \* the child reads its input in the end

VARIABLES
  reader,      \* per stream, where its thread is: "read", "flag", "end"
  captured,    \* per stream, the bytes kept
  exceeded,    \* the shared flag
  toWrite,     \* input not yet written
  inPipe,      \* input written and not read
  expired,     \* started.elapsed() >= timeout
  stage,       \* where the calling thread is
  timed_out, killed

readerVars == <<reader, captured, exceeded>>
inputVars == <<toWrite, inPipe>>
callerVars == <<stage, timed_out, killed>>
vars == <<treeVars, readerVars, inputVars, callerVars, expired>>

Init ==
  /\ TreeInit
  /\ reader = [s \in Streams |-> "read"]
  /\ captured = [s \in Streams |-> 0]
  /\ exceeded = FALSE
  /\ toWrite = InputSize /\ inPipe = 0
  /\ expired = FALSE
  /\ stage = "input" /\ timed_out = FALSE /\ killed = FALSE

-----------------------------------------------------------------------------
(***************************************************************************)
(* read_bounded                                                            *)
(***************************************************************************)

\* Part of read_to_end on take(limit + 1).
Read(s) ==
  /\ reader[s] = "read"
  /\ \E count \in 1 .. pipe[s] :
        /\ captured[s] + count <= StreamLimit + 1
        /\ captured' = [captured EXCEPT ![s] = @ + count]
        /\ pipe' = [pipe EXCEPT ![s] = @ - count]
  /\ UNCHANGED <<alive, born, group, holders, written, code, reader, exceeded,
                 inputVars, callerVars, expired>>

\* read_to_end returns: at the end of the stream, or with limit + 1 bytes.
ReadDone(s) ==
  /\ reader[s] = "read"
  /\ \/ pipe[s] = 0 /\ holders = {}
     \/ captured[s] = StreamLimit + 1
  /\ reader' = [reader EXCEPT ![s] = "flag"]
  /\ UNCHANGED <<treeVars, captured, exceeded, inputVars, callerVars, expired>>

\* The flag, the truncation, and the end of the thread, which drops the pipe.
Flag(s) ==
  /\ reader[s] = "flag"
  /\ exceeded' = (exceeded \/ captured[s] > StreamLimit)
  /\ captured' = [captured EXCEPT ![s] = IF @ > StreamLimit THEN StreamLimit ELSE @]
  /\ reader' = [reader EXCEPT ![s] = "end"]
  /\ UNCHANGED <<treeVars, inputVars, callerVars, expired>>

ReaderStep(s) == Read(s) \/ ReadDone(s) \/ Flag(s)

-----------------------------------------------------------------------------
(***************************************************************************)
(* The processes.                                                          *)
(***************************************************************************)

Dropped == {s \in Streams : reader[s] = "end"}

ProcessStep ==
  /\ TreeStep
  /\ \A s \in Dropped : written'[s] = written[s]
  /\ UNCHANGED <<readerVars, inputVars, callerVars, expired>>

\* A write to a pipe that was dropped ends the child.
BrokenPipe ==
  /\ "child" \in alive \cap holders
  /\ Dropped # {}
  /\ alive' = alive \ {"child"}
  /\ holders' = holders \ {"child"}
  /\ code' = "signal"
  /\ UNCHANGED <<born, group, pipe, written, readerVars, inputVars, callerVars,
                 expired>>

ReadInput ==
  /\ "child" \in alive
  /\ inPipe > 0
  /\ inPipe' = inPipe - 1
  /\ UNCHANGED <<treeVars, readerVars, toWrite, callerVars, expired>>

-----------------------------------------------------------------------------
(***************************************************************************)
(* The calling thread.                                                     *)
(***************************************************************************)

Caller(from, to) ==
  /\ stage = from
  /\ stage' = to

Rest == <<readerVars, inputVars, timed_out, killed, expired>>

\* stdin.write_all: blocks while the pipe is full.
WriteInput ==
  /\ Caller("input", "input")
  /\ toWrite > 0 /\ inPipe < InputCapacity /\ "child" \in alive
  /\ toWrite' = toWrite - 1
  /\ inPipe' = inPipe + 1
  /\ UNCHANGED <<treeVars, readerVars, timed_out, killed, expired>>

\* Everything written: the pipe is closed and the clock starts.
InputWritten ==
  /\ toWrite = 0
  /\ Caller("input", "poll")
  /\ UNCHANGED <<treeVars, Rest>>

\* write_all fails: nobody is left to read.
InputFails ==
  /\ toWrite > 0 /\ "child" \notin alive
  /\ Caller("input", "abandon")
  /\ UNCHANGED <<treeVars, Rest>>

\* A slip a maintainer could make: the child is killed and its tree is not.
TerminateTree_ChildAlone == Kill({"child"} \cap alive)

\* terminate_process_tree: the group, and the child itself.
TerminateTree == Kill(Victims \cup ({"child"} \cap alive))

\* The error path: terminate, wait, join both readers, ignore how they end.
Abandon ==
  /\ Caller("abandon", "abandoned")
  /\ killed' = TRUE
  /\ TerminateTree
  /\ UNCHANGED <<readerVars, inputVars, timed_out, expired>>

AbandonJoined ==
  /\ "child" \notin alive
  /\ \A s \in Streams : reader[s] = "end"
  /\ Caller("abandoned", "error")
  /\ UNCHANGED <<treeVars, Rest>>

\* child.try_wait(), and the guard of the branch that goes on polling.
Poll ==
  /\ Caller("poll", IF "child" \notin alive THEN "join"
                    ELSE IF ~expired /\ ~exceeded THEN "poll" ELSE "verdict")
  /\ UNCHANGED <<treeVars, Rest>>

\* The clock is read a second time, and the tree is terminated.
Verdict ==
  /\ Caller("verdict", "wait")
  /\ timed_out' = expired
  /\ killed' = TRUE
  /\ TerminateTree
  /\ UNCHANGED <<readerVars, inputVars, expired>>

Wait ==
  /\ "child" \notin alive
  /\ Caller("wait", "join")
  /\ UNCHANGED <<treeVars, Rest>>

\* Both readers are joined, the first before the second.
JoinReaders ==
  /\ \A s \in Streams : reader[s] = "end"
  /\ Caller("join", "done")
  /\ UNCHANGED <<treeVars, Rest>>

CallerStep ==
  \/ WriteInput \/ InputWritten \/ InputFails \/ Abandon \/ AbandonJoined
  \/ Poll \/ Verdict \/ Wait \/ JoinReaders

\* The clock starts with the first poll.
Expire ==
  /\ stage # "input"
  /\ ~expired
  /\ expired' = TRUE
  /\ UNCHANGED <<treeVars, readerVars, inputVars, callerVars>>

Next ==
  \/ ProcessStep \/ BrokenPipe \/ ReadInput
  \/ \E s \in Streams : ReaderStep(s)
  \/ CallerStep
  \/ Expire

Spec == Init /\ [][Next]_vars

\* The threads are scheduled and time passes.  Of the processes only the
\* reading of the input is owed, and only by a child that does read it.
FairSpec ==
  /\ Spec
  /\ \A s \in Streams : WF_vars(ReaderStep(s))
  /\ WF_vars(CallerStep)
  /\ WF_vars(Expire)
  /\ ReadsInput => WF_vars(ReadInput)

-----------------------------------------------------------------------------

TypeOK ==
  /\ TreeTypeOK
  /\ reader \in [Streams -> {"read", "flag", "end"}]
  /\ captured \in [Streams -> 0 .. StreamLimit + 1]
  /\ exceeded \in BOOLEAN
  /\ toWrite \in 0 .. InputSize
  /\ inPipe \in 0 .. InputCapacity
  /\ inPipe + toWrite <= InputSize
  /\ expired \in BOOLEAN
  /\ stage \in {"input", "poll", "verdict", "wait", "join", "done", "abandon",
               "abandoned", "error"}
  /\ timed_out \in BOOLEAN
  /\ killed \in BOOLEAN

\* What the caller gets without the flag is everything both streams carried,
\* and with the flag a stream did carry more than its limit: a truncated
\* protocol answer is never taken for a whole one (execute_sandbox_helper).
OutputExact ==
  stage = "done" =>
    /\ ~exceeded => \A s \in Streams : captured[s] = written[s]
    /\ exceeded => \E s \in Streams : written[s] > StreamLimit
    /\ \A s \in Streams : captured[s] <= StreamLimit

\* A helper that was killed, or that ended because its output pipe was closed
\* on it, is reported as timed out or over its limit, never as one that failed
\* by itself.
SignalIsExplained ==
  stage = "done" /\ code = "signal" => timed_out \/ exceeded

Returned == stage \in {"done", "error"}

\* The one thing that can keep the call is a process outside the helper's
\* group, or one left behind by a helper that ended by itself, for as long as
\* it holds the output: a helper that runs on, floods a stream or ends while
\* it is being written to is dealt with.
ReturnsUnlessHeld ==
  <>Returned \/ <>[](\E p \in holders : p # "child" /\ (p \notin group \/ ~killed))
=============================================================================
