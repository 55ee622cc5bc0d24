------------------------------ MODULE RunCommand ------------------------------
(***************************************************************************)
(* helper_runtime::run_command_with_termination: how a helper runs one     *)
(* step's process under a wall-clock limit and a limit on the combined     *)
(* bytes of its two output streams.                                        *)
(*                                                                         *)
(* Two reader threads drain the pipes and share one counter of bytes and   *)
(* one flag; the calling thread polls the child, the clock and the flag,   *)
(* terminates, waits, and joins the readers.                               *)
(***************************************************************************)
EXTENDS ProcessTree

CONSTANTS
  OutputLimit,         \* output_limit
  TerminationMayFail   \* the backend's terminate may report an error

ASSUME RunAssumption ==
  /\ OutputLimit \in Nat
  /\ TerminationMayFail \in BOOLEAN

VARIABLES
  reader,      \* per stream, where its thread is: "read", "count", "keep", "end"
  chunk,       \* per stream, the bytes of the read under way
  previous,    \* per stream, the counter its thread found
  captured,    \* per stream, the bytes kept
  total,       \* the shared counter
  exceeded,    \* the shared flag
  expired,     \* started.elapsed() >= timeout
  stage,       \* where the calling thread is
  timed_out,
  killed       \* terminate() has been called

readerVars == <<reader, chunk, previous, captured, total, exceeded>>
callerVars == <<stage, timed_out, killed>>
vars == <<treeVars, readerVars, callerVars, expired>>

Init ==
  /\ TreeInit
  /\ reader = [s \in Streams |-> "read"]
  /\ chunk = [s \in Streams |-> 0]
  /\ previous = [s \in Streams |-> 0]
  /\ captured = [s \in Streams |-> 0]
  /\ total = 0 /\ exceeded = FALSE
  /\ expired = FALSE
  /\ stage = "poll" /\ timed_out = FALSE /\ killed = FALSE

-----------------------------------------------------------------------------
(***************************************************************************)
(* read_limited                                                            *)
(***************************************************************************)

\* reader.read returns some of the bytes that are there.
Read(s) ==
  /\ reader[s] = "read"
  /\ \E count \in 1 .. pipe[s] :
        /\ chunk' = [chunk EXCEPT ![s] = count]
        /\ pipe' = [pipe EXCEPT ![s] = @ - count]
  /\ reader' = [reader EXCEPT ![s] = "count"]
  /\ UNCHANGED <<alive, born, group, holders, written, code, previous,
                 captured, total, exceeded, callerVars, expired>>

\* reader.read returns 0: the pipe is empty and nobody can write to it.
ReadEnd(s) ==
  /\ reader[s] = "read"
  /\ pipe[s] = 0 /\ holders = {}
  /\ reader' = [reader EXCEPT ![s] = "end"]
  /\ UNCHANGED <<treeVars, chunk, previous, captured, total, exceeded,
                 callerVars, expired>>

\* total.fetch_add(count)
Count(s) ==
  /\ reader[s] = "count"
  /\ previous' = [previous EXCEPT ![s] = total]
  /\ total' = total + chunk[s]
  /\ reader' = [reader EXCEPT ![s] = "keep"]
  /\ UNCHANGED <<treeVars, chunk, captured, exceeded, callerVars, expired>>

\* What is kept of a read: as much as the limit leaves after `previous`.
Kept(s) ==
  IF previous[s] >= OutputLimit THEN 0
  ELSE IF chunk[s] <= OutputLimit - previous[s] THEN chunk[s]
  ELSE OutputLimit - previous[s]

Keep(s) ==
  /\ reader[s] = "keep"
  /\ exceeded' = (exceeded \/ previous[s] + chunk[s] > OutputLimit)
  /\ captured' = [captured EXCEPT ![s] = @ + Kept(s)]
  /\ reader' = [reader EXCEPT ![s] = "read"]
  /\ UNCHANGED <<treeVars, chunk, previous, total, callerVars, expired>>

ReaderStep(s) == Read(s) \/ ReadEnd(s) \/ Count(s) \/ Keep(s)

-----------------------------------------------------------------------------
(***************************************************************************)
(* The calling thread.                                                     *)
(***************************************************************************)

Caller(from, to) ==
  /\ stage = from
  /\ stage' = to

\* child.try_wait()
TryWait ==
  /\ Caller("poll", IF "child" \in alive THEN "clock" ELSE "joinStdout")
  /\ UNCHANGED <<treeVars, readerVars, timed_out, killed, expired>>

CheckClock ==
  /\ Caller("clock", IF expired THEN "terminate" ELSE "flag")
  /\ timed_out' = expired
  /\ UNCHANGED <<treeVars, readerVars, killed, expired>>

\* The flag, and the sleep before the next poll.
CheckFlag ==
  /\ Caller("flag", IF exceeded THEN "terminate" ELSE "poll")
  /\ UNCHANGED <<treeVars, readerVars, timed_out, killed, expired>>

Terminate ==
  /\ Caller("terminate", "wait")
  /\ killed' = TRUE
  /\ Kill(Victims)
  /\ UNCHANGED <<readerVars, timed_out, expired>>

\* terminate(&mut child)? with an error: the child and both threads are left.
TerminateFails ==
  /\ TerminationMayFail
  /\ Caller("terminate", "failed")
  /\ UNCHANGED <<treeVars, readerVars, timed_out, killed, expired>>

\* child.wait()
Wait ==
  /\ "child" \notin alive
  /\ Caller("wait", "joinStdout")
  /\ UNCHANGED <<treeVars, readerVars, timed_out, killed, expired>>

JoinStdout ==
  /\ reader["stdout"] = "end"
  /\ Caller("joinStdout", "joinStderr")
  /\ UNCHANGED <<treeVars, readerVars, timed_out, killed, expired>>

\* A slip a maintainer could make: the second thread is not waited for.
JoinStderr_Detached ==
  /\ Caller("joinStderr", "done")
  /\ UNCHANGED <<treeVars, readerVars, timed_out, killed, expired>>

JoinStderr ==
  /\ reader["stderr"] = "end"
  /\ Caller("joinStderr", "done")
  /\ UNCHANGED <<treeVars, readerVars, timed_out, killed, expired>>

CallerStep ==
  \/ TryWait \/ CheckClock \/ CheckFlag
  \/ Terminate \/ TerminateFails \/ Wait
  \/ JoinStdout \/ JoinStderr

Expire ==
  /\ ~expired
  /\ expired' = TRUE
  /\ UNCHANGED <<treeVars, readerVars, callerVars>>

ProcessStep == TreeStep /\ UNCHANGED <<readerVars, callerVars, expired>>

Next ==
  \/ ProcessStep
  \/ \E s \in Streams : ReaderStep(s)
  \/ CallerStep
  \/ Expire

Spec == Init /\ [][Next]_vars

\* The three threads are scheduled and time passes; the processes owe
\* nothing: they may run, and hold their pipes, for ever.
FairSpec ==
  /\ Spec
  /\ \A s \in Streams : WF_vars(ReaderStep(s))
  /\ WF_vars(CallerStep)
  /\ WF_vars(Expire)

-----------------------------------------------------------------------------

Stages == {"poll", "clock", "flag", "terminate", "wait", "joinStdout",
           "joinStderr", "done", "failed"}

TypeOK ==
  /\ TreeTypeOK
  /\ reader \in [Streams -> {"read", "count", "keep", "end"}]
  /\ chunk \in [Streams -> Nat]
  /\ previous \in [Streams -> Nat]
  /\ captured \in [Streams -> Nat]
  /\ total \in Nat
  /\ exceeded \in BOOLEAN
  /\ expired \in BOOLEAN
  /\ stage \in Stages
  /\ timed_out \in BOOLEAN
  /\ killed \in BOOLEAN

\* However the two threads' reads interleave, what they keep together never
\* exceeds the combined limit (read_limited).
OutputWithinLimit ==
  captured["stdout"] + captured["stderr"] <= OutputLimit

\* The observation returned is exact: it counts every byte the tree wrote,
\* keeps all of them or as many as the limit allows, and is flagged exactly
\* when there were more than that.
ObservationExact ==
  stage = "done" =>
    /\ total = written["stdout"] + written["stderr"]
    /\ exceeded <=> total > OutputLimit
    /\ captured["stdout"] + captured["stderr"] =
         IF total <= OutputLimit THEN total ELSE OutputLimit

\* A process the supervisor killed is never reported as one that ended by
\* itself, whichever of the clock and the flag was noticed first.
KilledIsReported == stage = "done" /\ killed => timed_out \/ exceeded

Returned == stage \in {"done", "failed"}

\* The call returns, whatever the processes do.
Returns == <>Returned

\* Two things only can keep the call: a descendant left behind by a child that
\* ended before the limits were reached, for as long as it holds the output,
\* and a broker that survived because it entered its cgroup too late.  A
\* child that runs on, a tree that fills its pipes, closes one of them or dies
\* at any moment is dealt with, and so is a tree that was killed.
ReturnsUnlessHeld ==
  \/ <>Returned
  \/ <>[](~killed /\ holders # {} /\ code # "none")
  \/ <>[](JoinsLate /\ killed /\ code # "signal")
=============================================================================
