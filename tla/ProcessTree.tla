----------------------------- MODULE ProcessTree -----------------------------
(***************************************************************************)
(* The processes a supervisor starts: a child, the descendants it starts   *)
(* in turn, and the two pipes they inherit as stdout and stderr.  They run *)
(* as they like; a supervisor extends this module with its own steps.      *)
(*                                                                         *)
(* A termination reaches the child alone (run_command), or the group the   *)
(* child and its descendants belong to: a cgroup nobody can leave, or a    *)
(* process group, which a descendant leaves with setsid.  The Linux broker *)
(* enters its cgroup itself, some time after it was started.               *)
(***************************************************************************)
EXTENDS Naturals

CONSTANTS
  Descendants,     \* processes the child may start, directly or not
  Termination,     \* "child" or "group": what a termination reaches
  JoinsLate,       \* the child enters the group by a step of its own
  MayLeave,        \* a descendant may leave the group
  PipeCapacity,    \* bound on the bytes a pipe holds
  MaxBytes         \* bound on the bytes written to a stream

Processes == {"child"} \cup Descendants
Streams == {"stdout", "stderr"}

ASSUME TreeAssumption ==
  /\ "child" \notin Descendants
  /\ Termination \in {"child", "group"}
  /\ JoinsLate \in BOOLEAN /\ MayLeave \in BOOLEAN
  /\ PipeCapacity \in Nat \ {0} /\ MaxBytes \in Nat

VARIABLES
  alive,           \* running processes; the child, once gone, can be waited for
  born,            \* processes started so far
  group,           \* processes in the group a termination reaches
  holders,         \* processes that hold the writing ends of the pipes
  pipe,            \* per stream, the bytes written and not read
  written,         \* per stream, the bytes written so far
  code             \* how the child ended

treeVars == <<alive, born, group, holders, pipe, written, code>>

Codes == {"none", "zero", "failure", "signal"}

TreeInit ==
  /\ alive = {"child"} /\ born = {"child"} /\ holders = {"child"}
  /\ group = IF JoinsLate THEN {} ELSE {"child"}
  /\ pipe = [s \in Streams |-> 0]
  /\ written = [s \in Streams |-> 0]
  /\ code = "none"

\* run_broker: cgroup::attach_current, before the workload is started.
Join ==
  /\ "child" \in alive \ group
  /\ group' = group \cup {"child"}
  /\ UNCHANGED <<alive, born, holders, pipe, written, code>>

Spawn(p, d) ==
  /\ p \in alive \cap group
  /\ d \in Descendants \ born
  /\ alive' = alive \cup {d}
  /\ born' = born \cup {d}
  /\ group' = group \cup {d}
  /\ holders' = IF p \in holders THEN holders \cup {d} ELSE holders
  /\ UNCHANGED <<pipe, written, code>>

Leave(d) ==
  /\ MayLeave
  /\ d \in alive \cap Descendants \cap group
  /\ group' = group \ {d}
  /\ UNCHANGED <<alive, born, holders, pipe, written, code>>

WriteOutput(p, s) ==
  /\ p \in alive \cap holders
  /\ pipe[s] < PipeCapacity
  /\ written[s] < MaxBytes
  /\ pipe' = [pipe EXCEPT ![s] = @ + 1]
  /\ written' = [written EXCEPT ![s] = @ + 1]
  /\ UNCHANGED <<alive, born, group, holders, code>>

CloseOutput(p) ==
  /\ p \in alive \cap holders
  /\ holders' = holders \ {p}
  /\ UNCHANGED <<alive, born, group, pipe, written, code>>

Exit(p) ==
  /\ p \in alive
  /\ alive' = alive \ {p}
  /\ holders' = holders \ {p}
  /\ code' \in IF p = "child" THEN {"zero", "failure"} ELSE {code}
  /\ UNCHANGED <<born, group, pipe, written>>

TreeStep ==
  \/ Join
  \/ \E p \in Processes, d \in Descendants : Spawn(p, d)
  \/ \E d \in Descendants : Leave(d)
  \/ \E p \in Processes, s \in Streams : WriteOutput(p, s)
  \/ \E p \in Processes : CloseOutput(p) \/ Exit(p)

\* Those a termination kills.
Victims ==
  alive \cap (IF Termination = "child" THEN {"child"} ELSE group)

\* SIGKILL to each of them; one that has exited is not disturbed.
Kill(victims) ==
  /\ alive' = alive \ victims
  /\ holders' = holders \ victims
  /\ code' = IF "child" \in victims \cap alive THEN "signal" ELSE code
  /\ UNCHANGED <<born, group, pipe, written>>

TreeTypeOK ==
  /\ alive \subseteq born
  /\ born \subseteq Processes
  /\ group \subseteq born
  /\ holders \subseteq alive
  /\ pipe \in [Streams -> 0 .. PipeCapacity]
  /\ written \in [Streams -> 0 .. MaxBytes]
  /\ \A s \in Streams : pipe[s] <= written[s]
  /\ code \in Codes
  /\ code = "none" <=> "child" \in alive
=============================================================================
