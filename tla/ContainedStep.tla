----------------------------- MODULE ContainedStep -----------------------------
(***************************************************************************)
(* What a platform adapter promises for one step (execute_native: "it must *)
(* create the process only after all controls named by its available       *)
(* descriptor are atomically installed"): the workload runs only while     *)
(* every control is in force, it is answered for once and only when        *)
(* nothing of it runs any more, and an exit is reported of a workload that *)
(* ran.  WindowsStep, LinuxStep and VmStep implement it.                   *)
(***************************************************************************)

VARIABLES
  secured,     \* every control of the platform is in force
  workload,    \* "none", "running" or "gone"
  answer       \* "none", "error", "limit" or "exit"

vars == <<secured, workload, answer>>

Init == ~secured /\ workload = "none" /\ answer = "none"

Secure ==
  /\ ~secured /\ workload = "none" /\ answer = "none"
  /\ secured' = TRUE
  /\ UNCHANGED <<workload, answer>>

Start ==
  /\ secured /\ workload = "none" /\ answer = "none"
  /\ workload' = "running"
  /\ UNCHANGED <<secured, answer>>

Stop ==
  /\ workload = "running"
  /\ workload' = "gone"
  /\ UNCHANGED <<secured, answer>>

\* The answer; a step that returns may take what is left of the workload with
\* it, and its controls.
Answer ==
  /\ answer = "none"
  /\ answer' \in {"error", "limit"} \cup
                 (IF workload = "none" THEN {} ELSE {"exit"})
  /\ workload' = IF workload = "running" THEN "gone" ELSE workload
  /\ secured' \in {secured, FALSE}

Next == Secure \/ Start \/ Stop \/ Answer

Spec == Init /\ [][Next]_vars
=============================================================================
