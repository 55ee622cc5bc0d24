------------------------------ MODULE LspSession ------------------------------
(***************************************************************************)
(* What the language server promises its client, with no threads, channel, *)
(* registries or tokens: what may appear on the client's side of the pipe. *)
(*                                                                         *)
(* A request is answered once, and "cancelled" only if the client gave a   *)
(* reason: it cancelled the request, or moved a document on after sending  *)
(* it.  A display only moves forward through versions the client had, or   *)
(* is cleared.                                                             *)
(***************************************************************************)
EXTENDS Naturals

CONSTANTS Uris, Ids, MaxVersion

VARIABLES
  opened,       \* per document, the version the client shows, 0 when closed
  newest,       \* per document, the newest version the client ever showed
  displayed,    \* per document, the version whose diagnostics it displays
  status,       \* per id: unused, waiting, or its last answer
  excused       \* waiting ids that may be answered "cancelled"

sessionVars == <<opened, newest, displayed, status, excused>>

Waiting == {id \in Ids : status[id] = "waiting"}

Init ==
  /\ opened = [u \in Uris |-> 0]
  /\ newest = [u \in Uris |-> 0]
  /\ displayed = [u \in Uris |-> 0]
  /\ status = [id \in Ids |-> "unused"]
  /\ excused = {}

\* The client opens a document or edits it; everything asked before is
\* overtaken and may be abandoned.
Edit(u, v) ==
  /\ v > newest[u]
  /\ opened' = [opened EXCEPT ![u] = v]
  /\ newest' = [newest EXCEPT ![u] = v]
  /\ excused' = Waiting
  /\ UNCHANGED <<displayed, status>>

Close(u) ==
  /\ opened[u] # 0
  /\ opened' = [opened EXCEPT ![u] = 0]
  /\ excused' = Waiting
  /\ UNCHANGED <<newest, displayed, status>>

Ask(id) ==
  /\ status[id] # "waiting"
  /\ status' = [status EXCEPT ![id] = "waiting"]
  /\ UNCHANGED <<opened, newest, displayed, excused>>

Withdraw(id) ==
  /\ status[id] = "waiting"
  /\ excused' = excused \cup {id}
  /\ UNCHANGED <<opened, newest, displayed, status>>

Answer(id, outcome) ==
  /\ status[id] = "waiting"
  /\ outcome = "cancelled" => id \in excused
  /\ status' = [status EXCEPT ![id] = outcome]
  /\ excused' = excused \ {id}
  /\ UNCHANGED <<opened, newest, displayed>>

AnswerSomehow(id) ==
  \E outcome \in {"result", "notOpen", "cancelled"} : Answer(id, outcome)

\* One batch of notifications.
Display ==
  /\ displayed' \in [Uris -> 0 .. MaxVersion]
  /\ \A u \in Uris :
       \/ displayed'[u] \in {0, displayed[u]}
       \/ displayed'[u] \in displayed[u] .. newest[u]
  /\ UNCHANGED <<opened, newest, status, excused>>

Next ==
  \/ \E u \in Uris : Close(u) \/ \E v \in 1 .. MaxVersion : Edit(u, v)
  \/ \E id \in Ids : Ask(id) \/ Withdraw(id) \/ AnswerSomehow(id)
  \/ Display

Spec == Init /\ [][Next]_sessionVars

\* Every request is answered.
FairSpec == Spec /\ \A id \in Ids : WF_sessionVars(AnswerSomehow(id))
=============================================================================
