------------------------ MODULE RequestCancellations ------------------------
(***************************************************************************)
(* The registry through which the two threads of the language server       *)
(* agree on which requests are cancelled (application/lsp.rs).             *)
(*                                                                         *)
(* The reader thread calls Cancel as soon as a `$/cancelRequest` arrives;  *)
(* the serving thread brackets every request with Start and Finish, and    *)
(* calls Cancel a second time when it dequeues the same notification.      *)
(* Every call holds the registry's mutex, so each is one atomic step.      *)
(*                                                                         *)
(* A CancellationToken is an atomic flag shared by whoever cloned it.  The *)
(* token Start creates for request id is named by the id itself, and       *)
(* `cancelled` is the set of tokens whose flag is raised; naming is sound  *)
(* because the serving thread runs one request at a time, so an id names   *)
(* at most one live token.                                                 *)
(***************************************************************************)
EXTENDS Naturals, Sequences, FiniteSets

CONSTANTS
  Ids,                     \* request ids, after id_key has normalised them
  MaxCompletedRequestIds   \* MAX_COMPLETED_REQUEST_IDS, 4096 in the code

(* What the registry's users and proofs assume of the bound.               *)
HistoryBound == MaxCompletedRequestIds \in Nat \ {0}

VARIABLES
  active,           \* ids between Start and Finish
  pending,          \* ids cancelled before they started
  completed,        \* ids that finished recently ...
  completedOrder,   \* ... and the order they finished in, oldest first
  cancelled         \* tokens whose flag is raised

registryVars == <<active, pending, completed, completedOrder, cancelled>>

\* VecDeque::retain(|completed| completed != key) on a history without
\* repetitions: the one occurrence of id, which has to be there, is dropped.
Retain(history, id) ==
  LET place == CHOOSE i \in DOMAIN history : history[i] = id
  IN  [i \in 1 .. Len(history) - 1 |->
         IF i < place THEN history[i] ELSE history[i + 1]]

\* Slips a maintainer could make here.  No specification uses them: each is
\* what some property below must be able to catch.
Start_IgnoresPending(id) ==
  /\ completed' = completed \ {id}
  /\ completedOrder' = SelectSeq(completedOrder, LAMBDA c : c # id)
  /\ cancelled' = cancelled \ {id}
  /\ active' = active \cup {id}
  /\ UNCHANGED pending

\* The loop that pops the front while the history is longer than its bound.
Evict(history) ==
  IF Len(history) > MaxCompletedRequestIds
  THEN SubSeq(history, Len(history) - MaxCompletedRequestIds + 1, Len(history))
  ELSE history

Entries(history) == {history[i] : i \in DOMAIN history}

EmptyRegistry ==
  /\ active = {}
  /\ pending = {}
  /\ completed = {}
  /\ completedOrder = <<>>

-----------------------------------------------------------------------------

\* RequestCancellations::start: a new token, raised at once when the id was
\* cancelled before it started.  The pending entry stays until Finish.
Start(id) ==
  /\ completed' = completed \ {id}
  /\ completedOrder' = IF id \in completed
                       THEN Retain(completedOrder, id)
                       ELSE completedOrder
  /\ cancelled' = IF id \in pending THEN cancelled \cup {id}
                                    ELSE cancelled \ {id}
  /\ active' = active \cup {id}
  /\ UNCHANGED pending

\* RequestCancellations::cancel: raise the running request's token, remember
\* the id of one that has not started, ignore one that has completed.
Cancel(id) ==
  /\ cancelled' = IF id \in active THEN cancelled \cup {id} ELSE cancelled
  /\ pending' = IF id \in active \cup completed THEN pending
                                                ELSE pending \cup {id}
  /\ UNCHANGED <<active, completed, completedOrder>>

\* RequestCancellations::finish: the id joins the completed history, whose
\* oldest entries are forgotten beyond the bound.
Finish(id) ==
  /\ active' = active \ {id}
  /\ pending' = pending \ {id}
  /\ completedOrder' = Evict(IF id \in completed
                             THEN completedOrder
                             ELSE Append(completedOrder, id))
  /\ completed' = (completed \cup {id})
                    \ (Entries(completedOrder) \ Entries(completedOrder'))
  /\ UNCHANGED cancelled

-----------------------------------------------------------------------------
(***************************************************************************)
(* The registry under any client: cancellations of any id at any moment,   *)
(* and a serving thread that runs one request at a time (Server::request). *)
(***************************************************************************)

Init ==
  /\ EmptyRegistry
  /\ cancelled = {}

StartRequest(id) == active = {} /\ Start(id)
FinishRequest(id) == id \in active /\ Finish(id)

Next ==
  \E id \in Ids : StartRequest(id) \/ Cancel(id) \/ FinishRequest(id)

Spec == Init /\ [][Next]_registryVars

-----------------------------------------------------------------------------

\* Types, and the bound the registry promises: between calls the completed
\* history never outgrows MAX_COMPLETED_REQUEST_IDS, whatever is reused.
\* `cancelled` may hold the tokens of others and is typed where it is used.
TypeOK ==
  /\ active \subseteq Ids
  /\ pending \subseteq Ids
  /\ completed \subseteq Ids
  /\ completedOrder \in Seq(Ids)
  /\ Len(completedOrder) <= MaxCompletedRequestIds

Distinct(history) ==
  \A i, j \in DOMAIN history : history[i] = history[j] => i = j

\* The set and the queue that `finish` and `start` keep in step by separate
\* inserts, removals, `retain` and evictions never drift apart: the queue
\* lists exactly the completed ids, once each, so that an eviction removes
\* the id it pops and a reused id is not evicted by its previous use.
HistoryInStep ==
  /\ Distinct(completedOrder)
  /\ completed = Entries(completedOrder)

\* A running request is never taken for a completed one, so a cancellation
\* that arrives while it runs is never ignored: it raises its token.
RunningIsNotCompleted == active \cap completed = {}

\* A cancellation is remembered until the request it names has run: an id in
\* `pending` that runs has its token raised (start), and stays raised.
PendingRunsCancelled == active \cap pending \subseteq cancelled

\* Cancelling is never undone while the request runs: the token the serving
\* thread polls goes from clear to raised, never back.
CancellationSticks ==
  [][\A id \in active \cap active' :
        id \in cancelled => id \in cancelled']_registryVars
=============================================================================
