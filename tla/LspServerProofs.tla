--------------------------- MODULE LspServerProofs ---------------------------
(***************************************************************************)
(* What the language server guarantees for every number of documents,      *)
(* request ids and versions.                                               *)
(***************************************************************************)
EXTENDS LspServer, FiniteSetTheorems, SequenceTheorems, TLAPS

-----------------------------------------------------------------------------
(***************************************************************************)
(* The registry of requests by itself, for every set of ids and every bound.*)
(***************************************************************************)
\* What `start` does to the history queue: dropping the entry of a reused id
\* leaves a queue without repetitions of exactly the other ids.
LEMMA RetainDropsOne ==
  ASSUME NEW history \in Seq(Ids), Registry!Distinct(history),
         NEW id \in Registry!Entries(history)
  PROVE  /\ Registry!Retain(history, id) \in Seq(Ids)
         /\ Len(Registry!Retain(history, id)) = Len(history) - 1
         /\ Registry!Distinct(Registry!Retain(history, id))
         /\ Registry!Entries(Registry!Retain(history,
             id)) = Registry!Entries(history) \ {id}
<1> DEFINE place == CHOOSE i \in DOMAIN history : history[i] = id
           rest == [i \in 1 .. Len(history) - 1 |->
                      IF i < place THEN history[i] ELSE history[i + 1]]
<1>1. place \in 1 .. Len(history) /\ history[place] = id
  BY DEF Registry!Entries
<1>2. Registry!Retain(history, id) = rest
  BY DEF Registry!Retain
<1> HIDE DEF place
<1>3. Len(history) - 1 \in Nat
  BY <1>1
<1>4. \A i \in 1 .. Len(history) - 1 : rest[i] \in Ids
  BY <1>1
<1>5. rest \in Seq(Ids) /\ Len(rest) = Len(history) - 1
  BY <1>3, <1>4
<1>6. DOMAIN rest = 1 .. Len(history) - 1
  OBVIOUS
<1>7. Registry!Distinct(rest)
  BY <1>1, <1>6 DEF Registry!Distinct
<1>8. \A i \in DOMAIN rest : rest[i] \in Registry!Entries(history) \ {id}
  BY <1>1, <1>6 DEF Registry!Distinct, Registry!Entries
<1>9. ASSUME NEW i \in DOMAIN history, history[i] # id
      PROVE  \E j \in DOMAIN rest : rest[j] = history[i]
  <2>1. CASE i < place
    BY <2>1, <1>1, <1>6
  <2>2. CASE i > place
    <3>1. i - 1 \in DOMAIN rest /\ rest[i - 1] = history[i]
      BY <2>2, <1>1, <1>6
    <3>2. QED BY <3>1
  <2>3. QED BY <2>1, <2>2, <1>1, <1>9
<1>10. Registry!Entries(rest) = Registry!Entries(history) \ {id}
  BY <1>8, <1>9 DEF Registry!Entries
<1>11. QED BY <1>2, <1>5, <1>7, <1>10

\* What `finish` does to the history queue: evicting from the front leaves a
\* queue within the bound, without repetitions, of ids that were in it.
LEMMA EvictKeepsNewest ==
  ASSUME Registry!HistoryBound, NEW history \in Seq(Ids), Registry!Distinct(history)
  PROVE  /\ Registry!Evict(history) \in Seq(Ids)
         /\ Len(Registry!Evict(history)) <= MaxCompletedRequestIds
         /\ Registry!Distinct(Registry!Evict(history))
         /\ Registry!Entries(Registry!Evict(history)) \subseteq Registry!Entries(history)
<1> USE DEF Registry!HistoryBound
<1>1. CASE Len(history) > MaxCompletedRequestIds
  <2> DEFINE skip == Len(history) - MaxCompletedRequestIds
  <2>1. Registry!Evict(history) = SubSeq(history, skip + 1, Len(history))
    BY <1>1 DEF Registry!Evict
  <2>2. skip \in Nat /\ skip + MaxCompletedRequestIds = Len(history)
    BY <1>1
  <2>3. /\ Registry!Evict(history) \in Seq(Ids)
        /\ Len(Registry!Evict(history)) = MaxCompletedRequestIds
        /\ \A i \in 1 .. MaxCompletedRequestIds :
              Registry!Evict(history)[i] = history[skip + i]
    BY <2>1, <2>2
  <2>4. DOMAIN Registry!Evict(history) = 1 .. MaxCompletedRequestIds
    BY <2>3
  <2>5. \A i \in 1 .. MaxCompletedRequestIds : skip + i \in DOMAIN history
    BY <2>2
  <2> HIDE DEF skip
  <2>6. Registry!Distinct(Registry!Evict(history))
    <3> SUFFICES ASSUME NEW i \in 1 .. MaxCompletedRequestIds,
                        NEW j \in 1 .. MaxCompletedRequestIds,
                        Registry!Evict(history)[i] = Registry!Evict(history)[j]
                 PROVE  i = j
      BY <2>4 DEF Registry!Distinct
    <3>1. history[skip + i] = history[skip + j]
      BY <2>3
    <3>2. skip + i = skip + j
      BY <3>1, <2>5 DEF Registry!Distinct
    <3>3. QED BY <3>2, <2>2
  <2>7. Registry!Entries(Registry!Evict(history)) \subseteq Registry!Entries(history)
    BY <2>3, <2>4, <2>5 DEF Registry!Entries
  <2>8. QED BY <2>3, <2>6, <2>7
<1>2. CASE ~(Len(history) > MaxCompletedRequestIds)
  BY <1>2 DEF Registry!Evict
<1>3. QED BY <1>1, <1>2

\* ... and the newest id always survives: the bound is not zero.
LEMMA EvictKeepsLast ==
  ASSUME Registry!HistoryBound, NEW history \in Seq(Ids), Len(history) > 0
  PROVE  /\ Len(Registry!Evict(history)) > 0
         /\ Registry!Evict(history)[Len(Registry!Evict(history))] = history[Len(history)]
<1> USE DEF Registry!HistoryBound
<1>1. CASE Len(history) > MaxCompletedRequestIds
  <2> DEFINE skip == Len(history) - MaxCompletedRequestIds
  <2>1. Registry!Evict(history) = SubSeq(history, skip + 1, Len(history))
    BY <1>1 DEF Registry!Evict
  <2>2. skip \in Nat /\ skip + MaxCompletedRequestIds = Len(history)
    BY <1>1
  <2>3. /\ Len(Registry!Evict(history)) = MaxCompletedRequestIds
        /\ Registry!Evict(history)[MaxCompletedRequestIds]
             = history[skip + MaxCompletedRequestIds]
    BY <2>1, <2>2
  <2>4. QED BY <2>2, <2>3
<1>2. CASE ~(Len(history) > MaxCompletedRequestIds)
  BY <1>2 DEF Registry!Evict
<1>3. QED BY <1>1, <1>2

\* Appending an id the queue does not hold keeps it free of repetitions.
LEMMA AppendStaysDistinct ==
  ASSUME NEW history \in Seq(Ids), Registry!Distinct(history),
         NEW id \in Ids, id \notin Registry!Entries(history)
  PROVE  /\ Append(history, id) \in Seq(Ids)
         /\ Registry!Distinct(Append(history, id))
         /\ Registry!Entries(Append(history, id)) = Registry!Entries(history) \cup {id}
<1>1. /\ Append(history, id) \in Seq(Ids)
      /\ DOMAIN Append(history, id) = 1 .. Len(history) + 1
      /\ Append(history, id)[Len(history) + 1] = id
      /\ \A i \in 1 .. Len(history) : Append(history, id)[i] = history[i]
  OBVIOUS
<1>2. Registry!Distinct(Append(history, id))
  BY <1>1 DEF Registry!Distinct, Registry!Entries
<1>3. Registry!Entries(Append(history, id)) = Registry!Entries(history) \cup {id}
  <2>1. ASSUME NEW x \in Registry!Entries(Append(history, id))
        PROVE  x \in Registry!Entries(history) \cup {id}
    BY <1>1 DEF Registry!Entries
  <2>2. ASSUME NEW x \in Registry!Entries(history)
        PROVE  x \in Registry!Entries(Append(history, id))
    <3>1. PICK i \in 1 .. Len(history) : x = history[i]
      BY DEF Registry!Entries
    <3>2. i \in DOMAIN Append(history, id) /\ Append(history, id)[i] = x
      BY <3>1, <1>1
    <3>3. QED BY <3>2 DEF Registry!Entries
  <2>3. id \in Registry!Entries(Append(history, id))
    <3>1. Len(history) + 1 \in DOMAIN Append(history, id)
      BY <1>1
    <3>2. QED BY <3>1, <1>1 DEF Registry!Entries
  <2>4. QED BY <2>1, <2>2, <2>3
<1>4. QED BY <1>1, <1>2, <1>3

-----------------------------------------------------------------------------

\* The inductive invariant: the checked invariants together, and the fact
\* that one request runs at a time, which the serving thread guarantees.
OneAtATime == \A id1, id2 \in active : id1 = id2

RegistryInv ==
  /\ Registry!TypeOK
  /\ Registry!HistoryInStep
  /\ Registry!RunningIsNotCompleted
  /\ Registry!PendingRunsCancelled
  /\ OneAtATime

LEMMA StartPreservesRegistry ==
  ASSUME Registry!HistoryBound, RegistryInv, NEW id \in Ids, Registry!StartRequest(id)
  PROVE  RegistryInv'
<1> USE DEF RegistryInv, Registry!StartRequest, Registry!Start
<1>1. /\ completedOrder' \in Seq(Ids)
      /\ Len(completedOrder') <= MaxCompletedRequestIds
      /\ Registry!Distinct(completedOrder')
      /\ Registry!Entries(completedOrder') = completed \ {id}
  <2>1. CASE id \in completed
    BY <2>1, RetainDropsOne DEF Registry!HistoryBound, Registry!TypeOK,
                                Registry!HistoryInStep
  <2>2. CASE id \notin completed
    BY <2>2 DEF Registry!TypeOK, Registry!HistoryInStep
  <2>3. QED BY <2>1, <2>2
<1>2. Registry!TypeOK'
  BY <1>1 DEF Registry!TypeOK
<1>3. Registry!HistoryInStep'
  BY <1>1 DEF Registry!HistoryInStep, Registry!Distinct, Registry!Entries
<1>4. Registry!RunningIsNotCompleted'
  BY DEF Registry!RunningIsNotCompleted
<1>5. Registry!PendingRunsCancelled'
  BY DEF Registry!PendingRunsCancelled
<1>6. OneAtATime'
  BY DEF OneAtATime
<1>7. QED BY <1>2, <1>3, <1>4, <1>5, <1>6

LEMMA CancelPreservesRegistry ==
  ASSUME Registry!HistoryBound, RegistryInv, NEW id \in Ids, Registry!Cancel(id)
  PROVE  RegistryInv'
<1> USE DEF RegistryInv, Registry!Cancel
<1>1. Registry!TypeOK'
  BY DEF Registry!TypeOK
<1>2. Registry!HistoryInStep'
  BY DEF Registry!HistoryInStep, Registry!Distinct, Registry!Entries
<1>3. Registry!RunningIsNotCompleted' /\ Registry!PendingRunsCancelled' /\ OneAtATime'
  BY DEF Registry!RunningIsNotCompleted, Registry!PendingRunsCancelled, OneAtATime
<1>4. QED BY <1>1, <1>2, <1>3

LEMMA FinishPreservesRegistry ==
  ASSUME Registry!HistoryBound, RegistryInv, NEW id \in Ids, Registry!FinishRequest(id)
  PROVE  RegistryInv'
<1> USE DEF RegistryInv, Registry!FinishRequest, Registry!Finish
<1> DEFINE grown == Append(completedOrder, id)
<1>1. id \notin completed
  BY DEF Registry!RunningIsNotCompleted
<1>2. /\ grown \in Seq(Ids)
      /\ Registry!Distinct(grown)
      /\ Registry!Entries(grown) = completed \cup {id}
  BY <1>1, AppendStaysDistinct DEF Registry!TypeOK, Registry!HistoryInStep
<1>3. completedOrder' = Registry!Evict(grown)
  BY <1>1
<1> HIDE DEF grown
<1>4. /\ completedOrder' \in Seq(Ids)
      /\ Len(completedOrder') <= MaxCompletedRequestIds
      /\ Registry!Distinct(completedOrder')
      /\ Registry!Entries(completedOrder') \subseteq completed \cup {id}
  BY <1>2, <1>3, EvictKeepsNewest
<1>5. id \in Registry!Entries(completedOrder')
  <2>1. grown[Len(grown)] = id /\ Len(grown) > 0
    BY DEF grown, Registry!TypeOK
  <2>2. /\ Len(completedOrder') > 0
        /\ completedOrder'[Len(completedOrder')] = grown[Len(grown)]
    BY <1>2, <1>3, <2>1, EvictKeepsLast
  <2>3. Len(completedOrder') \in DOMAIN completedOrder'
    BY <1>4, <2>2
  <2>4. QED BY <2>1, <2>2, <2>3 DEF Registry!Entries
<1>6. completed' = Registry!Entries(completedOrder')
  BY <1>4, <1>5 DEF Registry!HistoryInStep
<1>7. Registry!TypeOK'
  BY <1>4, <1>6 DEF Registry!TypeOK
<1>8. Registry!HistoryInStep'
  BY <1>4, <1>6 DEF Registry!HistoryInStep, Registry!Distinct, Registry!Entries
<1>9. Registry!RunningIsNotCompleted'
  BY <1>4, <1>6 DEF Registry!RunningIsNotCompleted, OneAtATime
<1>10. Registry!PendingRunsCancelled' /\ OneAtATime'
  BY DEF Registry!PendingRunsCancelled, OneAtATime
<1>11. QED BY <1>7, <1>8, <1>9, <1>10

LEMMA RegistryInvInductive ==
  ASSUME Registry!HistoryBound
  PROVE  Registry!Spec => []RegistryInv
<1>1. Registry!Init => RegistryInv
  BY DEF Registry!HistoryBound, Registry!Init, Registry!EmptyRegistry, RegistryInv,
         Registry!TypeOK, Registry!HistoryInStep, Registry!Distinct, Registry!Entries,
      Registry!RunningIsNotCompleted, Registry!PendingRunsCancelled, OneAtATime
<1>2. RegistryInv /\ [Registry!Next]_(Registry!registryVars) => RegistryInv'
  <2> SUFFICES ASSUME RegistryInv,
      [Registry!Next]_(Registry!registryVars) PROVE RegistryInv'
    OBVIOUS
  <2>1. CASE UNCHANGED Registry!registryVars
    BY <2>1 DEF Registry!registryVars, RegistryInv, Registry!TypeOK,
                Registry!HistoryInStep, Registry!Distinct, Registry!Entries,
                Registry!RunningIsNotCompleted, Registry!PendingRunsCancelled, OneAtATime
  <2>2. CASE Registry!Next
    BY <2>2, StartPreservesRegistry, CancelPreservesRegistry,
        FinishPreservesRegistry DEF Registry!Next
  <2>3. QED BY <2>1, <2>2
<1>3. QED BY <1>1, <1>2, PTL DEF Registry!Spec

\* The registry is well typed and its completed history never outgrows its
\* bound (RequestCancellations::finish), for any ids and any bound.
THEOREM RegistryTypeOK ==
  ASSUME Registry!HistoryBound
  PROVE  Registry!Spec => []Registry!TypeOK
BY RegistryInvInductive, PTL DEF RegistryInv

\* The set and the queue of completed ids never drift apart under start,
\* cancel and finish, whatever ids are reused.
THEOREM HistoryStaysInStep ==
  ASSUME Registry!HistoryBound
  PROVE  Registry!Spec => []Registry!HistoryInStep
BY RegistryInvInductive, PTL DEF RegistryInv

\* A cancellation is never mistaken for a late one while its request runs.
THEOREM RunningNeverCompleted ==
  ASSUME Registry!HistoryBound
  PROVE  Registry!Spec => []Registry!RunningIsNotCompleted
BY RegistryInvInductive, PTL DEF RegistryInv

\* A request that was cancelled before it started runs with a raised token.
THEOREM EarlyCancellationRetained ==
  ASSUME Registry!HistoryBound
  PROVE  Registry!Spec => []Registry!PendingRunsCancelled
BY RegistryInvInductive, PTL DEF RegistryInv

\* While a request runs its cancellation is never taken back.
THEOREM CancellationNeverUndone ==
  ASSUME Registry!HistoryBound
  PROVE  Registry!Spec => Registry!CancellationSticks
<1>1. ASSUME RegistryInv, [Registry!Next]_(Registry!registryVars)
      PROVE  [\A id \in active \cap active' :
                 id \in cancelled => id \in cancelled']_(Registry!registryVars)
  BY <1>1 DEF RegistryInv, Registry!Next, Registry!StartRequest, Registry!Start,
              Registry!Cancel, Registry!FinishRequest, Registry!Finish,
              Registry!registryVars, OneAtATime
<1>2. QED BY <1>1, RegistryInvInductive, PTL DEF Registry!Spec, Registry!CancellationSticks

-----------------------------------------------------------------------------
(***************************************************************************)
(* The server.                                                             *)
(***************************************************************************)

\* Where the serving thread is, and what it is then working on.
Shape ==
  /\ stage \in {"idle", "stopped"} =>
       job = NoMessage /\ whole /\ outbox = {} /\ todo = {}
  /\ stage \in {"track", "decide", "respond"} => job.method \in Requests
  /\ stage = "publish" => job.method \in {"open", "change", "close"}
  /\ Serves({"close"}) => todo = {}
  /\ stage \in {"analyse", "analysed"} =>
       /\ job.method \in Requests \cup {"open", "change"}
       /\ doc \in Uris
       /\ documents[doc] # NoVersion
  /\ \A u \in todo : documents[u] # NoVersion
  /\ Serves(Requests) => answer \in Outcomes

\* A request's analyses can only have been cut short by its own token.
ShortOnlyIfCancelled ==
  Serves(Requests) /\ ~whole =>
    IF stage = "respond" THEN answer = "cancelled" ELSE job.id \in cancelled

IInv ==
  /\ TypeOK
  /\ RegistryInv
  /\ Shape
  /\ RegistriesMatchJob
  /\ LivePublicationIsCurrent
  /\ ShortOnlyIfCancelled

-----------------------------------------------------------------------------

\* What each kind of message carries.
LEMMA MessageFields ==
  ASSUME NEW m \in Message
  PROVE  /\ m.method \in AllMethods
         /\ m.method \in Requests \cup {"direct", "shutdown", "cancel"}
              => m.id \in Ids
         /\ m.method \in {"analyse", "lookup", "edit", "open", "change",
                          "garble", "close"} => m.uri \in Uris
         /\ m.method \in {"open", "change", "garble"} => m.version \in Versions
BY DEF Message, AllMethods, Requests

LEMMA NoMessageServesNothing == NoMessage.method = "none"
BY DEF NoMessage

LEMMA InboxHead ==
  ASSUME inbox \in Seq(Message), inbox # <<>>
  PROVE  Head(inbox) \in Message /\ Tail(inbox) \in Seq(Message)
OBVIOUS


\* The registry is untouched, and tokens are only raised.
LEMMA RegistryUntouched ==
  ASSUME RegistryInv, UNCHANGED requestVars, cancelled \cap Ids \subseteq cancelled'
  PROVE  RegistryInv'
BY DEF RegistryInv, Registry!TypeOK, Registry!HistoryInStep, Registry!Distinct,
       Registry!Entries,
       Registry!RunningIsNotCompleted, Registry!PendingRunsCancelled, OneAtATime,
       requestVars

LEMMA BoundIsPositive == Registry!HistoryBound
BY LspAssumption DEF Registry!HistoryBound

LEMMA RegistryStart ==
  ASSUME NEW id \in Ids, RegistryInv, active = {}, Registry!Start(id)
  PROVE  RegistryInv'
<1>1. Registry!StartRequest(id)
  BY DEF Registry!Start, Registry!Retain, Registry!StartRequest, Registry!Start,
         Registry!Retain
<1>2. QED BY <1>1, BoundIsPositive, StartPreservesRegistry

LEMMA RegistryCancel ==
  ASSUME NEW id \in Ids, RegistryInv, Registry!Cancel(id)
  PROVE  RegistryInv'
<1>1. Registry!Cancel(id)
  BY DEF Registry!Cancel, Registry!Cancel
<1>2. QED BY <1>1, BoundIsPositive, CancelPreservesRegistry

LEMMA RegistryFinish ==
  ASSUME NEW id \in Ids, RegistryInv, id \in active, Registry!Finish(id)
  PROVE  RegistryInv'
<1>1. Registry!FinishRequest(id)
  BY DEF Registry!Finish, Registry!Evict, Registry!Entries, Registry!FinishRequest,
         Registry!Finish, Registry!Evict, Registry!Entries
<1>2. QED BY <1>1, BoundIsPositive, FinishPreservesRegistry

\* The registry's invariant gives the types of its variables.
LEMMA RegistryTypes ==
  ASSUME RegistryInv
  PROVE  /\ active \subseteq Ids
         /\ pending \subseteq Ids
         /\ completed \subseteq Ids
         /\ completedOrder \in Seq(Ids)
         /\ Len(completedOrder) <= MaxCompletedRequestIds
BY DEF RegistryInv, Registry!TypeOK

-----------------------------------------------------------------------------
(***************************************************************************)
(* The reader thread.                                                      *)
(***************************************************************************)

\* An observed text cancels the publication it supersedes, whichever step the
\* serving thread has reached.
LEMMA ObserveTextKeepsLive ==
  ASSUME IInv, NEW u \in Uris, NEW v \in Versions,
         Observed!ObserveText(u, v), UNCHANGED servingVars
  PROVE  LivePublicationIsCurrent'
<1> SUFFICES ASSUME stage \in {"analyse", "analysed"}, ~Serves(Requests),
                    doc \notin cancelled'
             PROVE  doc \notin closed' /\ versions'[doc] = documents[doc]
  BY DEF LivePublicationIsCurrent, servingVars, Serves, Observed!IsCurrent
<1>1. doc \in Uris /\ doc \notin cancelled
  BY DEF IInv, Shape, Observed!ObserveText
<1>2. doc \notin closed /\ versions[doc] = documents[doc]
  BY <1>1 DEF IInv, LivePublicationIsCurrent, Observed!IsCurrent
<1>3. tracked = {[uri |-> doc, version |-> documents[doc], token |-> doc]}
  BY DEF IInv, RegistriesMatchJob, Token, Serves
<1>4. CASE u # doc
  BY <1>1, <1>2, <1>4 DEF Observed!ObserveText, IInv, TypeOK
<1>5. CASE u = doc
  <2> DEFINE newest == IF v >= versions[u] THEN v ELSE versions[u]
  <2>1. versions'[doc] = newest /\ doc \notin closed'
    BY <1>1, <1>5 DEF Observed!ObserveText, IInv, TypeOK
  <2>2. newest = documents[doc]
    <3>1. cancelled' = cancelled \cup
            {e.token : e \in {f \in tracked : f.uri = u /\ f.version # newest}}
      BY DEF Observed!ObserveText
    <3>2. SUFFICES ASSUME newest # documents[doc] PROVE FALSE
      OBVIOUS
    <3>3. [uri |-> doc, version |-> documents[doc], token |-> doc]
             \in {f \in tracked : f.uri = u /\ f.version # newest}
      BY <1>3, <1>5, <3>2
    <3>4. doc \in cancelled'
      BY <3>1, <3>3
    <3>5. QED BY <3>4
  <2>3. QED BY <2>1, <2>2
<1>6. QED BY <1>4, <1>5

LEMMA ObserveCloseKeepsLive ==
  ASSUME IInv, NEW u \in Uris,
         Observed!ObserveClose(u), UNCHANGED servingVars
  PROVE  LivePublicationIsCurrent'
<1> SUFFICES ASSUME stage \in {"analyse", "analysed"}, ~Serves(Requests),
                    doc \notin cancelled'
             PROVE  doc \notin closed' /\ versions'[doc] = documents[doc]
  BY DEF LivePublicationIsCurrent, servingVars, Serves, Observed!IsCurrent
<1>1. doc \in Uris /\ doc \notin cancelled
  BY DEF IInv, Shape, Observed!ObserveClose
<1>2. doc \notin closed /\ versions[doc] = documents[doc]
  BY <1>1 DEF IInv, LivePublicationIsCurrent, Observed!IsCurrent
<1>3. tracked = {[uri |-> doc, version |-> documents[doc], token |-> doc]}
  BY DEF IInv, RegistriesMatchJob, Token, Serves
<1>4. u # doc
  <2> SUFFICES ASSUME u = doc PROVE FALSE
    OBVIOUS
  <2>1. [uri |-> doc, version |-> documents[doc], token |-> doc]
          \in {f \in tracked : f.uri = u}
    BY <1>3
  <2>2. QED BY <2>1 DEF Observed!ObserveClose
<1>5. QED BY <1>1, <1>2, <1>4 DEF Observed!ObserveClose

\* Observing a document: the parts of the invariant it cannot disturb.
LEMMA ObserveKeepsRest ==
  ASSUME IInv, UNCHANGED <<servingVars, requestVars, tracked>>,
         cancelled \subseteq cancelled'
  PROVE  RegistryInv' /\ Shape' /\ RegistriesMatchJob' /\ ShortOnlyIfCancelled'
<1>1. RegistryInv'
  BY RegistryUntouched DEF IInv
<1>2. Shape'
  BY DEF IInv, Shape, servingVars, Serves
<1>3. RegistriesMatchJob'
  BY DEF IInv, RegistriesMatchJob, servingVars, requestVars, Serves, Token
<1>4. ShortOnlyIfCancelled'
  BY DEF IInv, ShortOnlyIfCancelled, servingVars, Serves
<1>5. QED BY <1>1, <1>2, <1>3, <1>4

\* What an observation raises are tokens.
LEMMA TrackedTokens ==
  ASSUME TypeOK, NEW e \in tracked
  PROVE  e.token \in Ids \cup Uris
BY DEF TypeOK, Observed!Entry, Observed!Tokens

LEMMA ReadOpenStep ==
  ASSUME IInv, NEW u \in Uris, NEW v \in Versions, ReadOpen(u, v)
  PROVE  IInv'
<1> USE DEF ReadOpen
<1>1. TypeOK'
  BY LspAssumption DEF IInv, TypeOK, Observed!ObserveText, requestVars, servingVars,
     Message, Observed!Entry, Observed!Tokens, Versions, NoVersion
<1>2. RegistryInv' /\ Shape' /\ RegistriesMatchJob' /\ ShortOnlyIfCancelled'
  BY ObserveKeepsRest DEF Observed!ObserveText
<1>3. LivePublicationIsCurrent'
  BY ObserveTextKeepsLive
<1>4. QED BY <1>1, <1>2, <1>3 DEF IInv

LEMMA ReadChangeStep ==
  ASSUME IInv, NEW method \in {"change", "garble"}, NEW u \in Uris,
         NEW v \in Versions, ReadChange(method, u, v)
  PROVE  IInv'
<1> USE DEF ReadChange
<1>1. TypeOK'
  BY LspAssumption DEF IInv, TypeOK, Observed!ObserveText, requestVars, servingVars,
     Message, Observed!Entry, Observed!Tokens, Versions, NoVersion
<1>2. RegistryInv' /\ Shape' /\ RegistriesMatchJob' /\ ShortOnlyIfCancelled'
  BY ObserveKeepsRest DEF Observed!ObserveText
<1>3. LivePublicationIsCurrent'
  BY ObserveTextKeepsLive
<1>4. QED BY <1>1, <1>2, <1>3 DEF IInv

LEMMA ReadCloseStep ==
  ASSUME IInv, NEW u \in Uris, ReadClose(u)
  PROVE  IInv'
<1> USE DEF ReadClose
<1>1. TypeOK'
  BY LspAssumption DEF IInv, TypeOK, Observed!ObserveClose, requestVars, servingVars,
     Message, Observed!Entry, Observed!Tokens, Versions, NoVersion
<1>2. RegistryInv' /\ Shape' /\ RegistriesMatchJob' /\ ShortOnlyIfCancelled'
  BY ObserveKeepsRest DEF Observed!ObserveClose
<1>3. LivePublicationIsCurrent'
  BY ObserveCloseKeepsLive
<1>4. QED BY <1>1, <1>2, <1>3 DEF IInv

\* A step of the client or reader that touches neither registry.
LEMMA ReaderOnlyKeepsRest ==
  ASSUME IInv,
         UNCHANGED <<requestVars, documentVars, cancelled, servingVars>>
  PROVE  /\ RegistryInv' /\ Shape' /\ RegistriesMatchJob'
         /\ ShortOnlyIfCancelled' /\ LivePublicationIsCurrent'
<1>1. RegistryInv' /\ Shape' /\ RegistriesMatchJob' /\ ShortOnlyIfCancelled'
  BY ObserveKeepsRest DEF documentVars
<1>2. LivePublicationIsCurrent'
  BY DEF IInv, LivePublicationIsCurrent, documentVars, servingVars, Serves,
         Observed!IsCurrent
<1>3. QED BY <1>1, <1>2

LEMMA ReadRequestStep ==
  ASSUME IInv, NEW m \in Message, m.id \in Ids, ReadRequest(m)
  PROVE  IInv'
<1> USE DEF ReadRequest
<1>1. TypeOK'
  BY DEF IInv, TypeOK, requestVars, documentVars, servingVars
<1>2. QED BY <1>1, ReaderOnlyKeepsRest DEF IInv

LEMMA ReadLastStep ==
  ASSUME IInv, NEW method \in {"exit", "end"}, ReadLast(method)
  PROVE  IInv'
<1> USE DEF ReadLast
<1>1. TypeOK'
  BY DEF IInv, TypeOK, requestVars, documentVars, servingVars, clientVars, Message
<1>2. QED BY <1>1, ReaderOnlyKeepsRest DEF IInv

LEMMA ReaderSendStep ==
  ASSUME IInv, ReaderSend
  PROVE  IInv'
<1> USE DEF ReaderSend
<1>1. TypeOK'
  BY DEF IInv, TypeOK, requestVars, documentVars, servingVars, clientVars
<1>2. QED BY <1>1, ReaderOnlyKeepsRest DEF IInv

\* Cancelling by id touches no publication.
LEMMA CancelKeepsRest ==
  ASSUME IInv, NEW id \in Ids, Registry!Cancel(id), UNCHANGED documentVars,
         UNCHANGED servingVars
  PROVE  /\ RegistryInv' /\ Shape' /\ RegistriesMatchJob'
         /\ ShortOnlyIfCancelled' /\ LivePublicationIsCurrent'
<1>1. cancelled \subseteq cancelled' /\ active' = active
  BY DEF Registry!Cancel
<1>2. \A u \in Uris : u \in cancelled => u \in cancelled'
  BY <1>1
<1>3. RegistryInv'
  BY RegistryCancel DEF IInv
<1>4. Shape'
  BY DEF IInv, Shape, servingVars, Serves
<1>5. RegistriesMatchJob'
  BY <1>1 DEF IInv, RegistriesMatchJob, servingVars, documentVars, Serves, Token
<1>6. ShortOnlyIfCancelled'
  BY <1>1 DEF IInv, ShortOnlyIfCancelled, servingVars, Serves
<1>7. LivePublicationIsCurrent'
  BY <1>1 DEF IInv, LivePublicationIsCurrent, documentVars, servingVars, Serves,
         Observed!IsCurrent
<1>8. QED BY <1>3, <1>4, <1>5, <1>6, <1>7

LEMMA ReadCancelStep ==
  ASSUME IInv, NEW id \in Ids, ReadCancel(id)
  PROVE  IInv'
<1> USE DEF ReadCancel
<1>1. TypeOK'
  BY DEF IInv, TypeOK, documentVars, servingVars, Message, Registry!Cancel
<1>2. QED BY <1>1, CancelKeepsRest DEF IInv

LEMMA ReaderStep ==
  ASSUME IInv, Reader
  PROVE  IInv'
<1>1. \A id \in Ids : \A m \in DocumentRequest(id) \cup OtherRequest(id) :
        m \in Message /\ m.id \in Ids
  BY DEF DocumentRequest, OtherRequest, Message, IInv, TypeOK
<1>2. QED
  BY <1>1, ReadOpenStep, ReadChangeStep, ReadCloseStep, ReadRequestStep,
     ReadCancelStep, ReadLastStep, ReaderSendStep DEF Reader

-----------------------------------------------------------------------------
(***************************************************************************)
(* The serving thread.                                                     *)
(***************************************************************************)

LEMMA SiblingsAreOpen ==
  ASSUME NEW u, NEW texts, NEW w \in Siblings(u, texts)
  PROVE  w \in Uris /\ texts[w] # NoVersion
BY DEF Siblings

\* Between jobs the registries are empty and nothing is half done.
LEMMA IdleIsClean ==
  ASSUME IInv, stage = "idle"
  PROVE  /\ job = NoMessage /\ whole /\ outbox = {} /\ todo = {}
         /\ tracked = {} /\ active = {}
BY NoMessageServesNothing
   DEF IInv, Shape, RegistriesMatchJob, Serves, Requests

\* Taking a message off the channel.
LEMMA Received ==
  ASSUME IInv, NEW method, Receives(method)
  PROVE  /\ stage = "idle" /\ inbox # <<>> /\ Head(inbox) \in Message
         /\ Head(inbox).method = method /\ inbox' \in Seq(Message)
BY InboxHead DEF Receives, IInv, TypeOK

LEMMA HandleTextStep ==
  ASSUME IInv, NEW m, HandleText(m)
  PROVE  IInv'
<1> USE DEF HandleText
<1>1. /\ stage = "idle" /\ m \in Message /\ inbox' \in Seq(Message)
      /\ m.method \in {"open", "change"}
  BY Received
<1>2. m.uri \in Uris /\ m.version \in Versions /\ m.method \notin Requests
  BY <1>1, MessageFields DEF Requests
<1>3. job = NoMessage /\ whole /\ tracked = {} /\ active = {}
  BY <1>1, IdleIsClean
<1>4. documents' \in [Uris -> Versions \cup {NoVersion}]
  BY <1>2 DEF IInv, TypeOK
<1>5. todo' \subseteq Uris /\ \A u \in todo' : documents'[u] # NoVersion
  BY SiblingsAreOpen
<1>6. TypeOK'
  BY <1>1, <1>4, <1>5 DEF IInv, TypeOK, clientVars, requestVars, documentVars
<1>7. RegistryInv'
  BY RegistryUntouched DEF IInv
<1>8. Shape'
  BY <1>1, <1>2, <1>5 DEF Shape, Serves
<1>9. RegistriesMatchJob'
  BY <1>2, <1>3 DEF RegistriesMatchJob, Serves, requestVars, documentVars
<1>10. LivePublicationIsCurrent' /\ ShortOnlyIfCancelled'
  BY <1>2 DEF LivePublicationIsCurrent, ShortOnlyIfCancelled, Serves
<1>11. QED BY <1>6, <1>7, <1>8, <1>9, <1>10 DEF IInv

LEMMA IgnoreChangeStep ==
  ASSUME IInv, NEW m, IgnoreChange(m)
  PROVE  IInv'
<1> USE DEF IgnoreChange
<1>1. inbox' \in Seq(Message)
  BY Received
<1>2. TypeOK'
  BY <1>1 DEF IInv, TypeOK, clientVars, requestVars, documentVars, servingVars
<1>3. QED BY <1>2, ReaderOnlyKeepsRest DEF IInv

LEMMA HandleCloseStep ==
  ASSUME IInv, NEW m, HandleClose(m)
  PROVE  IInv'
<1> USE DEF HandleClose
<1>1. /\ stage = "idle" /\ m \in Message /\ inbox' \in Seq(Message)
      /\ m.method = "close"
  BY Received
<1>2. m.uri \in Uris /\ m.method \notin Requests
  BY <1>1, MessageFields DEF Requests
<1>3. job = NoMessage /\ whole /\ todo = {} /\ tracked = {} /\ active = {}
  BY <1>1, IdleIsClean
<1>4. Cleared \in Diagnostics
  BY DEF Cleared, Diagnostics, Lists
<1>5. documents' \in [Uris -> Versions \cup {NoVersion}]
  BY <1>2 DEF IInv, TypeOK
<1>6. TypeOK'
  BY <1>1, <1>2, <1>4, <1>5
     DEF IInv, TypeOK, clientVars, requestVars, documentVars
<1>7. RegistryInv'
  BY RegistryUntouched DEF IInv
<1>8. Shape'
  BY <1>1, <1>2, <1>3 DEF IInv, Shape, Serves
<1>9. RegistriesMatchJob'
  BY <1>1, <1>2, <1>3, NoMessageServesNothing
     DEF RegistriesMatchJob, Serves, requestVars, documentVars, Requests
<1>10. LivePublicationIsCurrent' /\ ShortOnlyIfCancelled'
  BY <1>1, <1>3 DEF LivePublicationIsCurrent, ShortOnlyIfCancelled, Serves
<1>11. QED BY <1>6, <1>7, <1>8, <1>9, <1>10 DEF IInv

LEMMA HandleCancelStep ==
  ASSUME IInv, HandleCancel
  PROVE  IInv'
<1> USE DEF HandleCancel
<1>1. inbox' \in Seq(Message) /\ Head(inbox).id \in Ids
  BY Received, MessageFields
<1>2. TypeOK'
  BY <1>1 DEF IInv, TypeOK, clientVars, documentVars, servingVars,
              Registry!Cancel
<1>3. QED BY <1>1, <1>2, CancelKeepsRest DEF IInv

LEMMA HandleDirectStep ==
  ASSUME IInv, NEW method \in {"direct", "shutdown"}, HandleDirect(method)
  PROVE  IInv'
<1> USE DEF HandleDirect
<1>1. /\ stage = "idle" /\ inbox' \in Seq(Message) /\ Head(inbox).id \in Ids
  BY Received, MessageFields
<1>2. TypeOK'
  BY <1>1 DEF IInv, TypeOK, requestVars, documentVars, Outcomes
<1>3. RegistryInv'
  BY RegistryUntouched DEF IInv
<1>4. Shape' /\ RegistriesMatchJob' /\ ShortOnlyIfCancelled'
  BY DEF IInv, Shape, RegistriesMatchJob, ShortOnlyIfCancelled, Serves, Token,
         requestVars, documentVars
<1>5. LivePublicationIsCurrent'
  BY <1>1 DEF LivePublicationIsCurrent
<1>6. QED BY <1>2, <1>3, <1>4, <1>5 DEF IInv

LEMMA HandleLastStep ==
  ASSUME IInv, NEW method \in {"exit", "end"}, HandleLast(method)
  PROVE  IInv'
<1> USE DEF HandleLast
<1>1. stage = "idle" /\ inbox' \in Seq(Message)
  BY Received
<1>2. TypeOK'
  BY <1>1 DEF IInv, TypeOK, clientVars, requestVars, documentVars
<1>3. RegistryInv'
  BY RegistryUntouched DEF IInv
<1>4. Shape' /\ RegistriesMatchJob' /\ ShortOnlyIfCancelled'
  BY <1>1 DEF IInv, Shape, RegistriesMatchJob, ShortOnlyIfCancelled, Serves,
              Token, requestVars, documentVars
<1>5. LivePublicationIsCurrent'
  BY DEF LivePublicationIsCurrent
<1>6. QED BY <1>2, <1>3, <1>4, <1>5 DEF IInv

\* The documents a request analyses are open.
LEMMA AnalysesOpen ==
  ASSUME TypeOK, NEW m \in Message, m.method \in Requests,
         NEW plan \in Analyses(m, documents)
  PROVE  /\ plan.todo \subseteq Uris
         /\ \A u \in plan.todo : documents[u] # NoVersion
         /\ plan.rounds \in 1 .. MaxRounds
<1>1. 1 \in 1 .. MaxRounds
  BY LspAssumption
<1>2. CASE m.method = "survey"
  BY <1>1, <1>2 DEF Analyses
<1>3. CASE m.method = "analyse"
  BY <1>1, <1>3, MessageFields DEF Analyses
<1>4. CASE m.method = "edit"
  BY <1>4, MessageFields DEF Analyses
<1>5. CASE m.method = "lookup"
  BY <1>1, <1>5 DEF Analyses
<1>6. QED BY <1>2, <1>3, <1>4, <1>5 DEF Requests

LEMMA HandleRequestStep ==
  ASSUME IInv, NEW m, HandleRequest(m)
  PROVE  IInv'
<1> USE DEF HandleRequest
<1>1. /\ stage = "idle" /\ m \in Message /\ inbox' \in Seq(Message)
      /\ m.method \in Requests
  BY Received
<1>2. m.id \in Ids
  BY <1>1, MessageFields
<1>3. whole /\ outbox = {} /\ tracked = {} /\ active = {}
  BY <1>1, IdleIsClean
<1>4. /\ todo' \subseteq Uris /\ \A u \in todo' : documents[u] # NoVersion
      /\ rounds' \in 0 .. MaxRounds
  <2>1. PICK plan \in Analyses(m, documents) :
          /\ rounds' = plan.rounds
          /\ todo' = IF m.id \in cancelled' THEN {} ELSE plan.todo
    OBVIOUS
  <2>2. QED BY <1>1, <2>1, AnalysesOpen, LspAssumption DEF IInv
<1>5. RegistryInv'
  BY <1>2, <1>3, RegistryStart DEF IInv
<1>6. /\ active' \subseteq Ids /\ pending' \subseteq Ids /\ completed' \subseteq Ids
      /\ completedOrder' \in Seq(Ids)
      /\ Len(completedOrder') <= MaxCompletedRequestIds
  BY <1>5 DEF RegistryInv, Registry!TypeOK
<1>7. active' = {m.id} /\ cancelled' \subseteq Ids \cup Uris
  BY <1>2, <1>3 DEF Registry!Start, IInv, TypeOK
<1>8. TypeOK'
  BY <1>1, <1>4, <1>6, <1>7
     DEF IInv, TypeOK, clientVars, documentVars, Outcomes
<1>9. Shape'
  <2>1. /\ stage' \in {"decide", "track"} /\ answer' \in Outcomes
        /\ job'.method \in Requests /\ job'.method # "close"
    BY <1>1 DEF Outcomes, Requests
  <2>2. \A u \in todo' : documents'[u] # NoVersion
    BY <1>4
  <2> HIDE DEF HandleRequest
  <2>3. QED BY <2>1, <2>2 DEF Shape, Serves
<1>10. RegistriesMatchJob'
  BY <1>1, <1>3, <1>7 DEF RegistriesMatchJob, Serves, documentVars
<1>11. LivePublicationIsCurrent' /\ ShortOnlyIfCancelled'
  BY <1>3 DEF LivePublicationIsCurrent, ShortOnlyIfCancelled, Serves
<1>12. QED BY <1>5, <1>8, <1>9, <1>10, <1>11 DEF IInv

LEMMA HandleStep ==
  ASSUME IInv, Handle
  PROVE  IInv'
BY HandleTextStep, IgnoreChangeStep, HandleCloseStep, HandleRequestStep,
   HandleCancelStep, HandleDirectStep, HandleLastStep DEF Handle

-----------------------------------------------------------------------------

LEMMA PublishSkipStep ==
  ASSUME IInv, NEW u \in Uris, PublishSkip(u)
  PROVE  IInv'
<1> USE DEF PublishSkip
<1>1. TypeOK'
  BY DEF IInv, TypeOK, clientVars, requestVars, documentVars, readerVars
<1>2. RegistryInv'
  BY RegistryUntouched DEF IInv
<1>3. Shape' /\ RegistriesMatchJob' /\ ShortOnlyIfCancelled'
  BY DEF IInv, Shape, RegistriesMatchJob, ShortOnlyIfCancelled, Serves, Token,
         requestVars, documentVars
<1>4. LivePublicationIsCurrent'
  BY DEF LivePublicationIsCurrent
<1>5. QED BY <1>1, <1>2, <1>3, <1>4 DEF IInv

LEMMA PublishStartStep ==
  ASSUME IInv, NEW u \in Uris, PublishStart(u)
  PROVE  IInv'
<1> USE DEF PublishStart
<1>1. /\ job.method \in {"open", "change", "close"} /\ job.method \notin Requests
      /\ u \in todo /\ documents[u] # NoVersion /\ tracked = {} /\ active = {}
  BY DEF IInv, Shape, RegistriesMatchJob, Serves, Requests
<1>2. documents[u] \in Versions
  BY <1>1 DEF IInv, TypeOK
<1>3. tracked' = {[uri |-> u, version |-> documents[u], token |-> u]}
  BY <1>1 DEF Observed!StartAnalysis, Observed!Without
<1>4. TypeOK'
  BY <1>2, <1>3 DEF IInv, TypeOK, clientVars, requestVars, readerVars,
     Observed!StartAnalysis, Observed!Entry, Observed!Tokens, Versions,
     Observed!Versions
<1>5. RegistryInv'
  <2>1. cancelled \cap Ids \subseteq cancelled'
    BY LspAssumption DEF Observed!StartAnalysis
  <2>2. QED BY <2>1, RegistryUntouched DEF IInv
<1>6. Shape'
  BY <1>1 DEF IInv, Shape, Serves
<1>7. RegistriesMatchJob'
  BY <1>1, <1>3 DEF RegistriesMatchJob, Serves, Token, requestVars
<1>8. LivePublicationIsCurrent' /\ ShortOnlyIfCancelled'
  BY <1>1 DEF LivePublicationIsCurrent, ShortOnlyIfCancelled, Serves,
              Observed!StartAnalysis, Observed!IsCurrent
<1>9. QED BY <1>4, <1>5, <1>6, <1>7, <1>8 DEF IInv
LEMMA PublishSyntaxStep ==
  ASSUME IInv, PublishSyntax
  PROVE  IInv'
<1> USE DEF PublishSyntax
<1>1. TypeOK'
  BY DEF IInv, TypeOK, clientVars, requestVars, documentVars, readerVars
<1>2. RegistryInv'
  BY RegistryUntouched DEF IInv
<1>3. Shape' /\ RegistriesMatchJob' /\ ShortOnlyIfCancelled'
  BY DEF IInv, Shape, RegistriesMatchJob, ShortOnlyIfCancelled, Serves, Token,
         requestVars, documentVars
<1>4. LivePublicationIsCurrent'
  BY DEF IInv, LivePublicationIsCurrent, documentVars, Serves,
         Observed!IsCurrent
<1>5. QED BY <1>1, <1>2, <1>3, <1>4 DEF IInv

LEMMA TrackNextStep ==
  ASSUME IInv, NEW u \in Uris, TrackNext(u)
  PROVE  IInv'
<1> USE DEF TrackNext
<1>1. /\ job.method \in Requests /\ u \in todo /\ documents[u] # NoVersion
      /\ tracked = {} /\ active = {job.id}
  BY DEF IInv, Shape, RegistriesMatchJob, Serves
<1>2. documents[u] \in Versions /\ job.id \in Ids
  BY <1>1, RegistryTypes DEF IInv, TypeOK
<1>3. tracked' = {[uri |-> u, version |-> documents[u], token |-> job.id]}
  BY <1>1 DEF Observed!TrackAnalysis, Observed!Without
<1>4. TypeOK'
  BY <1>2, <1>3 DEF IInv, TypeOK, clientVars, requestVars, readerVars,
     Observed!TrackAnalysis, Observed!Entry, Observed!Tokens, Versions,
     Observed!Versions
<1>5. RegistryInv'
  BY RegistryUntouched DEF IInv, Observed!TrackAnalysis
<1>6. Shape'
  BY <1>1 DEF IInv, Shape, Serves
<1>7. RegistriesMatchJob'
  BY <1>1, <1>3 DEF RegistriesMatchJob, Serves, Token, requestVars
<1>8. LivePublicationIsCurrent' /\ ShortOnlyIfCancelled'
  BY <1>1 DEF IInv, LivePublicationIsCurrent, ShortOnlyIfCancelled, Serves,
              Observed!TrackAnalysis
<1>9. QED BY <1>4, <1>5, <1>6, <1>7, <1>8 DEF IInv

LEMMA AnalyseStep ==
  ASSUME IInv, Analyse
  PROVE  IInv'
<1> USE DEF Analyse
<1>1. TypeOK'
  BY DEF IInv, TypeOK, clientVars, requestVars, documentVars, readerVars
<1>2. RegistryInv'
  BY RegistryUntouched DEF IInv
<1>3. Shape' /\ RegistriesMatchJob'
  BY DEF IInv, Shape, RegistriesMatchJob, Serves, Token, requestVars,
         documentVars
<1>4. LivePublicationIsCurrent'
  BY DEF IInv, LivePublicationIsCurrent, documentVars, Serves,
         Observed!IsCurrent
<1>5. ShortOnlyIfCancelled'
  BY DEF IInv, ShortOnlyIfCancelled, Serves, Token
<1>6. QED BY <1>1, <1>2, <1>3, <1>4, <1>5 DEF IInv

\* Ending the one analysis under way leaves nothing tracked.
LEMMA NothingTracked ==
  ASSUME IInv, stage = "analysed", Observed!FinishAnalysis(doc, documents[doc])
  PROVE  tracked' = {}
BY DEF IInv, RegistriesMatchJob, Observed!FinishAnalysis, Observed!Without

LEMMA RequestAnalysedStep ==
  ASSUME IInv, RequestAnalysed
  PROVE  IInv'
<1> USE DEF RequestAnalysed
<1>1. /\ tracked' = {} /\ active = {job.id}
      /\ UNCHANGED <<versions, closed, cancelled>>
  BY NothingTracked DEF IInv, RegistriesMatchJob, Serves,
                        Observed!FinishAnalysis
<1>2. rounds' \in 0 .. MaxRounds /\ todo' \subseteq todo
  BY LspAssumption DEF IInv, TypeOK
<1>3. TypeOK'
  BY <1>1, <1>2
     DEF IInv, TypeOK, clientVars, requestVars, readerVars, documentVars
<1>4. RegistryInv'
  BY RegistryUntouched DEF IInv
<1>5. Shape'
  BY <1>2 DEF IInv, Shape, Serves, Requests
<1>6. RegistriesMatchJob'
  BY <1>1 DEF RegistriesMatchJob, Serves, requestVars
<1>7. LivePublicationIsCurrent' /\ ShortOnlyIfCancelled'
  BY DEF IInv, LivePublicationIsCurrent, ShortOnlyIfCancelled, Serves
<1>8. QED BY <1>3, <1>4, <1>5, <1>6, <1>7 DEF IInv

LEMMA PublishAnalysedStep ==
  ASSUME IInv, PublishAnalysed
  PROVE  IInv'
<1> USE DEF PublishAnalysed
<1>1. /\ tracked' = {} /\ active = {}
      /\ UNCHANGED <<versions, closed, cancelled>>
  BY NothingTracked DEF IInv, RegistriesMatchJob, Serves,
                        Observed!FinishAnalysis
<1>2. /\ job.method \in {"open", "change"} /\ doc \in Uris
  BY DEF IInv, Shape
<1>3. outbox' \subseteq [uri : Uris, diagnostics : Diagnostics]
  <2>1. Listed(doc, documents) \in Lists
    BY DEF Listed, Lists
  <2>2. (IF whole THEN Listed(doc, documents) ELSE "nothing") \in Lists
    BY <2>1 DEF Lists
  <2>3. Report(doc) \in Diagnostics
    BY <1>2, <2>2 DEF IInv, TypeOK, Report, Diagnostics
  <2>4. QED BY <1>2, <2>3 DEF IInv, TypeOK
<1>4. TypeOK'
  BY <1>1, <1>3 DEF IInv, TypeOK, clientVars, requestVars, readerVars
<1>5. RegistryInv'
  BY RegistryUntouched DEF IInv
<1>6. Shape'
  BY <1>2 DEF IInv, Shape, Serves
<1>7. RegistriesMatchJob'
  BY <1>1 DEF RegistriesMatchJob, Serves, requestVars
<1>8. LivePublicationIsCurrent' /\ ShortOnlyIfCancelled'
  BY DEF LivePublicationIsCurrent, ShortOnlyIfCancelled, Serves
<1>9. QED BY <1>4, <1>5, <1>6, <1>7, <1>8 DEF IInv

LEMMA PublishStep ==
  ASSUME IInv, Publish
  PROVE  IInv'
<1> USE DEF Publish, BackToIdle
<1>1. active = {} /\ tracked = {}
  BY DEF IInv, Shape, RegistriesMatchJob, Serves, Requests
<1>2. shown' \in [Uris -> Diagnostics]
  <2>1. \A u \in Uris : (\E n \in outbox : n.uri = u) =>
          (CHOOSE n \in outbox : n.uri = u).diagnostics \in Diagnostics
    BY DEF IInv, TypeOK
  <2>2. QED BY <2>1 DEF IInv, TypeOK
<1>3. TypeOK'
  BY <1>2, LspAssumption
     DEF IInv, TypeOK, requestVars, documentVars, readerVars
<1>4. RegistryInv'
  BY RegistryUntouched DEF IInv
<1>5. Shape' /\ RegistriesMatchJob' /\ ShortOnlyIfCancelled'
  BY <1>1, NoMessageServesNothing
     DEF Shape, RegistriesMatchJob, ShortOnlyIfCancelled, Serves, requestVars,
         documentVars, Requests
<1>6. LivePublicationIsCurrent'
  BY DEF LivePublicationIsCurrent
<1>7. QED BY <1>3, <1>4, <1>5, <1>6 DEF IInv

LEMMA DecideStep ==
  ASSUME IInv, Decide
  PROVE  IInv'
<1> USE DEF Decide
<1>1. TypeOK'
  BY DEF IInv, TypeOK, clientVars, requestVars, documentVars, readerVars,
         Outcomes
<1>2. RegistryInv'
  BY RegistryUntouched DEF IInv
<1>3. Shape' /\ RegistriesMatchJob'
  BY DEF IInv, Shape, RegistriesMatchJob, Serves, Token, requestVars,
         documentVars, Outcomes
<1>4. ShortOnlyIfCancelled'
  BY DEF IInv, Shape, ShortOnlyIfCancelled, Serves
<1>5. LivePublicationIsCurrent'
  BY DEF LivePublicationIsCurrent
<1>6. QED BY <1>1, <1>2, <1>3, <1>4, <1>5 DEF IInv

LEMMA RespondStep ==
  ASSUME IInv, Respond
  PROVE  IInv'
<1> USE DEF Respond, BackToIdle
<1>1. /\ job.method \in Requests /\ active = {job.id} /\ tracked = {}
      /\ answer \in Outcomes
  BY DEF IInv, Shape, RegistriesMatchJob, Serves
<1>2. job.id \in Ids
  BY <1>1, RegistryTypes DEF IInv
<1>3. RegistryInv'
  BY <1>1, <1>2, RegistryFinish DEF IInv
<1>4. /\ active' \subseteq Ids /\ pending' \subseteq Ids /\ completed' \subseteq Ids
      /\ completedOrder' \in Seq(Ids)
      /\ Len(completedOrder') <= MaxCompletedRequestIds
  BY <1>3 DEF RegistryInv, Registry!TypeOK
<1>5. active' = {} /\ cancelled' = cancelled
  BY <1>1 DEF Registry!Finish
<1>6. TypeOK'
  BY <1>1, <1>2, <1>4, <1>5, LspAssumption
     DEF IInv, TypeOK, documentVars, readerVars
<1>7. Shape' /\ RegistriesMatchJob' /\ ShortOnlyIfCancelled'
  BY <1>1, <1>5, NoMessageServesNothing
     DEF Shape, RegistriesMatchJob, ShortOnlyIfCancelled, Serves,
         documentVars, Requests
<1>8. LivePublicationIsCurrent'
  BY DEF LivePublicationIsCurrent
<1>9. QED BY <1>3, <1>6, <1>7, <1>8 DEF IInv

LEMMA ServingStep ==
  ASSUME IInv, Serving
  PROVE  IInv'
BY HandleStep, PublishSkipStep, PublishStartStep, PublishSyntaxStep,
   TrackNextStep, AnalyseStep, RequestAnalysedStep, PublishAnalysedStep,
   PublishStep, DecideStep, RespondStep DEF Serving

-----------------------------------------------------------------------------

LEMMA IInvInit == Init => IInv
<1> SUFFICES ASSUME Init PROVE IInv
  OBVIOUS
<1> USE DEF Init, Registry!EmptyRegistry
<1>1. TypeOK
  <2>1. Cleared \in Diagnostics
    BY DEF Diagnostics, Cleared, Lists
  <2>2. /\ completedOrder \in Seq(Ids) /\ inbox \in Seq(Message)
        /\ Len(completedOrder) <= MaxCompletedRequestIds
        /\ rounds \in 0 .. MaxRounds
    BY LspAssumption
  <2>3. QED BY <2>1, <2>2 DEF TypeOK
<1>2. RegistryInv
  BY LspAssumption DEF RegistryInv, Registry!TypeOK, Registry!HistoryInStep,
                       Registry!Distinct,
     Registry!Entries, Registry!RunningIsNotCompleted, Registry!PendingRunsCancelled,
     OneAtATime
<1>3. Shape /\ RegistriesMatchJob /\ LivePublicationIsCurrent
        /\ ShortOnlyIfCancelled
  BY NoMessageServesNothing
     DEF Shape, RegistriesMatchJob, LivePublicationIsCurrent,
         ShortOnlyIfCancelled, Serves, Requests
<1>4. QED BY <1>1, <1>2, <1>3 DEF IInv

LEMMA IInvStep == IInv /\ [Next]_vars => IInv'
<1> SUFFICES ASSUME IInv, [Next]_vars PROVE IInv'
  OBVIOUS
<1>1. CASE Reader
  BY <1>1, ReaderStep
<1>2. CASE Serving
  BY <1>2, ServingStep
<1>3. CASE UNCHANGED vars
  <2> USE <1>3 DEF vars, readerVars, clientVars, servingVars
  <2>1. TypeOK'
    BY DEF IInv, TypeOK, requestVars, documentVars
  <2>2. QED BY <2>1, ReaderOnlyKeepsRest DEF IInv
<1>4. QED BY <1>1, <1>2, <1>3 DEF Next

LEMMA IInvAlways == Spec => []IInv
BY IInvInit, IInvStep, PTL DEF Spec

\* The types of the server's state, whatever the client sends and however the
\* two threads interleave.
THEOREM ServerTypeOK == Spec => []TypeOK
<1>1. IInv => TypeOK
  BY DEF IInv
<1>2. QED BY <1>1, IInvAlways, PTL

\* An analysis or a request is registered with the reader exactly while it
\* runs, under its own token and version.
THEOREM NothingLeaksBetweenJobs == Spec => []RegistriesMatchJob
<1>1. IInv => RegistriesMatchJob
  BY DEF IInv
<1>2. QED BY <1>1, IInvAlways, PTL

\* No interleaving of observe with start_analysis lets a publication of a
\* superseded version run on with its token clear.
THEOREM NoStalePublicationRunsOn == Spec => []LivePublicationIsCurrent
<1>1. IInv => LivePublicationIsCurrent
  BY DEF IInv
<1>2. QED BY <1>1, IInvAlways, PTL

\* A request is never answered with the result of an analysis cut short.
THEOREM ResultsAreWhole == Spec => []AnsweredWhole
<1>1. IInv => AnsweredWhole
  BY DEF IInv, Shape, ShortOnlyIfCancelled, AnsweredWhole, Serves
<1>2. QED BY <1>1, IInvAlways, PTL

\* Whatever the two threads do, the registry's set and queue list the same ids
\* and a request cancelled early runs cancelled.
THEOREM RegistryStaysSound == Spec => []RegistryKept
<1>1. IInv => RegistryKept
  BY DEF IInv, RegistryKept, RegistryInv, Registry!HistoryInStep,
         Registry!PendingRunsCancelled,
         Registry!Distinct, Registry!Entries, Registry!HistoryInStep,
         Registry!PendingRunsCancelled,
         Registry!Distinct, Registry!Entries
<1>2. QED BY <1>1, IInvAlways, PTL

-----------------------------------------------------------------------------
(***************************************************************************)
(* What the server publishes, for every number of documents and versions,  *)
(* to a client that numbers a document's versions across close and open.   *)
(***************************************************************************)

Publishing == stage \in {"analyse", "analysed"} /\ ~Serves(Requests)

\* No text in flight is newer than what the reader recorded when it passed.
Recorded(m) ==
  m.method \in {"open", "change", "garble"} => m.version <= versions[m.uri]

ChannelRecorded ==
  Recorded(reading) /\ \A i \in 1 .. Len(inbox) : Recorded(inbox[i])
DocumentsRecorded == \A u \in Uris : documents[u] <= versions[u]
NoneAhead == ChannelRecorded /\ DocumentsRecorded

\* A raised token means a close or a newer version, and stays meaning it.
RaisedMeansSuperseded ==
  Publishing /\ doc \in cancelled =>
    doc \in closed \/ versions[doc] > documents[doc]

CutShortMeansRaised == Publishing /\ ~whole => doc \in cancelled

PInv ==
  /\ FreshVersions
  /\ IInv
  /\ NoneAhead
  /\ RaisedMeansSuperseded
  /\ CutShortMeansRaised
  /\ PublishedWhole

-----------------------------------------------------------------------------

LEMMA VersionTypes ==
  ASSUME TypeOK
  PROVE  /\ versions \in [Uris -> Nat] /\ documents \in [Uris -> Nat]
         /\ \A m \in Message : m.method \in {"open", "change", "garble"}
              => m.uri \in Uris /\ m.version \in Nat
<1>1. Versions \subseteq Nat /\ Versions \cup {NoVersion} \subseteq Nat
  BY LspAssumption DEF Versions, NoVersion
<1>2. QED BY <1>1, MessageFields DEF TypeOK

\* The reader observes a text that is newer than any before.
LEMMA ObserveTextRaises ==
  ASSUME PInv, NEW u \in Uris, NEW v \in Versions, v > versions[u],
         Observed!ObserveText(u, v), UNCHANGED <<inbox, servingVars>>,
         NEW k \in {"open", "change", "garble"},
         reading' = [method |-> k, uri |-> u, version |-> v]
  PROVE  /\ NoneAhead' /\ RaisedMeansSuperseded'
         /\ CutShortMeansRaised' /\ PublishedWhole'
<1>1. /\ versions \in [Uris -> Nat] /\ documents \in [Uris -> Nat]
      /\ v \in Nat /\ inbox \in Seq(Message)
  BY VersionTypes, LspAssumption DEF PInv, IInv, TypeOK, Versions
<1>2. versions' = [versions EXCEPT ![u] = v]
  <2>1. versions[u] \in Nat
    BY <1>1
  <2>2. v >= versions[u]
    BY <1>1, <2>1
  <2>3. QED BY <2>2 DEF Observed!ObserveText
<1>3. \A w \in Uris : versions'[w] >= versions[w]
  BY <1>1, <1>2
<1>4. NoneAhead'
  <2>1. Recorded(reading)'
    BY <1>1, <1>2 DEF Recorded
  <2>2. ASSUME NEW i \in 1 .. Len(inbox) PROVE Recorded(inbox[i])'
    <3>1. inbox[i] \in Message /\ Recorded(inbox[i])
      BY <1>1 DEF PInv, NoneAhead, ChannelRecorded, DocumentsRecorded
    <3>2. QED BY <1>1, <1>2, <1>3, <3>1, VersionTypes DEF Recorded, PInv, IInv
  <2>3. \A w \in Uris : documents'[w] <= versions'[w]
    BY <1>1, <1>2, <1>3 DEF PInv, NoneAhead, ChannelRecorded, DocumentsRecorded, servingVars
  <2>4. QED BY <2>1, <2>2, <2>3 DEF NoneAhead, ChannelRecorded, DocumentsRecorded
<1>5. RaisedMeansSuperseded'
  <2> SUFFICES ASSUME Publishing, doc \in cancelled'
               PROVE  doc \in closed' \/ versions'[doc] > documents[doc]
    BY DEF RaisedMeansSuperseded, Publishing, Serves, servingVars
  <2>1. doc \in Uris
    BY DEF PInv, IInv, Shape, Publishing
  <2>2. CASE doc = u
    BY <1>1, <1>2, <2>1, <2>2 DEF PInv, NoneAhead, ChannelRecorded, DocumentsRecorded
  <2>3. CASE doc # u
    <3>1. tracked = {[uri |-> doc, version |-> documents[doc], token |-> doc]}
      BY DEF PInv, IInv, RegistriesMatchJob, Token, Publishing, Serves
    <3>2. doc \in cancelled
      BY <2>3, <3>1 DEF Observed!ObserveText
    <3>3. QED BY <1>2, <2>1, <2>3, <3>2
              DEF PInv, RaisedMeansSuperseded, Observed!ObserveText
  <2>4. QED BY <2>2, <2>3
<1>6. CutShortMeansRaised' /\ PublishedWhole'
  BY DEF PInv, CutShortMeansRaised, PublishedWhole, Publishing, Serves,
         servingVars, Observed!ObserveText
<1>7. QED BY <1>4, <1>5, <1>6

LEMMA ReadOpenPublishes ==
  ASSUME PInv, NEW u \in Uris, NEW v \in Versions, ReadOpen(u, v)
  PROVE  PInv'
<1>1. IInv'
  BY ReadOpenStep DEF PInv
<1>2. QED BY <1>1, ObserveTextRaises DEF ReadOpen, PInv

LEMMA ReadChangePublishes ==
  ASSUME PInv, NEW k \in {"change", "garble"}, NEW u \in Uris,
         NEW v \in Versions, ReadChange(k, u, v)
  PROVE  PInv'
<1>1. IInv'
  BY ReadChangeStep DEF PInv
<1>2. QED BY <1>1, ObserveTextRaises DEF ReadChange, PInv

LEMMA ReadClosePublishes ==
  ASSUME PInv, NEW u \in Uris, ReadClose(u)
  PROVE  PInv'
<1> USE DEF ReadClose
<1>1. IInv'
  BY ReadCloseStep DEF PInv
<1>2. NoneAhead'
  BY DEF PInv, NoneAhead, ChannelRecorded, DocumentsRecorded, Recorded, servingVars,
         Observed!ObserveClose
<1>3. RaisedMeansSuperseded'
  <2> SUFFICES ASSUME Publishing, doc \in cancelled', doc # u
               PROVE  doc \in closed' \/ versions'[doc] > documents[doc]
    BY DEF RaisedMeansSuperseded, Publishing, Serves, servingVars,
           Observed!ObserveClose
  <2>1. tracked = {[uri |-> doc, version |-> documents[doc], token |-> doc]}
    BY DEF PInv, IInv, RegistriesMatchJob, Token, Publishing, Serves
  <2>2. doc \in cancelled
    BY <2>1 DEF Observed!ObserveClose
  <2>3. QED BY <2>2 DEF PInv, RaisedMeansSuperseded, Observed!ObserveClose
<1>4. CutShortMeansRaised' /\ PublishedWhole'
  BY DEF PInv, CutShortMeansRaised, PublishedWhole, Publishing, Serves,
         servingVars, Observed!ObserveClose
<1>5. QED BY <1>1, <1>2, <1>3, <1>4 DEF PInv

\* Steps that leave the documents and their tokens alone.
LEMMA ElsewhereKeeps ==
  ASSUME PInv, UNCHANGED <<versions, closed, documents>>,
         cancelled' \cap Uris = cancelled \cap Uris,
         Publishing' => Publishing /\ doc' = doc /\ whole' = whole,
         outbox' \subseteq outbox
  PROVE  /\ RaisedMeansSuperseded' /\ CutShortMeansRaised' /\ PublishedWhole'
         /\ DocumentsRecorded'
<1>1. Publishing => doc \in Uris
  BY DEF PInv, IInv, Shape, Publishing
<1>2. RaisedMeansSuperseded'
  BY <1>1 DEF PInv, RaisedMeansSuperseded
<1>3. CutShortMeansRaised'
  BY <1>1 DEF PInv, CutShortMeansRaised
<1>4. QED BY <1>2, <1>3 DEF PInv, PublishedWhole, NoneAhead, DocumentsRecorded

\* Steps that put no text into the channel.
LEMMA ChannelKeeps ==
  ASSUME PInv, UNCHANGED <<versions, reading>>,
         inbox' = inbox \/ (inbox # <<>> /\ inbox' = Tail(inbox))
  PROVE  ChannelRecorded'
<1>1. inbox \in Seq(Message)
  BY DEF PInv, IInv, TypeOK
<1>2. CASE inbox' = inbox
  BY <1>2 DEF PInv, NoneAhead, ChannelRecorded, Recorded
<1>3. CASE inbox # <<>> /\ inbox' = Tail(inbox)
  <2>1. \A i \in 1 .. Len(inbox') :
          i + 1 \in 1 .. Len(inbox) /\ inbox'[i] = inbox[i + 1]
    BY <1>1, <1>3
  <2>2. QED BY <2>1 DEF PInv, NoneAhead, ChannelRecorded, Recorded
<1>4. QED BY <1>2, <1>3

LEMMA ReadNoText ==
  ASSUME PInv, UNCHANGED <<versions, inbox>>,
         reading'.method \notin {"open", "change", "garble"}
  PROVE  ChannelRecorded'
BY DEF PInv, NoneAhead, ChannelRecorded, Recorded

LEMMA ReadRequestPublishes ==
  ASSUME PInv, NEW m \in Message, m.id \in Ids,
         m.method \notin {"open", "change", "garble"}, ReadRequest(m)
  PROVE  PInv'
<1> USE DEF ReadRequest, servingVars, documentVars
<1>1. IInv'
  BY ReadRequestStep DEF PInv
<1>2. ChannelRecorded'
  BY ReadNoText
<1>3. QED BY <1>1, <1>2, ElsewhereKeeps DEF PInv, NoneAhead, Publishing, Serves

LEMMA ReadCancelPublishes ==
  ASSUME PInv, NEW id \in Ids, ReadCancel(id)
  PROVE  PInv'
<1> USE DEF ReadCancel, servingVars, documentVars
<1>1. IInv'
  BY ReadCancelStep DEF PInv
<1>2. ChannelRecorded'
  BY ReadNoText
<1>3. cancelled' \cap Uris = cancelled \cap Uris
  BY LspAssumption DEF Registry!Cancel
<1>4. QED BY <1>1, <1>2, <1>3, ElsewhereKeeps
          DEF PInv, NoneAhead, Publishing, Serves

LEMMA ReadLastPublishes ==
  ASSUME PInv, NEW method \in {"exit", "end"}, ReadLast(method)
  PROVE  PInv'
<1> USE DEF ReadLast, servingVars, documentVars
<1>1. IInv'
  BY ReadLastStep DEF PInv
<1>2. ChannelRecorded'
  BY ReadNoText
<1>3. QED BY <1>1, <1>2, ElsewhereKeeps DEF PInv, NoneAhead, Publishing, Serves

LEMMA ReaderSendPublishes ==
  ASSUME PInv, ReaderSend
  PROVE  PInv'
<1> USE DEF ReaderSend, servingVars, documentVars
<1>1. IInv'
  BY ReaderSendStep DEF PInv
<1>2. ChannelRecorded'
  <2>1. inbox \in Seq(Message) /\ reading' = NoMessage
    BY DEF PInv, IInv, TypeOK
  <2>2. Recorded(reading)'
    BY <2>1, NoMessageServesNothing DEF Recorded
  <2>3. ASSUME NEW i \in 1 .. Len(inbox') PROVE Recorded(inbox[i])'
    <3>1. CASE i = Len(inbox) + 1
      BY <2>1, <3>1 DEF PInv, NoneAhead, ChannelRecorded, Recorded
    <3>2. CASE i \in 1 .. Len(inbox)
      BY <2>1, <3>2 DEF PInv, NoneAhead, ChannelRecorded, Recorded
    <3>3. QED BY <2>1, <3>1, <3>2
  <2>4. QED BY <2>2, <2>3 DEF ChannelRecorded
<1>3. QED BY <1>1, <1>2, ElsewhereKeeps DEF PInv, NoneAhead, Publishing, Serves

LEMMA ReaderPublishes ==
  ASSUME PInv, Reader
  PROVE  PInv'
<1>1. \A id \in Ids : \A m \in DocumentRequest(id) \cup OtherRequest(id) :
        /\ m \in Message /\ m.id \in Ids
        /\ m.method \notin {"open", "change", "garble"}
  BY DEF DocumentRequest, OtherRequest, Message, PInv, IInv, TypeOK
<1>2. QED
  BY <1>1, ReadOpenPublishes, ReadChangePublishes, ReadClosePublishes,
     ReadRequestPublishes, ReadCancelPublishes, ReadLastPublishes,
     ReaderSendPublishes DEF Reader

-----------------------------------------------------------------------------

LEMMA HandleTextPublishes ==
  ASSUME PInv, NEW m, HandleText(m)
  PROVE  PInv'
<1> USE DEF HandleText, documentVars
<1>1. IInv'
  BY HandleTextStep DEF PInv
<1>2. ChannelRecorded'
  BY ChannelKeeps DEF Receives
<1>3. m \in Message /\ m.uri \in Uris /\ m.version <= versions[m.uri]
  <2>1. m = inbox[1] /\ 1 \in 1 .. Len(inbox) /\ m \in Message
    BY Received DEF PInv, IInv, TypeOK
  <2>2. QED BY <2>1, MessageFields
            DEF PInv, NoneAhead, ChannelRecorded, Recorded
<1>4. DocumentsRecorded'
  BY <1>3, VersionTypes DEF PInv, IInv, NoneAhead, DocumentsRecorded
<1>5. RaisedMeansSuperseded' /\ CutShortMeansRaised' /\ PublishedWhole'
  BY Received, IdleIsClean
     DEF PInv, RaisedMeansSuperseded, CutShortMeansRaised, PublishedWhole,
         Publishing
<1>6. QED BY <1>1, <1>2, <1>4, <1>5 DEF PInv, NoneAhead

LEMMA IgnoreChangePublishes ==
  ASSUME PInv, NEW m, IgnoreChange(m)
  PROVE  PInv'
<1> USE DEF IgnoreChange, documentVars, servingVars
<1>1. IInv'
  BY IgnoreChangeStep DEF PInv
<1>2. ChannelRecorded'
  BY ChannelKeeps DEF Receives
<1>3. QED BY <1>1, <1>2, ElsewhereKeeps DEF PInv, NoneAhead, Publishing, Serves

LEMMA HandleClosePublishes ==
  ASSUME PInv, NEW m, HandleClose(m)
  PROVE  PInv'
<1> USE DEF HandleClose, documentVars
<1>1. IInv'
  BY HandleCloseStep DEF PInv
<1>2. ChannelRecorded'
  BY ChannelKeeps DEF Receives
<1>3. DocumentsRecorded'
  BY VersionTypes, LspAssumption
     DEF PInv, IInv, NoneAhead, DocumentsRecorded, NoVersion
<1>4. RaisedMeansSuperseded' /\ CutShortMeansRaised' /\ PublishedWhole'
  BY Received, IdleIsClean
     DEF PInv, RaisedMeansSuperseded, CutShortMeansRaised, PublishedWhole,
         Publishing, Cleared
<1>5. QED BY <1>1, <1>2, <1>3, <1>4 DEF PInv, NoneAhead

LEMMA HandleRequestPublishes ==
  ASSUME PInv, NEW m, HandleRequest(m)
  PROVE  PInv'
<1> USE DEF HandleRequest, documentVars
<1>1. IInv'
  BY HandleRequestStep DEF PInv
<1>2. ChannelRecorded'
  BY ChannelKeeps DEF Receives
<1>3. m.id \in Ids
  BY Received, MessageFields DEF PInv
<1>4. cancelled' \cap Uris = cancelled \cap Uris
  BY <1>3, LspAssumption DEF Registry!Start
<1>5. ~Publishing'
  BY DEF Publishing
<1>6. QED BY <1>1, <1>2, <1>4, <1>5, ElsewhereKeeps DEF PInv, NoneAhead

LEMMA HandleCancelPublishes ==
  ASSUME PInv, HandleCancel
  PROVE  PInv'
<1> USE DEF HandleCancel, documentVars, servingVars
<1>1. IInv'
  BY HandleCancelStep DEF PInv
<1>2. ChannelRecorded'
  BY ChannelKeeps DEF Receives
<1>3. Head(inbox).id \in Ids
  BY Received, MessageFields DEF PInv
<1>4. cancelled' \cap Uris = cancelled \cap Uris
  BY <1>3, LspAssumption DEF Registry!Cancel
<1>5. QED BY <1>1, <1>2, <1>4, ElsewhereKeeps
          DEF PInv, NoneAhead, Publishing, Serves

LEMMA HandleDirectPublishes ==
  ASSUME PInv, NEW method \in {"direct", "shutdown"}, HandleDirect(method)
  PROVE  PInv'
<1> USE DEF HandleDirect, documentVars
<1>1. IInv'
  BY HandleDirectStep DEF PInv
<1>2. ChannelRecorded'
  BY ChannelKeeps DEF Receives
<1>3. QED BY <1>1, <1>2, ElsewhereKeeps DEF PInv, NoneAhead, Publishing, Serves

LEMMA HandleLastPublishes ==
  ASSUME PInv, NEW method \in {"exit", "end"}, HandleLast(method)
  PROVE  PInv'
<1> USE DEF HandleLast, documentVars
<1>1. IInv'
  BY HandleLastStep DEF PInv
<1>2. ChannelRecorded'
  BY ChannelKeeps DEF Receives
<1>3. QED BY <1>1, <1>2, ElsewhereKeeps DEF PInv, NoneAhead, Publishing

-----------------------------------------------------------------------------

LEMMA PublishStartPublishes ==
  ASSUME PInv, NEW u \in Uris, PublishStart(u)
  PROVE  PInv'
<1> USE DEF PublishStart, readerVars
<1>1. IInv'
  BY PublishStartStep DEF PInv
<1>2. NoneAhead'
  BY DEF PInv, NoneAhead, ChannelRecorded, DocumentsRecorded, Recorded,
         Observed!StartAnalysis
<1>3. RaisedMeansSuperseded' /\ CutShortMeansRaised' /\ PublishedWhole'
  BY DEF PInv, RaisedMeansSuperseded, CutShortMeansRaised, PublishedWhole,
         Observed!StartAnalysis
<1>4. QED BY <1>1, <1>2, <1>3 DEF PInv

LEMMA AnalysePublishes ==
  ASSUME PInv, Analyse
  PROVE  PInv'
<1> USE DEF Analyse, readerVars, documentVars
<1>1. IInv'
  BY AnalyseStep DEF PInv
<1>2. NoneAhead'
  BY DEF PInv, NoneAhead, ChannelRecorded, DocumentsRecorded, Recorded
<1>3. RaisedMeansSuperseded' /\ PublishedWhole'
  BY DEF PInv, RaisedMeansSuperseded, PublishedWhole, Publishing, Serves
<1>4. CutShortMeansRaised'
  BY DEF PInv, CutShortMeansRaised, Publishing, Serves, Token
<1>5. QED BY <1>1, <1>2, <1>3, <1>4 DEF PInv

\* The publication that survives is_current was not cut short.
LEMMA PublishAnalysedPublishes ==
  ASSUME PInv, PublishAnalysed
  PROVE  PInv'
<1> USE DEF PublishAnalysed, readerVars
<1>1. IInv'
  BY PublishAnalysedStep DEF PInv
<1>2. UNCHANGED <<versions, closed, cancelled>>
  BY DEF Observed!FinishAnalysis
<1>3. NoneAhead'
  BY <1>2 DEF PInv, NoneAhead, ChannelRecorded, DocumentsRecorded, Recorded
<1>4. PublishedWhole'
  <2> SUFFICES ASSUME Observed!IsCurrent(doc, documents[doc]) PROVE whole
    BY DEF PInv, PublishedWhole, Report
  <2>1. Publishing /\ doc \in Uris
    BY DEF PInv, IInv, Shape, Publishing, Serves
  <2>2. doc \notin closed /\ ~(versions[doc] > documents[doc])
    BY <2>1, VersionTypes DEF Observed!IsCurrent, PInv, IInv
  <2>3. QED BY <2>1, <2>2 DEF PInv, RaisedMeansSuperseded, CutShortMeansRaised,
                              IInv, TypeOK
<1>5. RaisedMeansSuperseded' /\ CutShortMeansRaised'
  BY DEF RaisedMeansSuperseded, CutShortMeansRaised, Publishing
<1>6. QED BY <1>1, <1>3, <1>4, <1>5 DEF PInv

\* Steps of the serving thread that touch neither channel, documents,
\* versions nor a publication's token.
LEMMA JobStepKeeps ==
  ASSUME PInv, IInv', UNCHANGED <<versions, closed, cancelled, documents>>,
         UNCHANGED readerVars,
         Publishing' => Publishing /\ doc' = doc /\ whole' = whole,
         outbox' \subseteq outbox
  PROVE  PInv'
<1>1. ChannelRecorded'
  BY DEF PInv, NoneAhead, ChannelRecorded, Recorded, readerVars
<1>2. QED BY <1>1, ElsewhereKeeps DEF PInv, NoneAhead

LEMMA OtherServingPublishes ==
  ASSUME PInv,
         \/ \E u \in Uris : PublishSkip(u) \/ TrackNext(u)
         \/ PublishSyntax \/ RequestAnalysed \/ Publish \/ Decide \/ Respond
  PROVE  PInv'
<1> USE JobStepKeeps DEF Publishing, Serves, documentVars, readerVars
<1>1. CASE \E u \in Uris : PublishSkip(u)
  BY <1>1, PublishSkipStep DEF PublishSkip, PInv
<1>2. CASE \E u \in Uris : TrackNext(u)
  <2>1. PICK u \in Uris : TrackNext(u)
    BY <1>2
  <2>2. job.method \in Requests
    BY <2>1 DEF TrackNext, PInv, IInv, Shape
  <2>3. QED BY <2>1, <2>2, TrackNextStep
            DEF TrackNext, Observed!TrackAnalysis, PInv
<1>3. CASE PublishSyntax
  BY <1>3, PublishSyntaxStep DEF PublishSyntax, PInv
<1>4. CASE RequestAnalysed
  BY <1>4, RequestAnalysedStep
     DEF RequestAnalysed, Observed!FinishAnalysis, PInv
<1>5. CASE Publish
  BY <1>5, PublishStep DEF Publish, BackToIdle, PInv
<1>6. CASE Decide
  BY <1>6, DecideStep DEF Decide, PInv
<1>7. CASE Respond
  BY <1>7, RespondStep DEF Respond, BackToIdle, Registry!Finish, PInv
<1>8. QED BY <1>1, <1>2, <1>3, <1>4, <1>5, <1>6, <1>7

LEMMA ServingPublishes ==
  ASSUME PInv, Serving
  PROVE  PInv'
BY HandleTextPublishes, IgnoreChangePublishes, HandleClosePublishes,
   HandleRequestPublishes, HandleCancelPublishes, HandleDirectPublishes,
   HandleLastPublishes, PublishStartPublishes, AnalysePublishes,
   PublishAnalysedPublishes, OtherServingPublishes DEF Serving, Handle

LEMMA PInvInit == Init /\ FreshVersions => PInv
<1> SUFFICES ASSUME Init, FreshVersions PROVE PInv
  OBVIOUS
<1>1. NoneAhead
  BY NoMessageServesNothing
     DEF Init, NoneAhead, ChannelRecorded, DocumentsRecorded, Recorded, NoVersion
<1>2. RaisedMeansSuperseded /\ CutShortMeansRaised /\ PublishedWhole
  BY DEF Init, RaisedMeansSuperseded, CutShortMeansRaised, PublishedWhole,
         Publishing
<1>3. QED BY <1>1, <1>2, IInvInit DEF PInv

LEMMA PInvStep == PInv /\ [Next]_vars => PInv'
<1> SUFFICES ASSUME PInv, [Next]_vars PROVE PInv'
  OBVIOUS
<1>1. CASE Reader
  BY <1>1, ReaderPublishes
<1>2. CASE Serving
  BY <1>2, ServingPublishes
<1>3. CASE UNCHANGED vars
  BY <1>3, IInvStep, JobStepKeeps
     DEF PInv, vars, documentVars, servingVars, Publishing, Serves
<1>4. QED BY <1>1, <1>2, <1>3 DEF Next

\* The diagnostics the server writes never stem from an analysis that was cut
\* short, whatever is edited, closed and reopened meanwhile, provided the
\* client does not reuse a version of a document.  (One that does can see an
\* empty list: close and reopen at the analysed version, between the analysis
\* and its is_current.)
THEOREM PublicationsAreWhole == Spec /\ FreshVersions => []PublishedWhole
<1>1. PInv => PublishedWhole
  BY DEF PInv
<1>2. QED BY <1>1, PInvInit, PInvStep, PTL DEF Spec

\* To such a client nothing is sent that stems from an analysis cut short,
\* neither published nor as the answer to a request.
THEOREM NothingPartialIsSent == Spec /\ FreshVersions => []NothingPartialLeaves
BY PublicationsAreWhole, ResultsAreWhole, PTL DEF NothingPartialLeaves

-----------------------------------------------------------------------------
(***************************************************************************)
(* What the client sent and the server has not taken up: the channel and   *)
(* the message the reader is about to send on it.  Every step leaves it    *)
(* alone, adds a message at its end or takes the first.                    *)
(***************************************************************************)

Sent == IF reading = NoMessage THEN inbox ELSE Append(inbox, reading)

Appended(m) ==
  /\ Len(Sent') = Len(Sent) + 1
  /\ Sent'[Len(Sent) + 1] = m
  /\ \A i \in 1 .. Len(Sent) : Sent'[i] = Sent[i]

Taken(m) ==
  /\ Len(Sent) = Len(Sent') + 1
  /\ Sent[1] = m
  /\ \A i \in 1 .. Len(Sent') : Sent'[i] = Sent[i + 1]

LEMMA SentTypes ==
  ASSUME TypeOK
  PROVE  /\ Sent \in Seq(Message) /\ Len(Sent) \in Nat
         /\ \A i \in 1 .. Len(Sent) : Sent[i] \in Message
<1>1. inbox \in Seq(Message) /\ reading \in Message \cup {NoMessage}
  BY DEF TypeOK
<1>2. Sent \in Seq(Message)
  BY <1>1 DEF Sent
<1>3. QED BY <1>2

LEMMA SentLength ==
  ASSUME IInv'
  PROVE  Len(Sent') \in Nat
<1>1. inbox' \in Seq(Message) /\ reading' \in Message \cup {NoMessage}
  BY DEF IInv, TypeOK
<1>2. Sent' \in Seq(Message)
  BY <1>1 DEF Sent
<1>3. QED BY <1>2

LEMMA MessageIsSome == NoMessage \notin Message
BY MessageFields, NoMessageServesNothing DEF AllMethods, Requests

LEMMA ReadsAppend ==
  ASSUME TypeOK, reading = NoMessage, NEW m \in Message, reading' = m,
         inbox' = inbox
  PROVE  Appended(m)
<1>1. inbox \in Seq(Message) /\ m # NoMessage
  BY MessageIsSome DEF TypeOK
<1>2. Sent = inbox /\ Sent' = Append(inbox, m)
  BY <1>1 DEF Sent
<1>3. QED BY <1>1, <1>2 DEF Appended

LEMMA ReceivesTakes ==
  ASSUME IInv, NEW method, Receives(method), reading' = reading
  PROVE  Taken(Head(inbox)) /\ Head(inbox) \in Message
<1>1. /\ inbox \in Seq(Message) /\ inbox # <<>> /\ inbox' = Tail(inbox)
      /\ reading \in Message \cup {NoMessage}
  BY DEF Receives, IInv, TypeOK
<1>2. CASE reading = NoMessage
  <2>1. Sent = inbox /\ Sent' = Tail(inbox)
    BY <1>1, <1>2 DEF Sent
  <2>2. QED BY <1>1, <2>1 DEF Taken
<1>3. CASE reading # NoMessage
  <2>1. Sent = Append(inbox, reading) /\ Sent' = Append(Tail(inbox), reading)
    BY <1>1, <1>3 DEF Sent
  <2>2. reading \in Message
    BY <1>1, <1>3
  <2>3. Len(Tail(inbox)) = Len(inbox) - 1 /\ Len(inbox) \in Nat \ {0}
    BY <1>1
  <2>4. Len(Sent) = Len(inbox) + 1 /\ Len(Sent') = Len(inbox)
    BY <1>1, <2>1, <2>2, <2>3
  <2>5. Sent[1] = Head(inbox)
    BY <1>1, <2>1, <2>2, <2>3
  <2>6. ASSUME NEW i \in 1 .. Len(Sent')
        PROVE  Sent'[i] = Sent[i + 1]
    <3>1. CASE i = Len(inbox)
      <4> DEFINE t == Tail(inbox)
      <4>a. t \in Seq(Message) /\ Len(t) + 1 = i
        BY <1>1, <2>3, <3>1
      <4>1. Append(t, reading)[i] = reading
        <5> HIDE DEF t
        <5>1. QED BY <2>2, <4>a
      <4>2. Append(inbox, reading)[Len(inbox) + 1] = reading
        BY <1>1, <2>2
      <4>3. QED BY <2>1, <3>1, <4>1, <4>2
    <3>2. CASE i # Len(inbox)
      <4> DEFINE n == Len(inbox)
      <4>a. i \in 1 .. n /\ n \in Nat \ {0} /\ i # n
        BY <2>3, <2>4, <3>2
      <4>1. i \in 1 .. n - 1
        <5> HIDE DEF n
        <5>1. QED BY <4>a
      <4>2. Append(Tail(inbox), reading)[i] = Tail(inbox)[i]
        BY <1>1, <2>2, <2>3, <4>1
      <4>3. Append(inbox, reading)[i + 1] = inbox[i + 1]
        BY <1>1, <2>2, <2>3, <4>1
      <4>4. Tail(inbox)[i] = inbox[i + 1]
        BY <1>1, <2>3, <4>1
      <4>5. QED BY <2>1, <4>2, <4>3, <4>4
    <3>3. QED BY <3>1, <3>2
  <2>7. QED BY <1>1, <2>3, <2>4, <2>5, <2>6 DEF Taken
<1>4. QED BY <1>2, <1>3

LEMMA SendingKeepsSent ==
  ASSUME ReaderSend
  PROVE  Sent' = Sent
BY DEF ReaderSend, Sent

\* What the reader reads: the message, and what goes with it.
Reading(m) ==
  \/ \E u \in Uris, v \in Versions :
       \/ ReadOpen(u, v) /\ m = [method |-> "open", uri |-> u, version |-> v]
       \/ \E k \in {"change", "garble"} :
            ReadChange(k, u, v) /\ m = [method |-> k, uri |-> u, version |-> v]
  \/ \E u \in Uris : ReadClose(u) /\ m = [method |-> "close", uri |-> u]
  \/ ReadRequest(m) /\ \E id \in Ids : m \in DocumentRequest(id) \cup OtherRequest(id)
  \/ \E id \in Ids : ReadCancel(id) /\ m = [method |-> "cancel", id |-> id]
  \/ \E k \in {"exit", "end"} : ReadLast(k) /\ m = [method |-> k]

LEMMA ReaderReads ==
  ASSUME TypeOK, Reader
  PROVE  /\ UNCHANGED servingVars
         /\ \/ ReaderSend
            \/ \E m \in Message : Reading(m) /\ Appended(m)
<1>1. CASE ReaderSend
  BY <1>1 DEF ReaderSend
<1>2. ASSUME NEW u \in Uris, NEW v \in Versions, ReadOpen(u, v)
      PROVE  \E m \in Message : Reading(m) /\ Appended(m)
  <2> DEFINE m == [method |-> "open", uri |-> u, version |-> v]
  <2>1. m \in Message
    BY DEF Message
  <2>2. Reading(m)
    BY <1>2 DEF Reading
  <2>3. Appended(m)
    BY <1>2, <2>1, ReadsAppend DEF ReadOpen, Reads
  <2>4. QED BY <2>1, <2>2, <2>3
<1>3. ASSUME NEW k \in {"change", "garble"}, NEW u \in Uris, NEW v \in Versions,
             ReadChange(k, u, v)
      PROVE  \E m \in Message : Reading(m) /\ Appended(m)
  <2> DEFINE m == [method |-> k, uri |-> u, version |-> v]
  <2>1. m \in Message
    BY DEF Message
  <2>2. Reading(m)
    BY <1>3 DEF Reading
  <2>3. Appended(m)
    BY <1>3, <2>1, ReadsAppend DEF ReadChange, Reads
  <2>4. QED BY <2>1, <2>2, <2>3
<1>4. ASSUME NEW u \in Uris, ReadClose(u)
      PROVE  \E m \in Message : Reading(m) /\ Appended(m)
  <2> DEFINE m == [method |-> "close", uri |-> u]
  <2>1. m \in Message
    BY DEF Message
  <2>2. Reading(m)
    BY <1>4 DEF Reading
  <2>3. Appended(m)
    BY <1>4, <2>1, ReadsAppend DEF ReadClose, Reads
  <2>4. QED BY <2>1, <2>2, <2>3
<1>5. ASSUME NEW id \in Ids, NEW m \in DocumentRequest(id) \cup OtherRequest(id),
             ReadRequest(m)
      PROVE  \E n \in Message : Reading(n) /\ Appended(n)
  <2>1. m \in Message
    BY DEF DocumentRequest, OtherRequest, Message, TypeOK
  <2>2. Reading(m)
    BY <1>5 DEF Reading
  <2>3. Appended(m)
    BY <1>5, <2>1, ReadsAppend DEF ReadRequest, Reads
  <2>4. QED BY <2>1, <2>2, <2>3
<1>6. ASSUME NEW id \in Ids, ReadCancel(id)
      PROVE  \E m \in Message : Reading(m) /\ Appended(m)
  <2> DEFINE m == [method |-> "cancel", id |-> id]
  <2>1. m \in Message
    BY DEF Message
  <2>2. Reading(m)
    BY <1>6 DEF Reading
  <2>3. Appended(m)
    BY <1>6, <2>1, ReadsAppend DEF ReadCancel, Reads
  <2>4. QED BY <2>1, <2>2, <2>3
<1>7. ASSUME NEW k \in {"exit", "end"}, ReadLast(k)
      PROVE  \E m \in Message : Reading(m) /\ Appended(m)
  <2> DEFINE m == [method |-> k]
  <2>1. m \in Message
    BY DEF Message
  <2>2. Reading(m)
    BY <1>7 DEF Reading
  <2>3. Appended(m)
    BY <1>7, <2>1, ReadsAppend DEF ReadLast, Reads
  <2>4. QED BY <2>1, <2>2, <2>3
<1>8. UNCHANGED servingVars
  BY DEF Reader, ReadOpen, ReadChange, ReadClose, ReadRequest, ReadCancel,
         ReadLast, ReaderSend
<1>9. ReaderSend \/ \E m \in Message : Reading(m) /\ Appended(m)
  BY <1>1, <1>2, <1>3, <1>4, <1>5, <1>6, <1>7 DEF Reader
<1>10. QED BY <1>8, <1>9

\* The steps of a job after its message was taken and before its end.
Inner ==
  \/ \E u \in Uris : PublishSkip(u) \/ PublishStart(u) \/ TrackNext(u)
  \/ PublishSyntax \/ Analyse \/ RequestAnalysed \/ PublishAnalysed \/ Decide

LEMMA InnerKeeps ==
  ASSUME Inner
  PROVE  /\ UNCHANGED <<clientVars, readerVars, documents, job>>
         /\ Sent' = Sent
         /\ stage # "idle"
<1>1. /\ UNCHANGED <<clientVars, readerVars, documents, job>>
      /\ stage # "idle"
  BY DEF Inner, PublishSkip, PublishStart, TrackNext, PublishSyntax, Analyse,
         RequestAnalysed, PublishAnalysed, Decide, clientVars, readerVars
<1>2. QED BY <1>1 DEF readerVars, Sent

LEMMA HandleTakes ==
  ASSUME IInv, Handle
  PROVE  /\ Taken(Head(inbox)) /\ Head(inbox) \in Message
         /\ stage = "idle" /\ job = NoMessage
         /\ UNCHANGED <<opened, asked, shown>>
<1>1. /\ UNCHANGED <<opened, asked, shown, reading>>
      /\ Receives(Head(inbox).method)
  BY DEF Handle, HandleText, IgnoreChange, HandleClose, HandleRequest,
         HandleCancel, HandleDirect, HandleLast, clientVars, Receives
<1>2. stage = "idle"
  BY <1>1 DEF Receives
<1>3. QED BY <1>1, <1>2, ReceivesTakes, IdleIsClean

-----------------------------------------------------------------------------
(***************************************************************************)
(* Every request is in one place until it is answered.                     *)
(***************************************************************************)

Waits(id) == Names(job, id) \/ \E i \in 1 .. Len(Sent) : Names(Sent[i], id)

Conserved ==
  \A id \in Ids :
    /\ status[id] = "waiting" <=> Waits(id)
    /\ \A i, j \in 1 .. Len(Sent) :
         Names(Sent[i], id) /\ Names(Sent[j], id) => i = j
    /\ Names(job, id) => \A i \in 1 .. Len(Sent) : ~Names(Sent[i], id)

LEMMA NoMessageNamesNone ==
  ASSUME NEW id
  PROVE  ~Names(NoMessage, id)
BY NoMessageServesNothing DEF Names, Requests

LEMMA ConservedInit ==
  ASSUME Init
  PROVE  Conserved
<1>1. Len(Sent) = 0 /\ job = NoMessage /\ \A id \in Ids : status[id] = "unused"
  BY DEF Init, Sent
<1>2. 1 .. Len(Sent) = {}
  BY <1>1
<1>3. QED BY <1>1, <1>2, NoMessageNamesNone DEF Conserved, Waits

\* A step that moves no request.
LEMMA ConservedSame ==
  ASSUME Conserved, Sent' = Sent, status' = status,
         \A id \in Ids : Names(job', id) <=> Names(job, id)
  PROVE  Conserved'
BY DEF Conserved, Waits

LEMMA ConservedReading ==
  ASSUME TypeOK, Conserved, NEW m \in Message, Reading(m), Appended(m),
         job' = job
  PROVE  Conserved'
<1>1. Len(Sent) \in Nat
  BY SentTypes
<1>2. CASE /\ ReadRequest(m)
           /\ \E id \in Ids : m \in DocumentRequest(id) \cup OtherRequest(id)
  <2>1. /\ m.id \in Ids /\ m.method \in Requests \cup {"direct", "shutdown"}
        /\ status[m.id] # "waiting"
        /\ status' = [status EXCEPT ![m.id] = "waiting"]
    BY <1>2 DEF ReadRequest, DocumentRequest, OtherRequest, Requests
  <2>2. ASSUME NEW id \in Ids, id = m.id
        PROVE  /\ status'[id] = "waiting"
               /\ ~Names(job, id)
               /\ \A i \in 1 .. Len(Sent) : ~Names(Sent[i], id)
    BY <2>1, <2>2 DEF Conserved, Waits, TypeOK
  <2>3. Names(m, m.id)
    BY <2>1 DEF Names
  <2>4. ASSUME NEW id \in Ids, id # m.id
        PROVE  ~Names(m, id) /\ status'[id] = status[id]
    BY <2>1, <2>4 DEF Names, TypeOK
  <2>5. ASSUME NEW id \in Ids, id = m.id
        PROVE  /\ status'[id] = "waiting" <=> Waits(id)'
               /\ \A i, j \in 1 .. Len(Sent') :
                    Names(Sent'[i], id) /\ Names(Sent'[j], id) => i = j
               /\ Names(job', id) => \A i \in 1 .. Len(Sent') : ~Names(Sent'[i], id)
    <3>1. \A i \in 1 .. Len(Sent') : Names(Sent'[i], id) <=> i = Len(Sent')
      BY <1>1, <2>2, <2>3, <2>5 DEF Appended
    <3>2. Len(Sent') \in 1 .. Len(Sent')
      BY <1>1 DEF Appended
    <3>3. QED BY <2>2, <2>5, <3>1, <3>2 DEF Waits
  <2>6. ASSUME NEW id \in Ids, id # m.id
        PROVE  /\ status'[id] = "waiting" <=> Waits(id)'
               /\ \A i, j \in 1 .. Len(Sent') :
                    Names(Sent'[i], id) /\ Names(Sent'[j], id) => i = j
               /\ Names(job', id) => \A i \in 1 .. Len(Sent') : ~Names(Sent'[i], id)
    <3>1. \A i \in 1 .. Len(Sent') : Names(Sent'[i], id) <=>
            i \in 1 .. Len(Sent) /\ Names(Sent[i], id)
      BY <1>1, <2>4, <2>6 DEF Appended
    <3>2. 1 .. Len(Sent) \subseteq 1 .. Len(Sent')
      BY <1>1 DEF Appended
    <3>3. QED BY <2>4, <2>6, <3>1, <3>2 DEF Conserved, Waits
  <2>7. QED BY <2>5, <2>6 DEF Conserved
<1>3. CASE ~ /\ ReadRequest(m)
             /\ \E id \in Ids : m \in DocumentRequest(id) \cup OtherRequest(id)
  <2>1. /\ status' = status
        /\ m.method \in {"open", "change", "garble", "close", "cancel", "exit", "end"}
    BY <1>3 DEF Reading, ReadOpen, ReadChange, ReadClose, ReadCancel, ReadLast,
                clientVars
  <2>2. \A id \in Ids : ~Names(m, id)
    BY <2>1 DEF Names, Requests
  <2>3. ASSUME NEW id \in Ids
        PROVE  /\ \A i \in 1 .. Len(Sent') : Names(Sent'[i], id) <=>
                    i \in 1 .. Len(Sent) /\ Names(Sent[i], id)
               /\ 1 .. Len(Sent) \subseteq 1 .. Len(Sent')
    BY <1>1, <2>2 DEF Appended
  <2>4. QED BY <2>1, <2>3 DEF Conserved, Waits
<1>4. QED BY <1>2, <1>3

\* The first message is taken; a request becomes the job, or is answered.
LEMMA ConservedTaken ==
  ASSUME TypeOK, Conserved, NEW m \in Message, Taken(m), job = NoMessage,
         \/ status' = status /\ \A id \in Ids : Names(job', id) <=> Names(m, id)
         \/ /\ job' = NoMessage /\ m.id \in Ids /\ Names(m, m.id)
            /\ \E outcome \in Outcomes : status' = [status EXCEPT ![m.id] = outcome]
  PROVE  Conserved'
<1>1. Len(Sent) \in Nat /\ Len(Sent') \in Nat /\ Len(Sent) = Len(Sent') + 1
  BY SentTypes DEF Taken
<1>2. ASSUME NEW i \in 1 .. Len(Sent')
      PROVE  i + 1 \in 1 .. Len(Sent) /\ i + 1 # 1
  BY <1>1
<1>3. 1 \in 1 .. Len(Sent)
  BY <1>1
<1>4. ASSUME NEW j \in 1 .. Len(Sent), j # 1
      PROVE  \E i \in 1 .. Len(Sent') : j = i + 1
  <2>1. j - 1 \in 1 .. Len(Sent') /\ j = (j - 1) + 1
    BY <1>1, <1>4
  <2>2. QED BY <2>1
<1>5. ASSUME NEW id \in Ids
      PROVE  /\ \A i, j \in 1 .. Len(Sent') :
                  Names(Sent'[i], id) /\ Names(Sent'[j], id) => i = j
             /\ Names(m, id) => \A i \in 1 .. Len(Sent') : ~Names(Sent'[i], id)
             /\ Waits(id) <=> Names(m, id) \/ \E i \in 1 .. Len(Sent') : Names(Sent'[i], id)
  <2>1. \A i, j \in 1 .. Len(Sent') :
          Names(Sent'[i], id) /\ Names(Sent'[j], id) => i = j
    <3> SUFFICES ASSUME NEW i \in 1 .. Len(Sent'), NEW j \in 1 .. Len(Sent'),
                        Names(Sent'[i], id), Names(Sent'[j], id)
                 PROVE  i = j
      OBVIOUS
    <3>1. Names(Sent[i + 1], id) /\ Names(Sent[j + 1], id)
      BY DEF Taken
    <3>2. i + 1 = j + 1
      BY <1>2, <3>1 DEF Conserved
    <3>3. QED BY <1>1, <3>2
  <2>2. Names(m, id) => \A i \in 1 .. Len(Sent') : ~Names(Sent'[i], id)
    <3> SUFFICES ASSUME Names(m, id), NEW i \in 1 .. Len(Sent'), Names(Sent'[i], id)
                 PROVE  FALSE
      OBVIOUS
    <3>1. Names(Sent[i + 1], id) /\ Names(Sent[1], id)
      BY DEF Taken
    <3>2. QED BY <1>2, <1>3, <3>1 DEF Conserved
  <2>3. Waits(id) <=> Names(m, id) \/ \E i \in 1 .. Len(Sent') : Names(Sent'[i], id)
    <3>1. ASSUME NEW j \in 1 .. Len(Sent), Names(Sent[j], id), ~Names(m, id)
          PROVE  \E i \in 1 .. Len(Sent') : Names(Sent'[i], id)
      <4>1. j # 1
        BY <3>1 DEF Taken
      <4>2. PICK i \in 1 .. Len(Sent') : j = i + 1
        BY <1>4, <4>1
      <4>3. QED BY <3>1, <4>2 DEF Taken
    <3>2. ASSUME NEW i \in 1 .. Len(Sent'), Names(Sent'[i], id)
          PROVE  Waits(id)
      BY <1>2, <3>2 DEF Taken, Waits
    <3>3. Names(m, id) => Waits(id)
      BY <1>3 DEF Taken, Waits
    <3>4. QED BY <3>1, <3>2, <3>3, NoMessageNamesNone DEF Waits
  <2>4. QED BY <2>1, <2>2, <2>3
<1>6. CASE status' = status /\ \A id \in Ids : Names(job', id) <=> Names(m, id)
  BY <1>5, <1>6 DEF Conserved, Waits
<1>7. CASE /\ job' = NoMessage /\ m.id \in Ids /\ Names(m, m.id)
           /\ \E outcome \in Outcomes : status' = [status EXCEPT ![m.id] = outcome]
  <2>1. PICK outcome \in Outcomes : status' = [status EXCEPT ![m.id] = outcome]
    BY <1>7
  <2>2. outcome # "waiting"
    BY DEF Outcomes
  <2>3. status'[m.id] # "waiting" /\ ~Waits(m.id)'
    BY <1>5, <1>7, <2>1, <2>2, NoMessageNamesNone DEF Waits, TypeOK
  <2>4. ASSUME NEW id \in Ids, id # m.id
        PROVE  status'[id] = status[id] /\ (Waits(id)' <=> Waits(id))
    <3>1. status'[id] = status[id]
      BY <2>1, <2>4 DEF TypeOK
    <3>2. ~Names(m, id)
      BY <2>4 DEF Names
    <3>3. QED BY <1>5, <1>7, <3>1, <3>2, NoMessageNamesNone DEF Waits
  <2>5. QED BY <1>5, <1>7, <2>3, <2>4, NoMessageNamesNone DEF Conserved
<1>8. QED BY <1>6, <1>7

LEMMA ConservedHandle ==
  ASSUME IInv, Conserved, Handle
  PROVE  Conserved'
<1> DEFINE m == Head(inbox)
<1>1. /\ TypeOK /\ m \in Message /\ Taken(m) /\ job = NoMessage
  BY HandleTakes DEF IInv
<1>2. CASE HandleText(m) \/ IgnoreChange(m) \/ HandleClose(m) \/ HandleCancel
  <2>1. /\ status' = status /\ job' \in {job, m}
        /\ m.method \in {"open", "change", "garble", "close", "cancel"}
    BY <1>2 DEF HandleText, IgnoreChange, HandleClose, HandleCancel, Receives,
                clientVars, servingVars
  <2>2. \A id \in Ids : ~Names(m, id) /\ ~Names(job', id)
    BY <1>1, <2>1, NoMessageNamesNone DEF Names, Requests
  <2>3. QED BY <1>1, <2>1, <2>2, ConservedTaken
<1>3. CASE HandleRequest(m)
  <2>1. status' = status /\ job' = m
    BY <1>3 DEF HandleRequest, clientVars
  <2>2. QED BY <1>1, <2>1, ConservedTaken
<1>4. CASE HandleDirect("direct") \/ HandleDirect("shutdown")
  <2>1. /\ status' = [status EXCEPT ![m.id] = "result"] /\ job' = NoMessage
        /\ m.method \in {"direct", "shutdown"}
    BY <1>1, <1>4 DEF HandleDirect, Receives
  <2>2. m.id \in Ids /\ Names(m, m.id)
    BY <1>1, <2>1, MessageFields DEF Names
  <2>3. "result" \in Outcomes
    BY DEF Outcomes
  <2>4. QED BY <1>1, <2>1, <2>2, <2>3, ConservedTaken
<1>5. CASE HandleLast("exit") \/ HandleLast("end")
  <2>1. status' = status /\ job' = job /\ m.method \in {"exit", "end"}
    BY <1>5 DEF HandleLast, clientVars, Receives
  <2>2. \A id \in Ids : ~Names(m, id) /\ ~Names(job', id)
    BY <1>1, <2>1, NoMessageNamesNone DEF Names, Requests
  <2>3. QED BY <1>1, <2>1, <2>2, ConservedTaken
<1>6. QED BY <1>2, <1>3, <1>4, <1>5 DEF Handle

\* What ends a job: the display of what it found, or the answer.
LEMMA EndKeeps ==
  ASSUME Publish \/ Respond
  PROVE  /\ UNCHANGED <<opened, asked, versions, closed, documents>>
         /\ Sent' = Sent
         /\ stage' = "idle" /\ job' = NoMessage
BY DEF Publish, Respond, BackToIdle, readerVars, Sent, documentVars

LEMMA ConservedRespond ==
  ASSUME IInv, Conserved, Respond
  PROVE  Conserved'
<1>1. /\ job.method \in Requests /\ job.id \in Ids /\ answer \in Outcomes
      /\ status' = [status EXCEPT ![job.id] = answer]
  <2>1. job.method \in Requests /\ answer \in Outcomes
    BY DEF Respond, IInv, Shape, Serves
  <2>2. job \in Message
    BY <2>1, NoMessageServesNothing DEF IInv, TypeOK, Requests
  <2>3. QED BY <2>1, <2>2, MessageFields DEF Respond
<1>2. Sent' = Sent /\ job' = NoMessage
  BY EndKeeps
<1>3. answer # "waiting" /\ Names(job, job.id)
  BY <1>1 DEF Outcomes, Names
<1>4. \A id \in Ids : ~Names(job', id)
  BY <1>2, NoMessageNamesNone
<1>5. ASSUME NEW id \in Ids, id = job.id
      PROVE  status'[id] # "waiting" /\ ~Waits(id)'
  <2>1. Names(job, id)
    BY <1>3, <1>5
  <2>2. \A i \in 1 .. Len(Sent) : ~Names(Sent[i], id)
    BY <2>1 DEF Conserved
  <2>3. status'[id] # "waiting"
    BY <1>1, <1>3, <1>5 DEF IInv, TypeOK
  <2>4. QED BY <1>2, <1>4, <2>2, <2>3 DEF Waits
<1>6. ASSUME NEW id \in Ids, id # job.id
      PROVE  status'[id] = status[id] /\ (Waits(id)' <=> Waits(id))
  <2>1. status'[id] = status[id]
    BY <1>1, <1>6 DEF IInv, TypeOK
  <2>2. ~Names(job, id)
    BY <1>6 DEF Names
  <2>3. QED BY <1>2, <1>4, <2>1, <2>2 DEF Waits
<1>7. \A id \in Ids : status'[id] = "waiting" <=> Waits(id)'
  BY <1>5, <1>6 DEF Conserved
<1>8. QED BY <1>2, <1>4, <1>7 DEF Conserved

LEMMA ConservedPublish ==
  ASSUME IInv, Conserved, Publish
  PROVE  Conserved'
<1>1. job.method \in {"open", "change", "close"}
  BY DEF Publish, IInv, Shape
<1>2. \A id \in Ids : ~Names(job, id) /\ ~Names(NoMessage, id)
  BY <1>1, NoMessageNamesNone DEF Names, Requests
<1>3. Sent' = Sent /\ status' = status /\ job' = NoMessage
  BY EndKeeps DEF Publish
<1>4. QED BY <1>2, <1>3, ConservedSame

\* The kinds of steps of the server.
LEMMA KindsOfSteps ==
  ASSUME [Next]_vars
  PROVE  Reader \/ Handle \/ Inner \/ Publish \/ Respond \/ UNCHANGED vars
BY DEF Next, Serving, Inner

LEMMA ConservedStep ==
  ASSUME IInv, Conserved, [Next]_vars
  PROVE  Conserved'
<1>1. CASE Reader
  <2>1. UNCHANGED servingVars /\ TypeOK
    BY <1>1, ReaderReads DEF IInv
  <2>2. CASE ReaderSend
    <3>1. Sent' = Sent /\ status' = status
      BY <2>2, SendingKeepsSent DEF ReaderSend, clientVars
    <3>2. job' = job
      BY <2>1 DEF servingVars
    <3>3. QED BY <3>1, <3>2, ConservedSame
  <2>3. CASE \E m \in Message : Reading(m) /\ Appended(m)
    <3>1. PICK m \in Message : Reading(m) /\ Appended(m)
      BY <2>3
    <3>2. job' = job
      BY <2>1 DEF servingVars
    <3>3. QED BY <2>1, <3>1, <3>2, ConservedReading
  <2>4. QED BY <1>1, <2>1, <2>2, <2>3, ReaderReads
<1>2. CASE Handle
  BY <1>2, ConservedHandle
<1>3. CASE Inner
  BY <1>3, InnerKeeps, ConservedSame DEF clientVars
<1>4. CASE Publish
  BY <1>4, ConservedPublish
<1>5. CASE Respond
  BY <1>5, ConservedRespond
<1>6. CASE UNCHANGED vars
  <2>1. Sent' = Sent /\ status' = status /\ job' = job
    BY <1>6 DEF vars, clientVars, readerVars, servingVars, Sent
  <2>2. QED BY <2>1, ConservedSame
<1>7. QED BY <1>1, <1>2, <1>3, <1>4, <1>5, <1>6, KindsOfSteps

\* Where the messages of the channel and of the reader stand in the line.
LEMMA SentPlaces ==
  ASSUME TypeOK
  PROVE  /\ Len(inbox) \in Nat
         /\ \A i \in 1 .. Len(inbox) : i \in 1 .. Len(Sent) /\ Sent[i] = inbox[i]
         /\ reading = NoMessage => Len(Sent) = Len(inbox)
         /\ reading # NoMessage => /\ Len(Sent) = Len(inbox) + 1
                                   /\ Sent[Len(Sent)] = reading
<1>1. inbox \in Seq(Message) /\ reading \in Message \cup {NoMessage}
  BY DEF TypeOK
<1>2. CASE reading = NoMessage
  BY <1>1, <1>2 DEF Sent
<1>3. CASE reading # NoMessage
  <2>1. reading \in Message /\ Sent = Append(inbox, reading)
    BY <1>1, <1>3 DEF Sent
  <2>2. QED BY <1>1, <1>3, <2>1
<1>4. QED BY <1>2, <1>3

LEMMA InFlightPlaces ==
  ASSUME NEW p, TypeOK
  PROVE  p \in InFlight <=>
           \/ reading # NoMessage /\ p = <<0, reading>>
           \/ \E i \in 1 .. Len(inbox) : p = <<i, inbox[i]>>
           \/ job # NoMessage /\ p = <<Len(inbox) + 1, job>>
<1>1. DOMAIN inbox = 1 .. Len(inbox)
  BY DEF TypeOK
<1>2. QED BY <1>1 DEF InFlight

LEMMA ConservedCounts ==
  ASSUME TypeOK, Conserved
  PROVE  RequestsConserved
<1> SUFFICES ASSUME NEW id \in Ids
             PROVE  Cardinality({p \in InFlight :
                       /\ p[2].method \in Requests \cup {"direct", "shutdown"}
                       /\ p[2].id = id})
                      = IF status[id] = "waiting" THEN 1 ELSE 0
  BY DEF RequestsConserved
<1> DEFINE S == {p \in InFlight :
                   /\ p[2].method \in Requests \cup {"direct", "shutdown"}
                   /\ p[2].id = id}
<1>1. \A p : p \in S <=> p \in InFlight /\ Names(p[2], id)
  BY DEF Names
<1>2. ASSUME NEW p \in S
      PROVE  \/ job # NoMessage /\ Names(job, id) /\ p = <<Len(inbox) + 1, job>>
             \/ \E i \in 1 .. Len(Sent) :
                  /\ Names(Sent[i], id)
                  /\ p = IF i <= Len(inbox) THEN <<i, Sent[i]>> ELSE <<0, Sent[i]>>
  <2>1. p \in InFlight /\ Names(p[2], id)
    BY <1>1
  <2>2. CASE reading # NoMessage /\ p = <<0, reading>>
    <3> DEFINE k == Len(Sent)
    <3>1. k = Len(inbox) + 1 /\ Sent[k] = reading /\ Len(inbox) \in Nat
      BY <2>2, SentPlaces
    <3>2. k \in 1 .. Len(Sent) /\ ~(k <= Len(inbox))
      BY <3>1
    <3>3. Names(Sent[k], id)
      BY <2>1, <2>2, <3>1
    <3>4. QED BY <2>2, <3>1, <3>2, <3>3
  <2>3. CASE \E i \in 1 .. Len(inbox) : p = <<i, inbox[i]>>
    <3>1. PICK i \in 1 .. Len(inbox) : p = <<i, inbox[i]>>
      BY <2>3
    <3>2. i \in 1 .. Len(Sent) /\ Sent[i] = inbox[i] /\ i <= Len(inbox)
      BY SentPlaces
    <3>3. QED BY <2>1, <3>1, <3>2
  <2>4. CASE job # NoMessage /\ p = <<Len(inbox) + 1, job>>
    BY <2>1, <2>4
  <2>5. QED BY <2>1, <2>2, <2>3, <2>4, InFlightPlaces
<1>3. ASSUME NEW p \in S, NEW q \in S
      PROVE  p = q
  <2> DEFINE At(x) == \E i \in 1 .. Len(Sent) :
                  /\ Names(Sent[i], id)
                  /\ x = IF i <= Len(inbox) THEN <<i, Sent[i]>> ELSE <<0, Sent[i]>>
  <2>1. CASE Names(job, id)
    <3>1. \A i \in 1 .. Len(Sent) : ~Names(Sent[i], id)
      BY <2>1 DEF Conserved
    <3>2. QED BY <1>2, <3>1
  <2>2. CASE ~Names(job, id)
    <3>1. At(p) /\ At(q)
      BY <1>2, <2>2
    <3>2. PICK i \in 1 .. Len(Sent) :
            /\ Names(Sent[i], id)
            /\ p = IF i <= Len(inbox) THEN <<i, Sent[i]>> ELSE <<0, Sent[i]>>
      BY <3>1
    <3>3. PICK j \in 1 .. Len(Sent) :
            /\ Names(Sent[j], id)
            /\ q = IF j <= Len(inbox) THEN <<j, Sent[j]>> ELSE <<0, Sent[j]>>
      BY <3>1
    <3>4. i = j
      BY <3>2, <3>3 DEF Conserved
    <3>5. QED BY <3>2, <3>3, <3>4
  <2>3. QED BY <2>1, <2>2
<1>4. ASSUME Waits(id) PROVE \E p : p \in S
  <2>1. CASE Names(job, id)
    <3>1. job # NoMessage
      BY <2>1, NoMessageNamesNone
    <3>2. <<Len(inbox) + 1, job>> \in S
      BY <1>1, <2>1, <3>1, InFlightPlaces
    <3>3. QED BY <3>2
  <2>2. CASE \E i \in 1 .. Len(Sent) : Names(Sent[i], id)
    <3>1. PICK i \in 1 .. Len(Sent) : Names(Sent[i], id)
      BY <2>2
    <3>2. CASE i \in 1 .. Len(inbox)
      <4>1. Sent[i] = inbox[i]
        BY <3>2, SentPlaces
      <4>2. <<i, inbox[i]>> \in InFlight
        BY <3>2, InFlightPlaces
      <4>3. <<i, inbox[i]>> \in S
        BY <1>1, <3>1, <4>1, <4>2
      <4>4. QED BY <4>3
    <3>3. CASE i \notin 1 .. Len(inbox)
      <4>1. reading # NoMessage /\ i = Len(Sent) /\ Sent[i] = reading
        <5>1. Len(inbox) \in Nat
          BY SentPlaces
        <5>2. reading # NoMessage
          BY <3>3, SentPlaces
        <5>3. Len(Sent) = Len(inbox) + 1
          BY <5>2, SentPlaces
        <5>4. i = Len(Sent)
          BY <3>3, <5>1, <5>3
        <5>5. QED BY <5>2, <5>4, SentPlaces
      <4>2. <<0, reading>> \in S
        BY <1>1, <3>1, <4>1, InFlightPlaces
      <4>3. QED BY <4>2
    <3>4. QED BY <3>2, <3>3
  <2>3. QED BY <1>4, <2>1, <2>2 DEF Waits
<1>5. ASSUME ~Waits(id) PROVE S = {}
  <2>1. ASSUME NEW p \in S PROVE FALSE
    BY <1>2, <1>5 DEF Waits
  <2>2. QED BY <2>1
<1>6. CASE status[id] = "waiting"
  <2>1. Waits(id)
    BY <1>6 DEF Conserved
  <2>2. PICK p : p \in S
    BY <1>4, <2>1
  <2>3. S = {p}
    BY <1>3, <2>2
  <2>4. Cardinality({p}) = 1
    BY FS_Singleton
  <2>5. QED BY <1>6, <2>3, <2>4
<1>7. CASE status[id] # "waiting"
  <2>1. S = {}
    BY <1>5, <1>7 DEF Conserved
  <2>2. Cardinality({}) = 0
    BY FS_EmptySet
  <2>3. QED BY <1>7, <2>1, <2>2
<1>8. QED BY <1>6, <1>7

-----------------------------------------------------------------------------
(***************************************************************************)
(* What the serving thread will find a document at when it reaches a       *)
(* message, while no change is garbled.                                    *)
(***************************************************************************)

Moves(m, u) == m.method \in {"open", "change", "close"} /\ m.uri = u
Leaves(m) == IF m.method = "close" THEN NoVersion ELSE m.version

\* Once everything before place i of the line s is handled, from texts d, u is
\* at v.
Shows(s, d, u, i, v) ==
  \/ \E j \in 1 .. Len(s) :
       /\ j < i /\ Moves(s[j], u) /\ v = Leaves(s[j])
       /\ \A k \in 1 .. Len(s) : j < k /\ k < i => ~Moves(s[k], u)
  \/ /\ \A k \in 1 .. Len(s) : k < i => ~Moves(s[k], u)
     /\ v = d[u]

AboutText == {"analyse", "lookup", "edit"}

MeetsItsText(s, d, i) ==
  /\ s[i].method # "garble"
  /\ s[i].method \in AboutText => Shows(s, d, s[i].uri, i, s[i].expects)
  /\ s[i].method = "change" =>
       \E w \in Versions : Shows(s, d, s[i].uri, i, w) /\ s[i].version > w

ReachesClient ==
  \A u \in Uris : Shows(Sent, documents, u, Len(Sent) + 1, opened[u])
AllMeetTheirText == \A i \in 1 .. Len(Sent) : MeetsItsText(Sent, documents, i)

AInv ==
  /\ "garble" \notin Methods
  /\ IInv
  /\ ReachesClient
  /\ AllMeetTheirText
  /\ Serves(AboutText) => documents[job.uri] = job.expects

LEMMA AInvInit == Init /\ "garble" \notin Methods => AInv
<1> SUFFICES ASSUME Init, "garble" \notin Methods PROVE AInv
  OBVIOUS
<1>1. Len(Sent) = 0 /\ job = NoMessage /\ opened = documents
  BY DEF Init, Sent
<1>2. 1 .. Len(Sent) = {}
  BY <1>1
<1>3. ReachesClient /\ AllMeetTheirText
  BY <1>1, <1>2 DEF ReachesClient, Shows, AllMeetTheirText
<1>4. ~Serves(AboutText)
  BY <1>1, NoMessageServesNothing DEF Serves, AboutText
<1>5. QED BY IInvInit, <1>3, <1>4 DEF AInv

\* A step that moves no text.
LEMMA AInvSame ==
  ASSUME AInv, IInv', Sent' = Sent, UNCHANGED <<opened, documents>>,
         job' \in {job, NoMessage}
  PROVE  AInv'
<1>1. ReachesClient'
  BY DEF AInv, ReachesClient
<1>2. AllMeetTheirText'
  BY DEF AInv, AllMeetTheirText
<1>3. Serves(AboutText)' => documents'[job'.uri] = job'.expects
  BY NoMessageServesNothing DEF AInv, Serves, AboutText
<1>4. QED BY <1>1, <1>2, <1>3 DEF AInv

\* A message at the end of a line changes nothing of what is before it.
LEMMA AppendedKeepsShows ==
  ASSUME NEW s, NEW t, NEW d, NEW m, NEW n \in Nat,
         Len(s) = n, Len(t) = n + 1, t[n + 1] = m,
         \A i \in 1 .. n : t[i] = s[i],
         NEW u, NEW v, NEW i \in 1 .. n + 1
  PROVE  Shows(t, d, u, i, v) <=> Shows(s, d, u, i, v)
<1>0. 1 .. n + 1 = (1 .. n) \cup {n + 1} /\ n + 1 \notin 1 .. n
  OBVIOUS
<1>1. \A k \in 1 .. n + 1 : k < i => k \in 1 .. n
  OBVIOUS
<1>2. (\A k \in 1 .. n + 1 : k < i => ~Moves(t[k], u))
        <=> (\A k \in 1 .. n : k < i => ~Moves(s[k], u))
  BY <1>0, <1>1
<1>3. \A j \in 1 .. n :
        (\A k \in 1 .. n + 1 : j < k /\ k < i => ~Moves(t[k], u))
          <=> (\A k \in 1 .. n : j < k /\ k < i => ~Moves(s[k], u))
  BY <1>0, <1>1
<1>4. (\E j \in 1 .. n + 1 :
             /\ j < i /\ Moves(t[j], u) /\ v = Leaves(t[j])
             /\ \A k \in 1 .. n + 1 : j < k /\ k < i => ~Moves(t[k], u))
       <=> \E j \in 1 .. n :
             /\ j < i /\ Moves(s[j], u) /\ v = Leaves(s[j])
             /\ \A k \in 1 .. n : j < k /\ k < i => ~Moves(s[k], u)
  BY <1>0, <1>1, <1>3
<1>5. QED BY <1>2, <1>4 DEF Shows

LEMMA AppendedShows ==
  ASSUME NEW s, NEW t, NEW d, NEW m, NEW n \in Nat,
         Len(s) = n, Len(t) = n + 1, t[n + 1] = m,
         \A i \in 1 .. n : t[i] = s[i],
         NEW u, NEW v
  PROVE  /\ ~Moves(m, u) /\ Shows(s, d, u, n + 1, v) => Shows(t, d, u, n + 2, v)
         /\ Moves(m, u) /\ v = Leaves(m) => Shows(t, d, u, n + 2, v)
<1>1. 1 .. n + 1 = (1 .. n) \cup {n + 1} /\ n + 1 \notin 1 .. n
  OBVIOUS
<1>2. ASSUME ~Moves(m, u), Shows(s, d, u, n + 1, v)
      PROVE  Shows(t, d, u, n + 2, v)
  <2>1. CASE \E j \in 1 .. n :
               /\ Moves(s[j], u) /\ v = Leaves(s[j])
               /\ \A k \in 1 .. n : j < k => ~Moves(s[k], u)
    <3>1. PICK j \in 1 .. n :
               /\ Moves(s[j], u) /\ v = Leaves(s[j])
               /\ \A k \in 1 .. n : j < k => ~Moves(s[k], u)
      BY <2>1
    <3>2. j \in 1 .. n + 1 /\ j < n + 2
      OBVIOUS
    <3>3. \A k \in 1 .. n + 1 : j < k => ~Moves(t[k], u)
      BY <1>1, <1>2, <3>1
    <3>4. Moves(t[j], u) /\ v = Leaves(t[j])
      BY <3>1
    <3>5. QED BY <3>2, <3>3, <3>4 DEF Shows
  <2>2. CASE (\A k \in 1 .. n : ~Moves(s[k], u)) /\ v = d[u]
    <3>1. \A k \in 1 .. n + 1 : ~Moves(t[k], u)
      BY <1>1, <1>2, <2>2
    <3>2. QED BY <2>2, <3>1 DEF Shows
  <2>3. \A k \in 1 .. n : k < n + 1
    OBVIOUS
  <2>4. QED BY <1>2, <2>1, <2>2, <2>3 DEF Shows
<1>3. ASSUME Moves(m, u), v = Leaves(m)
      PROVE  Shows(t, d, u, n + 2, v)
  <2>1. n + 1 \in 1 .. n + 1 /\ n + 1 < n + 2
    OBVIOUS
  <2>2. \A k \in 1 .. n + 1 : ~(n + 1 < k)
    OBVIOUS
  <2>3. QED BY <1>3, <2>1, <2>2 DEF Shows
<1>4. QED BY <1>2, <1>3

\* Handling the first message of a line brings the texts to what it leaves.
LEMMA TakenShows ==
  ASSUME NEW s, NEW t, NEW d, NEW e, NEW n \in Nat,
         Len(t) = n, Len(s) = n + 1, \A i \in 1 .. n : t[i] = s[i + 1],
         NEW u, NEW v, NEW i \in 1 .. n + 1,
         e[u] = IF Moves(s[1], u) THEN Leaves(s[1]) ELSE d[u],
         Shows(s, d, u, i + 1, v)
  PROVE  Shows(t, e, u, i, v)
<1>1. ASSUME NEW j \in 1 .. n + 1, j < i + 1, Moves(s[j], u), v = Leaves(s[j]),
             \A k \in 1 .. n + 1 : j < k /\ k < i + 1 => ~Moves(s[k], u)
      PROVE  Shows(t, e, u, i, v)
  <2>1. \A k \in 1 .. n : j < k + 1 /\ k < i => ~Moves(t[k], u)
    <3> SUFFICES ASSUME NEW k \in 1 .. n, j < k + 1, k < i
                 PROVE  ~Moves(t[k], u)
      OBVIOUS
    <3>1. k + 1 \in 1 .. n + 1 /\ k + 1 < i + 1
      OBVIOUS
    <3>2. QED BY <1>1, <3>1
  <2>2. CASE j = 1
    <3>1. \A k \in 1 .. n : j < k + 1
      BY <2>2
    <3>2. v = e[u]
      BY <1>1, <2>2
    <3>3. QED BY <2>1, <3>1, <3>2 DEF Shows
  <2>3. CASE j # 1
    <3> DEFINE l == j - 1
    <3>1. l \in 1 .. n /\ l < i /\ j = l + 1
      BY <1>1, <2>3
    <3> HIDE DEF l
    <3>2. Moves(t[l], u) /\ v = Leaves(t[l])
      BY <1>1, <3>1
    <3>3. \A k \in 1 .. n : l < k => j < k + 1
      BY <3>1
    <3>4. QED BY <2>1, <3>1, <3>2, <3>3 DEF Shows
  <2>4. QED BY <2>2, <2>3
<1>2. ASSUME \A k \in 1 .. n + 1 : k < i + 1 => ~Moves(s[k], u), v = d[u]
      PROVE  Shows(t, e, u, i, v)
  <2>1. 1 \in 1 .. n + 1 /\ 1 < i + 1
    OBVIOUS
  <2>2. v = e[u]
    BY <1>2, <2>1
  <2>3. \A k \in 1 .. n : k < i => ~Moves(t[k], u)
    <3> SUFFICES ASSUME NEW k \in 1 .. n, k < i
                 PROVE  ~Moves(t[k], u)
      OBVIOUS
    <3>1. k + 1 \in 1 .. n + 1 /\ k + 1 < i + 1
      OBVIOUS
    <3>2. QED BY <1>2, <3>1
  <2>4. QED BY <2>2, <2>3 DEF Shows
<1>3. QED BY <1>1, <1>2 DEF Shows

LEMMA ShowsFirst ==
  ASSUME NEW s, NEW d, NEW u, NEW v, Len(s) \in Nat
  PROVE  Shows(s, d, u, 1, v) <=> v = d[u]
<1>1. \A k \in 1 .. Len(s) : ~(k < 1)
  OBVIOUS
<1>2. QED BY <1>1 DEF Shows

\* What the client does to a document is in the message it sends.
LEMMA ReadingMoves ==
  ASSUME TypeOK, "garble" \notin Methods, NEW m \in Message, Reading(m)
  PROVE  /\ m.method # "garble"
         /\ \A u \in Uris :
              opened'[u] = IF Moves(m, u) THEN Leaves(m) ELSE opened[u]
         /\ m.method \in AboutText => m.expects = opened[m.uri]
         /\ m.method = "change" => /\ opened[m.uri] \in Versions
                                   /\ m.version > opened[m.uri]
<1>1. ASSUME NEW u \in Uris, NEW v \in Versions, ReadOpen(u, v),
             m = [method |-> "open", uri |-> u, version |-> v]
      PROVE  /\ m.method = "open" /\ m.uri = u /\ m.version = v
             /\ opened' = [opened EXCEPT ![u] = v]
  BY <1>1 DEF ReadOpen
<1>2. ASSUME NEW k \in {"change", "garble"}, NEW u \in Uris, NEW v \in Versions,
             ReadChange(k, u, v), m = [method |-> k, uri |-> u, version |-> v]
      PROVE  /\ m.method = "change" /\ m.uri = u /\ m.version = v
             /\ opened' = [opened EXCEPT ![u] = v]
             /\ opened[u] \in Versions /\ v > opened[u]
  BY <1>2 DEF ReadChange, Reads, TypeOK
<1>3. ASSUME NEW u \in Uris, ReadClose(u), m = [method |-> "close", uri |-> u]
      PROVE  /\ m.method = "close" /\ m.uri = u
             /\ opened' = [opened EXCEPT ![u] = NoVersion]
  BY <1>3 DEF ReadClose
<1>4. ASSUME NEW id \in Ids, ReadRequest(m),
             m \in DocumentRequest(id) \cup OtherRequest(id)
      PROVE  /\ opened' = opened
             /\ m.method \in AboutText \cup {"survey", "direct", "shutdown"}
             /\ m.method \in AboutText => m.expects = opened[m.uri]
  BY <1>4 DEF ReadRequest, DocumentRequest, OtherRequest, AboutText
<1>5. ASSUME NEW id \in Ids, ReadCancel(id), m = [method |-> "cancel", id |-> id]
      PROVE  opened' = opened /\ m.method = "cancel"
  BY <1>5 DEF ReadCancel
<1>6. ASSUME NEW k \in {"exit", "end"}, ReadLast(k), m = [method |-> k]
      PROVE  opened' = opened /\ m.method \in {"exit", "end"}
  BY <1>6 DEF ReadLast, clientVars
<1>7. CASE \E u \in Uris, v \in Versions :
             ReadOpen(u, v) /\ m = [method |-> "open", uri |-> u, version |-> v]
  BY <1>1, <1>7 DEF TypeOK, Moves, Leaves, AboutText
<1>8. CASE \E u \in Uris, v \in Versions : \E k \in {"change", "garble"} :
             ReadChange(k, u, v) /\ m = [method |-> k, uri |-> u, version |-> v]
  BY <1>2, <1>8 DEF TypeOK, Moves, Leaves, AboutText
<1>9. CASE \E u \in Uris : ReadClose(u) /\ m = [method |-> "close", uri |-> u]
  BY <1>3, <1>9 DEF TypeOK, Moves, Leaves, AboutText
<1>10. CASE ReadRequest(m) /\ \E id \in Ids : m \in DocumentRequest(id) \cup OtherRequest(id)
  BY <1>4, <1>10 DEF Moves, AboutText
<1>11. CASE \E id \in Ids : ReadCancel(id) /\ m = [method |-> "cancel", id |-> id]
  BY <1>5, <1>11 DEF Moves, AboutText
<1>12. CASE \E k \in {"exit", "end"} : ReadLast(k) /\ m = [method |-> k]
  BY <1>6, <1>12 DEF Moves, AboutText
<1>13. QED BY <1>7, <1>8, <1>9, <1>10, <1>11, <1>12 DEF Reading

LEMMA AInvReading ==
  ASSUME AInv, IInv', NEW m \in Message, Reading(m), Appended(m),
         UNCHANGED servingVars
  PROVE  AInv'
<1> DEFINE n == Len(Sent)
<1>1. /\ n \in Nat /\ Len(Sent') = n + 1 /\ Sent'[n + 1] = m
      /\ \A i \in 1 .. n : Sent'[i] = Sent[i]
  BY SentTypes DEF Appended, AInv, IInv
<1>2. documents' = documents /\ job' = job
  BY DEF servingVars
<1>3. /\ m.method # "garble"
      /\ \A u \in Uris :
           opened'[u] = IF Moves(m, u) THEN Leaves(m) ELSE opened[u]
      /\ m.method \in AboutText => m.expects = opened[m.uri]
      /\ m.method = "change" => /\ opened[m.uri] \in Versions
                                /\ m.version > opened[m.uri]
  BY ReadingMoves DEF AInv, IInv
<1>4. ASSUME NEW u, NEW v
      PROVE  /\ \A i \in 1 .. n + 1 : Shows(Sent', documents, u, i, v)
                                        <=> Shows(Sent, documents, u, i, v)
             /\ ~Moves(m, u) /\ Shows(Sent, documents, u, n + 1, v)
                  => Shows(Sent', documents, u, n + 2, v)
             /\ Moves(m, u) /\ v = Leaves(m) => Shows(Sent', documents, u, n + 2, v)
  <2>1. Len(Sent) = n
    OBVIOUS
  <2> HIDE DEF n
  <2> DEFINE s == Sent
             t == Sent'
  <2>s. n \in Nat /\ Len(s) = n
    BY <1>1, <2>1
  <2>t. /\ Len(t) = n + 1 /\ t[n + 1] = m
        /\ \A i \in 1 .. n : t[i] = s[i]
    BY <1>1
  <2> HIDE DEF s, t
  <2>2. ASSUME NEW i \in 1 .. n + 1
        PROVE  Shows(t, documents, u, i, v) <=> Shows(s, documents, u, i, v)
    BY <2>s, <2>t, AppendedKeepsShows
  <2>3. ~Moves(m, u) /\ Shows(s, documents, u, n + 1, v)
          => Shows(t, documents, u, n + 2, v)
    BY <2>s, <2>t, AppendedShows
  <2>4. Moves(m, u) /\ v = Leaves(m) => Shows(t, documents, u, n + 2, v)
    BY <2>s, <2>t, AppendedShows
  <2>5. QED BY <2>2, <2>3, <2>4 DEF s, t
<1>5. \A u \in Uris : Shows(Sent, documents, u, n + 1, opened[u])
  BY DEF AInv, ReachesClient
<1>6. ReachesClient'
  <2>1. Len(Sent') + 1 = n + 2
    BY <1>1
  <2>2. \A u \in Uris : Shows(Sent', documents, u, n + 2, opened'[u])
    BY <1>3, <1>4, <1>5
  <2>3. QED BY <1>2, <2>1, <2>2 DEF ReachesClient
<1>7. ASSUME NEW i \in 1 .. n
      PROVE  MeetsItsText(Sent', documents, i)
  <2>1. MeetsItsText(Sent, documents, i)
    BY DEF AInv, AllMeetTheirText
  <2>2. Sent'[i] = Sent[i] /\ i \in 1 .. n + 1
    BY <1>1
  <2>3. QED BY <1>4, <2>1, <2>2 DEF MeetsItsText
<1>8. MeetsItsText(Sent', documents, n + 1)
  <2>1. n + 1 \in 1 .. n + 1
    BY <1>1
  <2>2. m.method \in AboutText \cup {"change"} => m.uri \in Uris
    BY MessageFields DEF AboutText
  <2>3. m.method \in AboutText \cup {"change"} =>
          Shows(Sent', documents, m.uri, n + 1, opened[m.uri])
    BY <1>4, <1>5, <2>1, <2>2
  <2>4. QED BY <1>1, <1>3, <2>3 DEF MeetsItsText
<1>9. AllMeetTheirText'
  <2>1. \A i \in 1 .. n + 1 : i \in 1 .. n \/ i = n + 1
    BY <1>1
  <2>2. \A i \in 1 .. Len(Sent') : MeetsItsText(Sent', documents', i)
    BY <1>1, <1>2, <1>7, <1>8, <2>1
  <2>3. QED BY <2>2 DEF AllMeetTheirText
<1>10. QED BY <1>2, <1>6, <1>9 DEF AInv, Serves

LEMMA AInvHandle ==
  ASSUME AInv, IInv', Handle
  PROVE  AInv'
<1> DEFINE m == Head(inbox)
           n == Len(Sent')
<1>1. /\ Taken(m) /\ m \in Message /\ job = NoMessage
      /\ opened' = opened
  BY HandleTakes DEF AInv
<1>2. /\ n \in Nat /\ Len(Sent) = n + 1 /\ Sent[1] = m
      /\ \A i \in 1 .. n : Sent'[i] = Sent[i + 1]
      /\ \A i \in 1 .. n : Sent'[i] \in Message
  <2>1. Len(Sent) \in Nat /\ \A i \in 1 .. Len(Sent) : Sent[i] \in Message
    BY SentTypes DEF AInv, IInv
  <2>2. Len(Sent') \in Nat
    BY SentLength
  <2>3. QED BY <1>1, <2>1, <2>2 DEF Taken
<1>3. MeetsItsText(Sent, documents, 1)
  BY <1>2 DEF AInv, AllMeetTheirText
<1>4. /\ m.method # "garble"
      /\ m.method \in AboutText => m.expects = documents[m.uri]
      /\ m.method = "change" => /\ documents[m.uri] \in Versions
                                /\ m.version > documents[m.uri]
  <2>1. \A u, v : Shows(Sent, documents, u, 1, v) <=> v = documents[u]
    BY <1>2, ShowsFirst
  <2>2. QED BY <1>2, <1>3, <2>1 DEF MeetsItsText
<1>5. m.method \in {"open", "change", "close"} => m.uri \in Uris
  BY <1>1, MessageFields
<1>6. documents \in [Uris -> Versions \cup {NoVersion}]
  BY DEF AInv, IInv, TypeOK
<1>7. /\ \A u \in Uris :
           documents'[u] = IF Moves(m, u) THEN Leaves(m) ELSE documents[u]
      /\ job'.method \in AboutText => job' = m /\ documents' = documents
  <2>1. CASE HandleText(m)
    BY <1>5, <1>6, <2>1 DEF HandleText, Moves, Leaves, AboutText
  <2>2. CASE IgnoreChange(m)
    <3>1. m.method = "change"
      BY <1>4, <2>2 DEF IgnoreChange
    <3>2. m.version \in Nat /\ documents[m.uri] \in Nat /\ documents[m.uri] # NoVersion
      BY <1>1, <1>4, <3>1, MessageFields, LspAssumption DEF Versions, NoVersion
    <3>3. FALSE
      BY <1>4, <2>2, <3>1, <3>2 DEF IgnoreChange
    <3>4. QED BY <3>3
  <2>3. CASE HandleClose(m)
    <3>1. m.method = "close" /\ documents' = [documents EXCEPT ![m.uri] = NoVersion]
      BY <2>3 DEF HandleClose, Receives
    <3>2. job' \in {m, job}
      BY <2>3 DEF HandleClose
    <3>3. job'.method \notin AboutText
      BY <1>1, <3>1, <3>2, NoMessageServesNothing DEF AboutText
    <3>4. QED BY <1>5, <1>6, <3>1, <3>3 DEF Moves, Leaves
  <2>4. CASE HandleRequest(m)
    BY <2>4 DEF HandleRequest, Moves, Requests
  <2>5. CASE HandleCancel
    BY <1>1, <2>5, NoMessageServesNothing
       DEF HandleCancel, Receives, servingVars, Moves, AboutText
  <2>6. CASE HandleDirect("direct") \/ HandleDirect("shutdown")
    BY <1>1, <2>6, NoMessageServesNothing DEF HandleDirect, Receives, Moves, AboutText
  <2>7. CASE HandleLast("exit") \/ HandleLast("end")
    BY <1>1, <2>7, NoMessageServesNothing DEF HandleLast, Receives, Moves, AboutText
  <2>8. QED BY <2>1, <2>2, <2>3, <2>4, <2>5, <2>6, <2>7 DEF Handle
<1>8. ASSUME NEW u \in Uris, NEW v, NEW i \in 1 .. n + 1,
             Shows(Sent, documents, u, i + 1, v)
      PROVE  Shows(Sent', documents', u, i, v)
  <2>1. documents'[u] = IF Moves(Sent[1], u) THEN Leaves(Sent[1]) ELSE documents[u]
    BY <1>2, <1>7
  <2>2. Len(Sent') = n
    OBVIOUS
  <2> HIDE DEF n
  <2>3. QED BY <1>2, <1>8, <2>1, <2>2, TakenShows
<1>9. ReachesClient'
  <2>1. n + 1 \in 1 .. n + 1 /\ Len(Sent) + 1 = (n + 1) + 1
    BY <1>2
  <2>2. \A u \in Uris : Shows(Sent, documents, u, (n + 1) + 1, opened[u])
    BY <2>1 DEF AInv, ReachesClient
  <2>3. \A u \in Uris : Shows(Sent', documents', u, n + 1, opened[u])
    BY <1>8, <2>1, <2>2
  <2>4. QED BY <1>1, <2>3 DEF ReachesClient
<1>10. AllMeetTheirText'
  <2>1. ASSUME NEW i \in 1 .. n
        PROVE  MeetsItsText(Sent', documents', i)
    <3>1. i + 1 \in 1 .. Len(Sent) /\ i \in 1 .. n + 1
      BY <1>2
    <3>2. MeetsItsText(Sent, documents, i + 1)
      BY <3>1 DEF AInv, AllMeetTheirText
    <3>3. Sent'[i] = Sent[i + 1] /\ Sent'[i] \in Message
      BY <1>2
    <3>4. Sent'[i].method \in AboutText \cup {"change"} => Sent'[i].uri \in Uris
      BY <3>3, MessageFields DEF AboutText
    <3>5. QED BY <1>8, <3>1, <3>2, <3>3, <3>4 DEF MeetsItsText
  <2>2. QED BY <2>1 DEF AllMeetTheirText
<1>11. Serves(AboutText)' => documents'[job'.uri] = job'.expects
  BY <1>4, <1>7 DEF Serves
<1>12. QED BY <1>9, <1>10, <1>11 DEF AInv

LEMMA AInvStep == AInv /\ [Next]_vars => AInv'
<1> SUFFICES ASSUME AInv, [Next]_vars PROVE AInv'
  OBVIOUS
<1>1. IInv /\ IInv'
  BY IInvStep DEF AInv
<1>2. CASE Reader
  <2>1. UNCHANGED servingVars /\ TypeOK
    BY <1>1, <1>2, ReaderReads DEF IInv
  <2>2. CASE ReaderSend
    <3>1. Sent' = Sent /\ opened' = opened
      BY <2>2, SendingKeepsSent DEF ReaderSend, clientVars
    <3>2. job' = job /\ documents' = documents
      BY <2>1 DEF servingVars
    <3>3. QED BY <1>1, <3>1, <3>2, AInvSame
  <2>3. CASE \E m \in Message : Reading(m) /\ Appended(m)
    BY <1>1, <2>1, <2>3, AInvReading
  <2>4. QED BY <1>2, <2>1, <2>2, <2>3, ReaderReads
<1>3. CASE Handle
  BY <1>1, <1>3, AInvHandle
<1>4. CASE Inner
  <2>1. UNCHANGED <<opened, documents, job>> /\ Sent' = Sent
    BY <1>4, InnerKeeps DEF clientVars
  <2>2. QED BY <1>1, <2>1, AInvSame
<1>5. CASE Publish \/ Respond
  BY <1>1, <1>5, EndKeeps, AInvSame
<1>6. CASE UNCHANGED vars
  <2>1. Sent' = Sent /\ opened' = opened /\ job' = job /\ documents' = documents
    BY <1>6 DEF vars, clientVars, readerVars, servingVars, Sent
  <2>2. QED BY <1>1, <2>1, AInvSame
<1>7. QED BY <1>2, <1>3, <1>4, <1>5, <1>6, KindsOfSteps

LEMMA AInvAnswers == AInv => AnsweredAsSent
BY DEF AInv, AnsweredAsSent, Serves, Requests, AboutText

-----------------------------------------------------------------------------
(***************************************************************************)
(* Cancellations, from a client that uses no request id twice.             *)
(***************************************************************************)

TextMethods == {"open", "change", "garble", "close"}
TextBehind == \E i \in 1 .. Len(Sent) : Sent[i].method \in TextMethods

AskedInTime ==
  /\ \A id \in asked : status[id] # "unused"
  /\ \A i \in 1 .. Len(Sent) : Sent[i].method = "cancel" => Sent[i].id \in asked
  /\ pending \subseteq asked
  /\ \A id \in completed : status[id] \in Outcomes

\* A cancellation sent is remembered until its request is at work, and raises
\* the token from then on.
AskedIsKept ==
  /\ \A id \in asked : status[id] = "waiting" /\ ~Names(job, id) => id \in pending
  /\ Serves(Requests) /\ job.id \in asked => job.id \in cancelled

CancelledWithCause ==
  Serves(Requests) /\ (job.id \in cancelled \/ answer = "cancelled")
    => job.id \in asked \/ TextBehind

CInv ==
  /\ FreshIds
  /\ IInv
  /\ Conserved
  /\ AskedInTime
  /\ AskedIsKept
  /\ CancelledWithCause

LEMMA CInvInit == Init /\ FreshIds => CInv
<1> SUFFICES ASSUME Init, FreshIds PROVE CInv
  OBVIOUS
<1>1. Len(Sent) = 0 /\ job = NoMessage
  BY DEF Init, Sent
<1>2. 1 .. Len(Sent) = {}
  BY <1>1
<1>3. AskedInTime /\ AskedIsKept
  BY <1>1, <1>2, NoMessageServesNothing
     DEF Init, AskedInTime, AskedIsKept, Registry!EmptyRegistry, Serves, Requests
<1>4. CancelledWithCause
  BY <1>1, NoMessageServesNothing DEF CancelledWithCause, Serves, Requests
<1>5. QED BY IInvInit, ConservedInit, <1>3, <1>4 DEF CInv

\* A step that leaves the requests and the line alone.
LEMMA CInvSame ==
  ASSUME CInv, IInv', Conserved', Sent' = Sent,
         UNCHANGED <<status, asked, pending, completed, cancelled, job>>,
         Serves(Requests) /\ answer' = "cancelled" =>
           answer = "cancelled" \/ job.id \in cancelled
  PROVE  CInv'
<1>1. AskedInTime'
  BY DEF CInv, AskedInTime
<1>2. AskedIsKept'
  BY DEF CInv, AskedIsKept, Serves
<1>3. CancelledWithCause'
  BY DEF CInv, CancelledWithCause, Serves, TextBehind
<1>4. QED BY <1>1, <1>2, <1>3 DEF CInv

\* A message at the end of the line, whatever it is.
LEMMA AppendedCauses ==
  ASSUME TypeOK, NEW m, Appended(m)
  PROVE  /\ TextBehind => TextBehind'
         /\ m.method \in TextMethods => TextBehind'
         /\ \A i \in 1 .. Len(Sent') : Sent'[i] = m \/ \E j \in 1 .. Len(Sent) : Sent'[i] = Sent[j]
<1> DEFINE n == Len(Sent)
<1>1. /\ n \in Nat /\ Len(Sent') = n + 1 /\ Sent'[n + 1] = m
      /\ \A i \in 1 .. n : Sent'[i] = Sent[i]
  BY SentTypes DEF Appended
<1>2. 1 .. n + 1 = (1 .. n) \cup {n + 1}
  BY <1>1
<1>3. TextBehind => TextBehind'
  BY <1>1, <1>2 DEF TextBehind
<1>4. m.method \in TextMethods => TextBehind'
  BY <1>1, <1>2 DEF TextBehind
<1>5. QED BY <1>1, <1>2, <1>3, <1>4

LEMMA CInvReading ==
  ASSUME CInv, IInv', Conserved', NEW m \in Message, Reading(m), Appended(m),
         UNCHANGED servingVars
  PROVE  CInv'
<1>1. /\ TextBehind => TextBehind'
      /\ m.method \in TextMethods => TextBehind'
      /\ \A i \in 1 .. Len(Sent') : Sent'[i] = m \/ \E j \in 1 .. Len(Sent) : Sent'[i] = Sent[j]
  BY AppendedCauses DEF CInv, IInv
<1>2. UNCHANGED <<job, answer, stage>>
  BY DEF servingVars
<1>3. \A i \in 1 .. Len(Sent) : Sent[i].method = "cancel" => Sent[i].id \in asked
  BY DEF CInv, AskedInTime
<1>4. CASE /\ UNCHANGED <<status, asked, pending, completed>>
           /\ m.method # "cancel" /\ cancelled \subseteq cancelled'
           /\ cancelled' = cancelled \/ m.method \in TextMethods
  <2>1. AskedInTime'
    BY <1>1, <1>3, <1>4 DEF CInv, AskedInTime
  <2>2. AskedIsKept'
    BY <1>2, <1>4 DEF CInv, AskedIsKept, Serves
  <2>3. CancelledWithCause'
    BY <1>1, <1>2, <1>4 DEF CInv, CancelledWithCause, Serves
  <2>4. QED BY <2>1, <2>2, <2>3 DEF CInv
<1>5. ASSUME NEW u \in Uris, NEW v \in Versions, ReadOpen(u, v),
             m = [method |-> "open", uri |-> u, version |-> v]
      PROVE  CInv'
  BY <1>4, <1>5 DEF ReadOpen, Observed!ObserveText, requestVars, TextMethods
<1>6. ASSUME NEW k \in {"change", "garble"}, NEW u \in Uris, NEW v \in Versions,
             ReadChange(k, u, v), m = [method |-> k, uri |-> u, version |-> v]
      PROVE  CInv'
  BY <1>4, <1>6 DEF ReadChange, Observed!ObserveText, requestVars, TextMethods
<1>7. ASSUME NEW u \in Uris, ReadClose(u), m = [method |-> "close", uri |-> u]
      PROVE  CInv'
  BY <1>4, <1>7 DEF ReadClose, Observed!ObserveClose, requestVars, TextMethods
<1>8. ASSUME NEW k \in {"exit", "end"}, ReadLast(k), m = [method |-> k]
      PROVE  CInv'
  BY <1>4, <1>8 DEF ReadLast, clientVars, requestVars
<1>9. ASSUME NEW id \in Ids, ReadRequest(m),
             m \in DocumentRequest(id) \cup OtherRequest(id)
      PROVE  CInv'
  <2>1. /\ m.id = id /\ m.method # "cancel" /\ status[id] = "unused"
        /\ status' = [status EXCEPT ![id] = "waiting"]
        /\ asked' = asked \ {id}
        /\ UNCHANGED <<pending, completed, cancelled>>
    <3>1. m.id = id /\ m.method # "cancel"
      BY <1>9 DEF DocumentRequest, OtherRequest
    <3>2. FreshIds
      BY DEF CInv
    <3>3. status[m.id] = "unused"
      BY <1>9, <3>2, Zenon DEF ReadRequest
    <3>4. QED BY <1>9, <3>1, <3>3 DEF ReadRequest, requestVars
  <2>2. id \notin asked /\ asked' = asked /\ id \notin completed
    BY <2>1 DEF CInv, AskedInTime, Outcomes
  <2>3. \A i \in Ids : i # id => status'[i] = status[i]
    BY <2>1 DEF CInv, IInv, TypeOK
  <2>4. AskedInTime'
    <3>1. asked \subseteq Ids /\ completed \subseteq Ids
      BY DEF CInv, IInv, TypeOK
    <3>2. \A i \in asked' : status'[i] # "unused"
      BY <2>2, <2>3, <3>1 DEF CInv, AskedInTime
    <3>3. \A i \in completed' : status'[i] \in Outcomes
      BY <2>1, <2>2, <2>3, <3>1 DEF CInv, AskedInTime
    <3>4. \A i \in 1 .. Len(Sent') : Sent'[i].method = "cancel" => Sent'[i].id \in asked'
      BY <1>1, <1>3, <2>1, <2>2
    <3>5. QED BY <2>1, <2>2, <3>2, <3>3, <3>4 DEF CInv, AskedInTime
  <2>5. AskedIsKept'
    <3>1. asked \subseteq Ids
      BY DEF CInv, IInv, TypeOK
    <3>2. QED BY <1>2, <2>1, <2>2, <2>3, <3>1 DEF CInv, AskedIsKept, Serves
  <2>6. CancelledWithCause'
    BY <1>1, <1>2, <2>1, <2>2 DEF CInv, CancelledWithCause, Serves
  <2>7. QED BY <2>4, <2>5, <2>6 DEF CInv
<1>10. ASSUME NEW id \in Ids, ReadCancel(id),
              m = [method |-> "cancel", id |-> id]
       PROVE  CInv'
  <2>1. /\ m.id = id /\ status[id] # "unused"
        /\ asked' = asked \cup {id}
        /\ cancelled' = IF id \in active THEN cancelled \cup {id} ELSE cancelled
        /\ pending' = IF id \in active \cup completed THEN pending
                                                      ELSE pending \cup {id}
        /\ UNCHANGED <<status, completed>>
    BY <1>10 DEF ReadCancel, Registry!Cancel
  <2>2. active = IF Serves(Requests) THEN {job.id} ELSE {}
    BY DEF CInv, IInv, RegistriesMatchJob
  <2>3. AskedInTime'
    BY <1>1, <1>3, <2>1 DEF CInv, AskedInTime
  <2>4. AskedIsKept'
    <3>1. ASSUME NEW i \in asked', status'[i] = "waiting", ~Names(job, i)
          PROVE  i \in pending'
      <4>1. CASE i = id
        <5>1. i \notin completed
          BY <2>1, <3>1 DEF CInv, AskedInTime, Outcomes
        <5>2. i \notin active
          BY <2>2, <3>1 DEF Names, Serves
        <5>3. QED BY <2>1, <4>1, <5>1, <5>2
      <4>2. CASE i # id
        BY <2>1, <3>1, <4>2 DEF CInv, AskedIsKept
      <4>3. QED BY <4>1, <4>2
    <3>2. Serves(Requests) /\ job.id \in asked' => job.id \in cancelled'
      BY <2>1, <2>2 DEF CInv, AskedIsKept
    <3>3. QED BY <1>2, <3>1, <3>2 DEF AskedIsKept, Serves
  <2>5. CancelledWithCause'
    BY <1>1, <1>2, <2>1, <2>2 DEF CInv, CancelledWithCause, Serves
  <2>6. QED BY <2>3, <2>4, <2>5 DEF CInv
<1>11. QED BY <1>5, <1>6, <1>7, <1>8, <1>9, <1>10 DEF Reading

\* Taking the first message leaves no cancellation without its asking.
LEMMA TakenAsked ==
  ASSUME CInv, IInv', NEW m, Taken(m), asked' = asked
  PROVE  /\ m.method = "cancel" => m.id \in asked
         /\ \A i \in 1 .. Len(Sent') : Sent'[i].method = "cancel" => Sent'[i].id \in asked'
<1> DEFINE n == Len(Sent')
<1>1. /\ n \in Nat /\ Len(Sent) = n + 1 /\ Sent[1] = m
      /\ \A i \in 1 .. n : Sent'[i] = Sent[i + 1]
  BY SentLength DEF Taken
<1>2. 1 \in 1 .. n + 1 /\ \A i \in 1 .. n : i + 1 \in 1 .. n + 1
  BY <1>1
<1>3. QED BY <1>1, <1>2 DEF CInv, AskedInTime

LEMMA CInvHandle ==
  ASSUME CInv, IInv', Conserved', Handle
  PROVE  CInv'
<1> DEFINE m == Head(inbox)
<1>1. /\ Taken(m) /\ m \in Message /\ job = NoMessage /\ stage = "idle"
      /\ asked' = asked
  BY HandleTakes DEF CInv
<1>2. /\ m.method = "cancel" => m.id \in asked
      /\ \A i \in 1 .. Len(Sent') : Sent'[i].method = "cancel" => Sent'[i].id \in asked'
  BY <1>1, TakenAsked
<1>3. /\ \A id : ~Names(job, id)
      /\ asked \subseteq Ids /\ completed \subseteq Ids
  BY <1>1, NoMessageNamesNone DEF CInv, IInv, TypeOK
<1>4. CASE HandleRequest(m)
  <2>1. /\ m.method \in Requests /\ status' = status /\ job' = m
        /\ pending' = pending /\ completed' = completed \ {m.id}
        /\ cancelled' = IF m.id \in pending THEN cancelled \cup {m.id}
                                            ELSE cancelled \ {m.id}
        /\ answer' # "cancelled"
    BY <1>4 DEF HandleRequest, Registry!Start, clientVars
  <2>2. m.id \in Ids /\ Names(m, m.id)
    BY <1>1, <2>1, MessageFields DEF Names
  <2>3. AskedInTime'
    BY <1>1, <1>2, <2>1 DEF CInv, AskedInTime
  <2>4. m.id \in asked => m.id \in pending
    <3>1. 1 \in 1 .. Len(Sent) /\ Sent[1] = m
      <4>1. Len(Sent) = Len(Sent') + 1 /\ Len(Sent') \in Nat
        BY <1>1, SentLength DEF Taken
      <4>2. QED BY <1>1, <4>1 DEF Taken
    <3>2. status[m.id] = "waiting"
      BY <2>2, <3>1 DEF CInv, Conserved, Waits
    <3>3. QED BY <1>3, <3>2 DEF CInv, AskedIsKept
  <2>5. AskedIsKept'
    <3>1. \A id \in asked' : status'[id] = "waiting" => id \in pending'
      BY <1>1, <1>3, <2>1 DEF CInv, AskedIsKept
    <3>2. job'.id \in asked' => job'.id \in cancelled'
      BY <1>1, <2>1, <2>4
    <3>3. QED BY <3>1, <3>2 DEF AskedIsKept
  <2>6. CancelledWithCause'
    <3>1. job'.id \in cancelled' => job'.id \in asked'
      BY <1>1, <2>1 DEF CInv, AskedInTime
    <3>2. QED BY <2>1, <3>1 DEF CancelledWithCause
  <2>7. QED BY <2>3, <2>5, <2>6 DEF CInv
<1>5. CASE /\ job'.method \notin Requests
           /\ \A id \in Ids : ~Names(job', id)
           /\ \A id \in Ids : status'[id] = status[id]
                                \/ (status'[id] = "result" /\ status[id] = "waiting")
           /\ completed' = completed
           /\ pending' \in {pending, pending \cup {m.id}}
           /\ pending' # pending => m.method = "cancel"
  <2>1. AskedInTime'
    <3>1. \A id \in asked' : status'[id] # "unused"
      BY <1>1, <1>3, <1>5 DEF CInv, AskedInTime
    <3>2. pending' \subseteq asked'
      BY <1>1, <1>2, <1>5 DEF CInv, AskedInTime
    <3>3. \A id \in completed' : status'[id] \in Outcomes
      BY <1>3, <1>5 DEF CInv, AskedInTime, Outcomes
    <3>4. QED BY <1>2, <3>1, <3>2, <3>3 DEF AskedInTime
  <2>2. AskedIsKept'
    <3>1. \A id \in asked' : status'[id] = "waiting" => id \in pending'
      BY <1>1, <1>3, <1>5 DEF CInv, AskedIsKept
    <3>2. QED BY <1>5, <3>1 DEF AskedIsKept, Serves
  <2>3. CancelledWithCause'
    BY <1>5 DEF CancelledWithCause, Serves
  <2>4. QED BY <2>1, <2>2, <2>3 DEF CInv
<1>6. CASE HandleText(m) \/ IgnoreChange(m) \/ HandleClose(m)
             \/ HandleLast("exit") \/ HandleLast("end")
  <2>1. /\ UNCHANGED <<status, completed, pending>> /\ job' \in {job, m}
        /\ m.method \in {"open", "change", "garble", "close", "exit", "end"}
    BY <1>6 DEF HandleText, IgnoreChange, HandleClose, HandleLast, Receives,
                clientVars, servingVars, requestVars
  <2>2. job'.method \notin Requests /\ \A id \in Ids : ~Names(job', id)
    BY <1>1, <2>1, NoMessageServesNothing DEF Names, Requests
  <2>3. QED BY <1>5, <2>1, <2>2
<1>7. CASE HandleCancel
  <2>1. /\ UNCHANGED <<status, completed>> /\ job' = job /\ m.method = "cancel"
        /\ pending' \in {pending, pending \cup {m.id}}
    BY <1>7 DEF HandleCancel, Registry!Cancel, Receives, clientVars, servingVars
  <2>2. job'.method \notin Requests /\ \A id \in Ids : ~Names(job', id)
    BY <1>1, <1>3, <2>1, NoMessageServesNothing DEF Requests
  <2>3. QED BY <1>5, <2>1, <2>2
<1>8. CASE HandleDirect("direct") \/ HandleDirect("shutdown")
  <2>1. /\ UNCHANGED <<completed, pending>> /\ job' = job
        /\ status' = [status EXCEPT ![m.id] = "result"]
        /\ m.method \in {"direct", "shutdown"}
    BY <1>8 DEF HandleDirect, Receives, requestVars
  <2>2. job'.method \notin Requests /\ \A id \in Ids : ~Names(job', id)
    BY <1>1, <1>3, <2>1, NoMessageServesNothing DEF Requests
  <2>3. m.id \in Ids /\ Names(m, m.id)
    BY <1>1, <2>1, MessageFields DEF Names
  <2>4. status[m.id] = "waiting"
    <3>1. 1 \in 1 .. Len(Sent) /\ Sent[1] = m
      <4>1. Len(Sent) = Len(Sent') + 1 /\ Len(Sent') \in Nat
        BY <1>1, SentLength DEF Taken
      <4>2. QED BY <1>1, <4>1 DEF Taken
    <3>2. QED BY <2>3, <3>1 DEF CInv, Conserved, Waits
  <2>5. \A id \in Ids : status'[id] = status[id]
                          \/ (status'[id] = "result" /\ status[id] = "waiting")
    BY <2>1, <2>4 DEF CInv, IInv, TypeOK
  <2>6. QED BY <1>5, <2>1, <2>2, <2>5
<1>9. QED BY <1>4, <1>6, <1>7, <1>8 DEF Handle

LEMMA CInvRespond ==
  ASSUME CInv, IInv', Conserved', Respond
  PROVE  CInv'
<1>1. /\ job.method \in Requests /\ job.id \in Ids /\ answer \in Outcomes
      /\ Names(job, job.id)
  <2>1. job.method \in Requests /\ answer \in Outcomes
    BY DEF Respond, CInv, IInv, Shape, Serves
  <2>2. job \in Message
    BY <2>1, NoMessageServesNothing DEF CInv, IInv, TypeOK, Requests
  <2>3. QED BY <2>1, <2>2, MessageFields DEF Names
<1>2. /\ status' = [status EXCEPT ![job.id] = answer]
      /\ asked' = asked /\ Sent' = Sent /\ job' = NoMessage
      /\ pending' = pending \ {job.id}
      /\ completed' \subseteq completed \cup {job.id}
  <2>1. asked' = asked /\ Sent' = Sent /\ job' = NoMessage
    BY EndKeeps
  <2>2. QED BY <2>1 DEF Respond, Registry!Finish
<1>3. /\ status'[job.id] = answer
      /\ \A id \in Ids : id # job.id => status'[id] = status[id] /\ ~Names(job, id)
  BY <1>1, <1>2 DEF CInv, IInv, TypeOK, Names
<1>4. asked \subseteq Ids /\ completed \subseteq Ids
  BY DEF CInv, IInv, TypeOK
<1>5. answer # "unused" /\ answer # "waiting"
  BY <1>1 DEF Outcomes
<1>6. AskedInTime'
  <2>1. \A id \in asked' : status'[id] # "unused"
    BY <1>2, <1>3, <1>4, <1>5 DEF CInv, AskedInTime
  <2>2. \A id \in completed' : status'[id] \in Outcomes
    BY <1>1, <1>2, <1>3, <1>4 DEF CInv, AskedInTime
  <2>3. QED BY <1>2, <2>1, <2>2 DEF CInv, AskedInTime
<1>7. job'.method \notin Requests
  BY <1>2, NoMessageServesNothing DEF Requests
<1>8. AskedIsKept'
  <2>1. \A id \in asked' : status'[id] = "waiting" => id \in pending'
    BY <1>2, <1>3, <1>4, <1>5 DEF CInv, AskedIsKept
  <2>2. QED BY <1>7, <2>1 DEF AskedIsKept, Serves
<1>9. CancelledWithCause'
  BY <1>7 DEF CancelledWithCause, Serves
<1>10. QED BY <1>6, <1>8, <1>9 DEF CInv

LEMMA CInvPublish ==
  ASSUME CInv, IInv', Conserved', Publish
  PROVE  CInv'
<1>1. job.method \in {"open", "change", "close"}
  BY DEF Publish, CInv, IInv, Shape
<1>2. \A id : ~Names(job, id)
  BY <1>1 DEF Names, Requests
<1>3. /\ Sent' = Sent /\ job' = NoMessage
      /\ UNCHANGED <<status, asked, pending, completed>>
  BY EndKeeps DEF Publish, requestVars
<1>4. job'.method \notin Requests
  BY <1>3, NoMessageServesNothing DEF Requests
<1>5. AskedInTime'
  BY <1>3 DEF CInv, AskedInTime
<1>6. AskedIsKept'
  BY <1>2, <1>3, <1>4 DEF CInv, AskedIsKept, Serves
<1>7. CancelledWithCause'
  BY <1>4 DEF CancelledWithCause, Serves
<1>8. QED BY <1>5, <1>6, <1>7 DEF CInv

LEMMA CInvInner ==
  ASSUME CInv, IInv', Conserved', Inner
  PROVE  CInv'
<1>1. UNCHANGED <<status, asked, job>> /\ Sent' = Sent
  BY InnerKeeps DEF clientVars
<1>2. CASE \E u \in Uris : PublishStart(u)
  <2>1. /\ UNCHANGED <<pending, completed>> /\ stage = "publish"
    BY <1>2 DEF PublishStart, requestVars
  <2>2. job.method \notin Requests
    BY <2>1 DEF CInv, IInv, Shape, Requests
  <2>3. AskedInTime'
    BY <1>1, <2>1 DEF CInv, AskedInTime
  <2>4. AskedIsKept'
    BY <1>1, <2>1, <2>2 DEF CInv, AskedIsKept, Serves
  <2>5. CancelledWithCause'
    BY <1>1, <2>2 DEF CancelledWithCause, Serves
  <2>6. QED BY <2>3, <2>4, <2>5 DEF CInv
<1>3. CASE ~\E u \in Uris : PublishStart(u)
  <2>1. /\ UNCHANGED <<pending, completed, cancelled>>
        /\ answer' = answer \/ (answer' = "cancelled" /\ job.id \in cancelled)
    BY <1>3 DEF Inner, PublishSkip, TrackNext, PublishSyntax, Analyse,
         RequestAnalysed, PublishAnalysed, Decide, requestVars, documentVars,
         Observed!TrackAnalysis, Observed!FinishAnalysis
  <2>2. QED BY <1>1, <2>1, CInvSame
<1>4. QED BY <1>2, <1>3

LEMMA CInvStep == CInv /\ [Next]_vars => CInv'
<1> SUFFICES ASSUME CInv, [Next]_vars PROVE CInv'
  OBVIOUS
<1>1. IInv /\ IInv' /\ Conserved'
  BY IInvStep, ConservedStep DEF CInv
<1>2. CASE Reader
  <2>1. UNCHANGED servingVars /\ TypeOK
    BY <1>1, <1>2, ReaderReads DEF IInv
  <2>2. CASE ReaderSend
    <3>1. Sent' = Sent /\ UNCHANGED <<status, asked, pending, completed, cancelled>>
      BY <2>2, SendingKeepsSent DEF ReaderSend, clientVars, requestVars
    <3>2. job' = job /\ answer' = answer
      BY <2>1 DEF servingVars
    <3>3. QED BY <1>1, <3>1, <3>2, CInvSame
  <2>3. CASE \E m \in Message : Reading(m) /\ Appended(m)
    BY <1>1, <2>1, <2>3, CInvReading
  <2>4. QED BY <1>2, <2>1, <2>2, <2>3, ReaderReads
<1>3. CASE Handle
  BY <1>1, <1>3, CInvHandle
<1>4. CASE Inner
  BY <1>1, <1>4, CInvInner
<1>5. CASE Publish
  BY <1>1, <1>5, CInvPublish
<1>6. CASE Respond
  BY <1>1, <1>6, CInvRespond
<1>7. CASE UNCHANGED vars
  <2>1. Sent' = Sent /\ answer' = answer
        /\ UNCHANGED <<status, asked, pending, completed, cancelled, job>>
    BY <1>7 DEF vars, clientVars, readerVars, requestVars, servingVars, Sent
  <2>2. QED BY <1>1, <2>1, CInvSame
<1>8. QED BY <1>2, <1>3, <1>4, <1>5, <1>6, <1>7, KindsOfSteps

LEMMA CInvCauses == CInv => CancelledForAReason
<1> SUFFICES ASSUME CInv, stage = "respond", answer = "cancelled",
                    job.id \notin asked
             PROVE  \E m \in {inbox[i] : i \in DOMAIN inbox} \cup {reading} :
                      m.method \in {"open", "change", "garble", "close"}
  BY DEF CancelledForAReason
<1>1. Serves(Requests)
  BY DEF CInv, IInv, Shape, Serves
<1>2. PICK i \in 1 .. Len(Sent) : Sent[i].method \in TextMethods
  BY <1>1 DEF CInv, CancelledWithCause, TextBehind
<1>3. inbox \in Seq(Message) /\ reading \in Message \cup {NoMessage}
  BY DEF CInv, IInv, TypeOK
<1>4. CASE i \in 1 .. Len(inbox)
  <2>1. i \in DOMAIN inbox /\ Sent[i] = inbox[i]
    BY <1>3, <1>4, SentPlaces DEF CInv, IInv
  <2>2. QED BY <1>2, <2>1 DEF TextMethods
<1>5. CASE i \notin 1 .. Len(inbox)
  <2>1. TypeOK /\ Len(inbox) \in Nat
    BY SentPlaces DEF CInv, IInv
  <2>2. reading # NoMessage
    BY <1>5, <2>1, SentPlaces
  <2>3. Len(Sent) = Len(inbox) + 1 /\ Sent[Len(Sent)] = reading
    BY <2>1, <2>2, SentPlaces
  <2>4. i = Len(Sent)
    BY <1>5, <2>1, <2>3
  <2>5. QED BY <1>2, <2>3, <2>4 DEF TextMethods
<1>6. QED BY <1>4, <1>5

\* A request, from a client that uses no id twice and sends only edits that
\* apply, stays in one place until it is answered once, for the version the
\* client showed when it sent it, or as cancelled for a reason.
THEOREM EveryRequestIsAccountedFor ==
  ASSUME FreshIds, "garble" \notin Methods
  PROVE  Spec => []RequestsAccountedFor
<1>1. Init => AInv /\ CInv
  BY AInvInit, CInvInit
<1>2. AInv /\ CInv /\ [Next]_vars => AInv' /\ CInv'
  BY AInvStep, CInvStep
<1>3. AInv /\ CInv => RequestsAccountedFor
  <2>1. CInv => TypeOK /\ Conserved
    BY DEF CInv, IInv
  <2>2. CInv => RequestsConserved
    BY <2>1, ConservedCounts
  <2>3. QED BY <2>2, AInvAnswers, CInvCauses DEF RequestsAccountedFor
<1>4. QED BY <1>1, <1>2, <1>3, PTL DEF Spec

\* A cancellation sent before the last look at the token is honoured, however
\* early it overtook its request, unless the client reuses ids.
THEOREM CancellationIsHonoured ==
  ASSUME FreshIds
  PROVE  Spec => CancellationHonoured
<1>1. Init => CInv
  BY CInvInit
<1>2. CInv /\ [Next]_vars => CInv'
  BY CInvStep
<1>3. CInv /\ [Next]_vars =>
        [stage = "decide" /\ stage' = "respond" /\ job.id \in asked
           => answer' = "cancelled"]_vars
  <2> SUFFICES ASSUME CInv, Next, stage = "decide", stage' = "respond",
                      job.id \in asked
               PROVE  answer' = "cancelled"
    OBVIOUS
  <2>1. job.id \in cancelled
    BY DEF CInv, IInv, Shape, AskedIsKept, Serves
  <2>2. ~Reader
    <3>1. Reader => stage' = stage
      BY ReaderReads DEF servingVars, CInv, IInv
    <3>2. QED BY <3>1
  <2>3. Decide
    BY <2>2 DEF Next, Serving, Handle, HandleText, IgnoreChange, HandleClose,
       HandleRequest, HandleCancel, HandleDirect, HandleLast, Receives,
       PublishSkip, PublishStart, TrackNext, PublishSyntax, Analyse,
       RequestAnalysed, PublishAnalysed, Publish, Respond
  <2>4. QED BY <2>1, <2>3 DEF Decide
<1>4. QED BY <1>1, <1>2, <1>3, PTL DEF Spec, CancellationHonoured

-----------------------------------------------------------------------------
(***************************************************************************)
(* What the client displays once everything it sent is handled.            *)
(***************************************************************************)

MovesBehind(u) == \E i \in 1 .. Len(Sent) : Moves(Sent[i], u)

\* The reader knows each document as its client does.
ReaderKnows ==
  /\ \A u \in Uris :
       IF opened[u] # NoVersion
       THEN u \notin closed /\ versions[u] = opened[u]
       ELSE u \in closed \/ versions[u] = NoVersion
  /\ \A i \in 1 .. Len(Sent) : \A u \in Uris :
       Moves(Sent[i], u) => versions[u] # NoVersion

TextJob == Serves({"open", "change"})
JobFor(u) == TextJob /\ WorkspaceOf[u] = WorkspaceOf[job.uri]

\* What is made of a document when nothing cuts its analysis short.
FullReport(u) ==
  [version |-> documents[u], whole |-> TRUE, seen |-> documents,
   lists |-> Listed(u, documents)]

\* What a job is about to display.
OutboxTells ==
  /\ TextJob => \A n \in outbox :
       documents[n.uri] # NoVersion /\ n.diagnostics = FullReport(n.uri)
  /\ Serves({"close"}) =>
       /\ outbox = {[uri |-> job.uri, diagnostics |-> Cleared]}
       /\ documents[job.uri] = NoVersion

\* A document of the job's workspace is passed over only if news of it is on
\* its way.
NonePassedOver ==
  \A u \in Uris : JobFor(u) /\ documents[u] # NoVersion =>
    u \in todo \/ (\E n \in outbox : n.uri = u) \/ MovesBehind(u)

ShownInFull(u) ==
  /\ shown[u].version = documents[u]
  /\ shown[u].whole
  /\ shown[u].lists = Listed(u, shown[u].seen)
  /\ \A w \in Uris : documents[w] # NoVersion /\ WorkspaceOf[w] = WorkspaceOf[u]
       => shown[u].seen[w] = documents[w]

ShownOrDue ==
  \A u \in Uris :
    IF documents[u] # NoVersion
    THEN ShownInFull(u) \/ MovesBehind(u) \/ JobFor(u)
    ELSE \/ shown[u] = Cleared
         \/ MovesBehind(u)
         \/ Serves({"close"}) /\ job.uri = u

QInv ==
  /\ PInv
  /\ AInv
  /\ ReaderKnows
  /\ OutboxTells
  /\ NonePassedOver
  /\ ShownOrDue

LEMMA QInvInit == Init /\ FreshVersions /\ "garble" \notin Methods => QInv
<1> SUFFICES ASSUME Init, FreshVersions, "garble" \notin Methods PROVE QInv
  OBVIOUS
<1>1. Len(Sent) = 0 /\ job = NoMessage
  BY DEF Init, Sent
<1>2. 1 .. Len(Sent) = {} /\ ~TextJob /\ ~Serves({"close"})
  BY <1>1, NoMessageServesNothing DEF TextJob, Serves
<1>3. ReaderKnows /\ OutboxTells /\ NonePassedOver /\ ShownOrDue
  BY <1>2 DEF Init, ReaderKnows, OutboxTells, NonePassedOver, ShownOrDue, JobFor
<1>4. QED BY PInvInit, AInvInit, <1>3 DEF QInv

\* A document whose text is not the newest has its news on the way.
LEMMA StaleMeansBehind ==
  ASSUME QInv, NEW u \in Uris, ~MovesBehind(u)
  PROVE  /\ opened[u] = documents[u]
         /\ documents[u] # NoVersion => u \notin closed /\ versions[u] = documents[u]
         /\ documents[u] = NoVersion => u \in closed \/ versions[u] = NoVersion
<1>1. Shows(Sent, documents, u, Len(Sent) + 1, opened[u])
  BY DEF QInv, AInv, ReachesClient
<1>2. opened[u] = documents[u]
  BY <1>1 DEF Shows, MovesBehind
<1>3. QED BY <1>2 DEF QInv, ReaderKnows

LEMMA AppendedBehind ==
  ASSUME TypeOK, NEW m, Appended(m), NEW u
  PROVE  /\ MovesBehind(u) => MovesBehind(u)'
         /\ \A i \in 1 .. Len(Sent') : Sent'[i] = m \/ \E j \in 1 .. Len(Sent) : Sent'[i] = Sent[j]
<1> DEFINE n == Len(Sent)
<1>1. /\ n \in Nat /\ Len(Sent') = n + 1 /\ Sent'[n + 1] = m
      /\ \A i \in 1 .. n : Sent'[i] = Sent[i]
  BY SentTypes DEF Appended
<1>2. 1 .. n + 1 = (1 .. n) \cup {n + 1}
  BY <1>1
<1>3. QED BY <1>1, <1>2 DEF MovesBehind

LEMMA TakenBehind ==
  ASSUME IInv', NEW m, Taken(m), NEW u
  PROVE  /\ MovesBehind(u) => Moves(m, u) \/ MovesBehind(u)'
         /\ Moves(m, u) => MovesBehind(u)
         /\ \A i \in 1 .. Len(Sent') : \E j \in 1 .. Len(Sent) : Sent'[i] = Sent[j]
<1> DEFINE n == Len(Sent')
<1>1. /\ n \in Nat /\ Len(Sent) = n + 1 /\ Sent[1] = m
      /\ \A i \in 1 .. n : Sent'[i] = Sent[i + 1]
  BY SentLength DEF Taken
<1>2. 1 \in 1 .. n + 1 /\ \A i \in 1 .. n : i + 1 \in 1 .. n + 1
  BY <1>1
<1>3. ASSUME NEW j \in 1 .. n + 1, j # 1
      PROVE  \E i \in 1 .. n : Sent'[i] = Sent[j]
  <2>1. j - 1 \in 1 .. n /\ (j - 1) + 1 = j
    BY <1>1, <1>3
  <2>2. QED BY <1>1, <2>1
<1>4. MovesBehind(u) => Moves(m, u) \/ MovesBehind(u)'
  BY <1>1, <1>3 DEF MovesBehind
<1>5. Moves(m, u) => MovesBehind(u)
  BY <1>1, <1>2 DEF MovesBehind
<1>6. \A i \in 1 .. n : \E j \in 1 .. Len(Sent) : Sent'[i] = Sent[j]
  BY <1>1, <1>2
<1>7. QED BY <1>4, <1>5, <1>6

-----------------------------------------------------------------------------

\* A step that changes no text and no display.
LEMMA QInvSame ==
  ASSUME QInv, PInv', AInv', Sent' = Sent,
         UNCHANGED <<opened, versions, closed, documents, job, shown, outbox>>,
         todo' = todo \/ ~TextJob
  PROVE  QInv'
<1>1. /\ \A u : MovesBehind(u)' <=> MovesBehind(u)
      /\ TextJob' <=> TextJob
      /\ \A u : JobFor(u)' <=> JobFor(u)
      /\ \A u : ShownInFull(u)' <=> ShownInFull(u)
  BY DEF MovesBehind, TextJob, JobFor, Serves, ShownInFull
<1>2. ReaderKnows'
  BY DEF QInv, ReaderKnows
<1>3. OutboxTells'
  BY <1>1 DEF QInv, OutboxTells, FullReport, Serves
<1>4. NonePassedOver'
  BY <1>1 DEF QInv, NonePassedOver, JobFor
<1>5. ShownOrDue'
  BY <1>1 DEF QInv, ShownOrDue, Serves
<1>6. QED BY <1>2, <1>3, <1>4, <1>5 DEF QInv

\* What the reader has seen of a document once it has read a message.
LEMMA ReadingKnows ==
  ASSUME QInv, NEW m \in Message, Reading(m), Appended(m)
  PROVE  ReaderKnows'
<1>1. /\ \A i \in 1 .. Len(Sent') : Sent'[i] = m \/ \E j \in 1 .. Len(Sent) : Sent'[i] = Sent[j]
      /\ TypeOK /\ FreshVersions /\ "garble" \notin Methods
  BY AppendedBehind DEF QInv, PInv, IInv, AInv
<1>2. versions \in [Uris -> Nat] /\ opened \in [Uris -> Versions \cup {NoVersion}]
  BY <1>1, VersionTypes DEF TypeOK
<1>3. CASE /\ UNCHANGED <<opened, versions, closed>>
           /\ \A u : ~Moves(m, u)
  BY <1>1, <1>3 DEF QInv, ReaderKnows
<1>4. ASSUME NEW u \in Uris, NEW v \in Versions, m.uri = u,
             opened' = [opened EXCEPT ![u] = v],
             versions' = [versions EXCEPT ![u] = v], closed' = closed \ {u}
      PROVE  ReaderKnows'
  <2>1. v # NoVersion
    BY DEF Versions, NoVersion
  <2>2. ASSUME NEW w \in Uris
        PROVE  IF opened'[w] # NoVersion
               THEN w \notin closed' /\ versions'[w] = opened'[w]
               ELSE w \in closed' \/ versions'[w] = NoVersion
    BY <1>2, <1>4, <2>1 DEF QInv, ReaderKnows
  <2>3. ASSUME NEW w \in Uris, versions[w] # NoVersion \/ w = u
        PROVE  versions'[w] # NoVersion
    BY <1>2, <1>4, <2>1, <2>3
  <2>4. \A w \in Uris : Moves(m, w) => w = u
    BY <1>4 DEF Moves
  <2>5. QED BY <1>1, <2>2, <2>3, <2>4 DEF QInv, ReaderKnows
<1>5. ASSUME NEW u \in Uris, NEW v \in Versions, v > versions[u],
             Observed!ObserveText(u, v)
      PROVE  versions' = [versions EXCEPT ![u] = v] /\ closed' = closed \ {u}
  <2>1. v \in Nat /\ versions[u] \in Nat
    BY <1>2, LspAssumption DEF Versions
  <2>2. v >= versions[u]
    BY <1>5, <2>1
  <2>3. QED BY <1>5, <2>2 DEF Observed!ObserveText
<1>6. ASSUME NEW u \in Uris, NEW v \in Versions, ReadOpen(u, v),
             m = [method |-> "open", uri |-> u, version |-> v]
      PROVE  ReaderKnows'
  <2>1. v > versions[u]
    BY <1>1, <1>6, Zenon DEF ReadOpen
  <2>2. opened' = [opened EXCEPT ![u] = v] /\ Observed!ObserveText(u, v) /\ m.uri = u
    BY <1>6 DEF ReadOpen
  <2>3. QED BY <1>4, <1>5, <2>1, <2>2
<1>7. ASSUME NEW k \in {"change", "garble"}, NEW u \in Uris, NEW v \in Versions,
             ReadChange(k, u, v), m = [method |-> k, uri |-> u, version |-> v]
      PROVE  ReaderKnows'
  <2>1. v > versions[u]
    BY <1>1, <1>7, Zenon DEF ReadChange
  <2>2. opened' = [opened EXCEPT ![u] = v] /\ Observed!ObserveText(u, v) /\ m.uri = u
    BY <1>7 DEF ReadChange
  <2>3. QED BY <1>4, <1>5, <2>1, <2>2
<1>8. ASSUME NEW u \in Uris, ReadClose(u), m = [method |-> "close", uri |-> u]
      PROVE  ReaderKnows'
  <2>1. /\ opened[u] # NoVersion /\ opened' = [opened EXCEPT ![u] = NoVersion]
        /\ closed' = closed \cup {u} /\ versions' = versions /\ m.uri = u
    BY <1>8 DEF ReadClose, Observed!ObserveClose
  <2>2. versions[u] # NoVersion
    BY <2>1 DEF QInv, ReaderKnows
  <2>3. ASSUME NEW w \in Uris
        PROVE  IF opened'[w] # NoVersion
               THEN w \notin closed' /\ versions'[w] = opened'[w]
               ELSE w \in closed' \/ versions'[w] = NoVersion
    BY <1>2, <2>1 DEF QInv, ReaderKnows
  <2>4. \A w \in Uris : Moves(m, w) => w = u
    BY <2>1 DEF Moves
  <2>5. QED BY <1>1, <2>1, <2>2, <2>3, <2>4 DEF QInv, ReaderKnows
<1>9. ASSUME NEW id \in Ids, ReadRequest(m),
             m \in DocumentRequest(id) \cup OtherRequest(id)
      PROVE  ReaderKnows'
  BY <1>3, <1>9 DEF ReadRequest, DocumentRequest, OtherRequest, documentVars, Moves
<1>10. ASSUME NEW id \in Ids, ReadCancel(id), m = [method |-> "cancel", id |-> id]
       PROVE  ReaderKnows'
  BY <1>3, <1>10 DEF ReadCancel, documentVars, Moves
<1>11. ASSUME NEW k \in {"exit", "end"}, ReadLast(k), m = [method |-> k]
       PROVE  ReaderKnows'
  BY <1>3, <1>11 DEF ReadLast, clientVars, documentVars, Moves
<1>12. QED BY <1>6, <1>7, <1>8, <1>9, <1>10, <1>11 DEF Reading

LEMMA ReadingDisplaysNothing ==
  ASSUME NEW m, Reading(m)
  PROVE  shown' = shown
BY DEF Reading, ReadOpen, ReadChange, ReadClose, ReadRequest, ReadCancel, ReadLast,
       clientVars

LEMMA QInvReading ==
  ASSUME QInv, PInv', AInv', NEW m \in Message, Reading(m), Appended(m),
         UNCHANGED servingVars
  PROVE  QInv'
<1>1. \A u : MovesBehind(u) => MovesBehind(u)'
  BY AppendedBehind DEF QInv, PInv, IInv
<1>2. UNCHANGED <<documents, job, todo, outbox, shown>>
  BY ReadingDisplaysNothing DEF servingVars
<1>3. /\ TextJob' <=> TextJob
      /\ \A u : JobFor(u)' <=> JobFor(u)
      /\ \A u : ShownInFull(u)' <=> ShownInFull(u)
  BY <1>2 DEF TextJob, JobFor, Serves, ShownInFull
<1>4. OutboxTells'
  BY <1>2, <1>3 DEF QInv, OutboxTells, FullReport, Serves
<1>5. NonePassedOver'
  BY <1>1, <1>2, <1>3 DEF QInv, NonePassedOver
<1>6. ShownOrDue'
  BY <1>1, <1>2, <1>3 DEF QInv, ShownOrDue, Serves
<1>7. QED BY ReadingKnows, <1>4, <1>5, <1>6 DEF QInv

LEMMA QInvHandle ==
  ASSUME QInv, PInv', AInv', Handle
  PROVE  QInv'
<1> DEFINE m == Head(inbox)
<1>1. /\ Taken(m) /\ m \in Message /\ job = NoMessage /\ stage = "idle"
      /\ opened' = opened /\ shown' = shown /\ outbox = {}
  BY HandleTakes, IdleIsClean DEF QInv, PInv
<1>2. /\ \A u : MovesBehind(u) => Moves(m, u) \/ MovesBehind(u)'
      /\ \A u : Moves(m, u) => MovesBehind(u)
      /\ \A i \in 1 .. Len(Sent') : \E j \in 1 .. Len(Sent) : Sent'[i] = Sent[j]
  BY <1>1, TakenBehind DEF PInv
<1>3. versions' = versions /\ closed' = closed
  BY DEF Handle, HandleText, IgnoreChange, HandleClose, HandleRequest,
         HandleCancel, HandleDirect, HandleLast, documentVars
<1>4. ReaderKnows'
  BY <1>1, <1>2, <1>3 DEF QInv, ReaderKnows
<1>5. ~TextJob /\ ~Serves({"close"})
  BY <1>1, NoMessageServesNothing DEF TextJob, Serves
<1>6. documents \in [Uris -> Versions \cup {NoVersion}]
  BY DEF QInv, PInv, IInv, TypeOK
<1>7. CASE HandleText(m)
  <2>1. /\ m.method \in {"open", "change"} /\ job' = m /\ outbox' = {}
        /\ documents' = [documents EXCEPT ![m.uri] = m.version]
        /\ todo' = {w \in Uris : documents'[w] # NoVersion
                                   /\ WorkspaceOf[w] = WorkspaceOf[m.uri]}
    BY <1>1, <1>7 DEF HandleText, Siblings
  <2>2. m.uri \in Uris /\ m.version \in Versions
    BY <1>1, <2>1, MessageFields
  <2>3. TextJob' /\ ~Serves({"close"})'
    BY <2>1 DEF TextJob, Serves
  <2>4. OutboxTells'
    BY <2>1, <2>3 DEF OutboxTells
  <2>5. NonePassedOver'
    BY <2>1 DEF NonePassedOver, JobFor
  <2>6. ASSUME NEW u \in Uris
        PROVE  IF documents'[u] # NoVersion
               THEN ShownInFull(u)' \/ MovesBehind(u)' \/ JobFor(u)'
               ELSE shown'[u] = Cleared \/ MovesBehind(u)'
    <3>1. CASE u = m.uri
      <4>1. JobFor(u)' /\ documents'[u] # NoVersion
        BY <1>6, <2>1, <2>2, <2>3, <3>1, LspAssumption
           DEF JobFor, Versions, NoVersion
      <4>2. QED BY <4>1
    <3>2. CASE u # m.uri
      <4>1. documents'[u] = documents[u] /\ ~Moves(m, u)
        BY <1>6, <2>1, <3>2 DEF Moves
      <4>2. CASE documents[u] = NoVersion
        BY <1>1, <1>2, <1>5, <4>1, <4>2 DEF QInv, ShownOrDue
      <4>3. CASE documents[u] # NoVersion /\ WorkspaceOf[u] = WorkspaceOf[m.uri]
        BY <2>1, <2>3, <4>1, <4>3 DEF JobFor
      <4>4. CASE documents[u] # NoVersion /\ WorkspaceOf[u] # WorkspaceOf[m.uri]
        <5>1. ShownInFull(u) \/ MovesBehind(u)
          BY <1>5, <4>4 DEF QInv, ShownOrDue, JobFor
        <5>2. CASE MovesBehind(u)
          BY <1>2, <4>1, <4>4, <5>2
        <5>3. CASE ShownInFull(u)
          <6>1. \A w \in Uris : WorkspaceOf[w] = WorkspaceOf[u] => documents'[w] = documents[w]
            BY <1>6, <2>1, <4>4
          <6>2. ShownInFull(u)'
            BY <1>1, <4>1, <5>3, <6>1 DEF ShownInFull
          <6>3. QED BY <4>1, <4>4, <6>2
        <5>4. QED BY <5>1, <5>2, <5>3
      <4>5. QED BY <4>2, <4>3, <4>4
    <3>3. QED BY <3>1, <3>2
  <2>7. ShownOrDue'
    BY <2>6 DEF ShownOrDue
  <2>8. QED BY <1>4, <2>4, <2>5, <2>7 DEF QInv
<1>8. CASE HandleClose(m)
  <2>1. /\ m.method = "close" /\ documents' = [documents EXCEPT ![m.uri] = NoVersion]
        /\ IF m.uri \in closed
           THEN /\ outbox' = {[uri |-> m.uri, diagnostics |-> Cleared]}
                /\ job' = m
           ELSE job' = job
    BY <1>8 DEF HandleClose, Receives, Observed!IsClosed
  <2>2. m.uri \in Uris
    BY <1>1, <2>1, MessageFields
  <2>3. ~TextJob' /\ \A u : ~JobFor(u)'
    BY <1>1, <2>1, NoMessageServesNothing DEF TextJob, Serves, JobFor
  <2>4. OutboxTells'
    <3>1. CASE m.uri \in closed
      BY <1>6, <2>1, <2>2, <2>3, <3>1 DEF OutboxTells
    <3>2. CASE m.uri \notin closed
      BY <1>1, <2>1, <2>3, <3>2, NoMessageServesNothing DEF OutboxTells, Serves
    <3>3. QED BY <3>1, <3>2
  <2>5. NonePassedOver'
    BY <2>3 DEF NonePassedOver
  <2>6. ASSUME NEW u \in Uris
        PROVE  IF documents'[u] # NoVersion
               THEN ShownInFull(u)' \/ MovesBehind(u)'
               ELSE shown'[u] = Cleared \/ MovesBehind(u)'
                      \/ (Serves({"close"})' /\ job'.uri = u)
    <3>1. CASE u = m.uri
      <4>1. documents'[u] = NoVersion
        BY <1>6, <2>1, <2>2, <3>1
      <4>2. CASE u \in closed
        BY <2>1, <3>1, <4>1, <4>2 DEF Serves
      <4>3. CASE u \notin closed
        <5>1. Moves(m, u)
          BY <2>1, <3>1 DEF Moves
        <5>2. versions[u] # NoVersion
          <6>1. PICK i \in 1 .. Len(Sent) : Moves(Sent[i], u)
            BY <1>2, <5>1 DEF MovesBehind
          <6>2. QED BY <6>1 DEF QInv, ReaderKnows
        <5>3. opened[u] # NoVersion
          BY <4>3, <5>2 DEF QInv, ReaderKnows
        <5>4. Shows(Sent', documents', u, Len(Sent') + 1, opened'[u])
          BY DEF AInv, ReachesClient
        <5>5. MovesBehind(u)'
          BY <1>1, <4>1, <5>3, <5>4 DEF Shows, MovesBehind
        <5>6. QED BY <4>1, <5>5
      <4>4. QED BY <4>2, <4>3
    <3>2. CASE u # m.uri
      <4>1. documents'[u] = documents[u] /\ ~Moves(m, u)
        BY <1>6, <2>1, <3>2 DEF Moves
      <4>2. CASE documents[u] = NoVersion
        BY <1>1, <1>2, <1>5, <4>1, <4>2 DEF QInv, ShownOrDue
      <4>3. CASE documents[u] # NoVersion
        <5>1. ShownInFull(u) \/ MovesBehind(u)
          BY <1>5, <4>3 DEF QInv, ShownOrDue, JobFor
        <5>2. CASE MovesBehind(u)
          BY <1>2, <4>1, <4>3, <5>2
        <5>3. CASE ShownInFull(u)
          <6>1. \A w \in Uris : documents'[w] # NoVersion => documents'[w] = documents[w]
            BY <1>6, <2>1, <2>2
          <6>2. ShownInFull(u)'
            BY <1>1, <4>1, <5>3, <6>1 DEF ShownInFull
          <6>3. QED BY <4>1, <4>3, <6>2
        <5>4. QED BY <5>1, <5>2, <5>3
      <4>4. QED BY <4>2, <4>3
    <3>3. QED BY <3>1, <3>2
  <2>7. ShownOrDue'
    BY <2>6 DEF ShownOrDue
  <2>8. QED BY <1>4, <2>4, <2>5, <2>7 DEF QInv
<1>9. CASE /\ documents' = documents /\ \A u : ~Moves(m, u)
           /\ ~TextJob' /\ ~Serves({"close"})'
  <2>1. OutboxTells' /\ NonePassedOver'
    BY <1>9 DEF OutboxTells, NonePassedOver, JobFor
  <2>2. \A u : ShownInFull(u)' <=> ShownInFull(u)
    BY <1>1, <1>9 DEF ShownInFull
  <2>3. ShownOrDue'
    BY <1>1, <1>2, <1>5, <1>9, <2>2 DEF QInv, ShownOrDue, JobFor
  <2>4. QED BY <1>4, <2>1, <2>3 DEF QInv
<1>10. CASE HandleRequest(m)
  <2>1. documents' = documents /\ job' = m /\ m.method \in Requests
    BY <1>10 DEF HandleRequest
  <2>2. QED BY <1>9, <2>1 DEF Requests, Moves, TextJob, Serves
<1>11. CASE HandleCancel \/ HandleDirect("direct") \/ HandleDirect("shutdown")
              \/ HandleLast("exit") \/ HandleLast("end")
  <2>1. /\ documents' = documents /\ job' = job
        /\ m.method \in {"cancel", "direct", "shutdown", "exit", "end"}
    BY <1>11 DEF HandleCancel, HandleDirect, HandleLast, Receives, servingVars
  <2>2. QED BY <1>1, <1>9, <2>1, NoMessageServesNothing DEF Moves, TextJob, Serves
<1>12. CASE IgnoreChange(m)
  <2>1. /\ m.method \in {"change", "garble"} /\ documents' = documents
        /\ m.method = "garble" \/ documents[m.uri] = NoVersion
             \/ m.version <= documents[m.uri]
    BY <1>12 DEF IgnoreChange, servingVars
  <2>2. MeetsItsText(Sent, documents, 1) /\ Sent[1] = m /\ Len(Sent) \in Nat
    <3>1. Len(Sent) = Len(Sent') + 1 /\ Len(Sent') \in Nat /\ Sent[1] = m
      BY <1>1, SentLength DEF Taken, PInv
    <3>2. 1 \in 1 .. Len(Sent)
      BY <3>1
    <3>3. QED BY <3>1, <3>2 DEF QInv, AInv, AllMeetTheirText
  <2>3. m.method = "change" /\ \E w \in Versions :
          Shows(Sent, documents, m.uri, 1, w) /\ m.version > w
    BY <2>1, <2>2 DEF MeetsItsText
  <2>4. PICK w \in Versions : w = documents[m.uri] /\ m.version > w
    BY <2>2, <2>3, ShowsFirst
  <2>5. m.version \in Nat /\ w \in Nat /\ w # NoVersion
    BY <1>1, <2>3, MessageFields, LspAssumption DEF Versions, NoVersion
  <2>6. FALSE
    BY <2>1, <2>3, <2>4, <2>5
  <2>7. QED BY <2>6
<1>13. QED BY <1>7, <1>8, <1>10, <1>11, <1>12 DEF Handle

-----------------------------------------------------------------------------

LEMMA QInvSkip ==
  ASSUME QInv, PInv', AInv', NEW u \in Uris, PublishSkip(u)
  PROVE  QInv'
<1>1. /\ u \in todo /\ todo' = todo \ {u} /\ ~Observed!IsCurrent(u, documents[u])
      /\ UNCHANGED <<opened, versions, closed, documents, job, shown, outbox>>
      /\ Sent' = Sent
  <2>1. Sent' = Sent
    BY InnerKeeps DEF Inner
  <2>2. QED BY <2>1 DEF PublishSkip, clientVars, documentVars
<1>2. /\ \A w : MovesBehind(w)' <=> MovesBehind(w)
      /\ TextJob' <=> TextJob
      /\ \A w : JobFor(w)' <=> JobFor(w)
      /\ \A w : ShownInFull(w)' <=> ShownInFull(w)
  BY <1>1 DEF MovesBehind, TextJob, JobFor, Serves, ShownInFull
<1>3. documents[u] # NoVersion => MovesBehind(u)
  BY <1>1, StaleMeansBehind DEF Observed!IsCurrent
<1>4. ReaderKnows'
  BY <1>1 DEF QInv, ReaderKnows
<1>5. OutboxTells'
  BY <1>1, <1>2 DEF QInv, OutboxTells, FullReport, Serves
<1>6. NonePassedOver'
  BY <1>1, <1>2, <1>3 DEF QInv, NonePassedOver
<1>7. ShownOrDue'
  BY <1>1, <1>2 DEF QInv, ShownOrDue, Serves
<1>8. QED BY <1>4, <1>5, <1>6, <1>7 DEF QInv

LEMMA QInvAnalysed ==
  ASSUME QInv, PInv', AInv', PublishAnalysed
  PROVE  QInv'
<1> DEFINE n == [uri |-> doc, diagnostics |-> Report(doc)]
<1>1. /\ todo' = todo \ {doc}
      /\ outbox' = IF Observed!IsCurrent(doc, documents[doc]) THEN outbox \cup {n}
                                                             ELSE outbox
      /\ UNCHANGED <<opened, versions, closed, documents, job, shown>>
      /\ Sent' = Sent
  <2>1. Sent' = Sent
    BY InnerKeeps DEF Inner
  <2>2. QED BY <2>1 DEF PublishAnalysed, clientVars, Observed!FinishAnalysis
<1>2. job.method \in {"open", "change"} /\ doc \in Uris /\ documents[doc] # NoVersion
  BY DEF PublishAnalysed, QInv, PInv, IInv, Shape
<1>3. /\ \A w : MovesBehind(w)' <=> MovesBehind(w)
      /\ TextJob' <=> TextJob
      /\ \A w : JobFor(w)' <=> JobFor(w)
      /\ \A w : ShownInFull(w)' <=> ShownInFull(w)
  BY <1>1 DEF MovesBehind, TextJob, JobFor, Serves, ShownInFull
<1>4. ReaderKnows'
  BY <1>1 DEF QInv, ReaderKnows
<1>5. OutboxTells'
  <2>1. TextJob' /\ ~Serves({"close"})' /\ TextJob
    BY <1>1, <1>2 DEF TextJob, Serves
  <2>2. n \in outbox' => whole
    BY DEF PInv, PublishedWhole, Report
  <2>3. n \in outbox' => n.diagnostics = FullReport(n.uri)
    <3>1. whole \in BOOLEAN
      BY DEF QInv, PInv, IInv, TypeOK
    <3>2. whole => whole = TRUE
      BY <3>1
    <3>3. whole => Report(doc) = FullReport(doc)
      BY <3>2 DEF Report, FullReport
    <3>4. QED BY <2>2, <3>3
  <2>4. \A k \in outbox' : k \in outbox \/ k = n
    BY <1>1
  <2>5. \A k \in outbox :
          documents[k.uri] # NoVersion /\ k.diagnostics = FullReport(k.uri)
    BY <2>1 DEF QInv, OutboxTells
  <2>6. documents[n.uri] # NoVersion
    BY <1>2
  <2>7. \A w : FullReport(w)' = FullReport(w)
    BY <1>1 DEF FullReport
  <2> HIDE DEF n
  <2>8. QED BY <1>1, <2>1, <2>3, <2>4, <2>5, <2>6, <2>7 DEF OutboxTells
<1>6. NonePassedOver'
  <2>1. CASE Observed!IsCurrent(doc, documents[doc])
    <3>1. n \in outbox' /\ n.uri = doc
      BY <1>1, <2>1
    <3>2. outbox \subseteq outbox'
      BY <1>1
    <3>3. QED BY <1>1, <1>3, <3>1, <3>2 DEF QInv, NonePassedOver
  <2>2. CASE ~Observed!IsCurrent(doc, documents[doc])
    <3>1. MovesBehind(doc)
      BY <1>2, <2>2, StaleMeansBehind DEF Observed!IsCurrent
    <3>2. QED BY <1>1, <1>3, <2>2, <3>1 DEF QInv, NonePassedOver
  <2>3. QED BY <2>1, <2>2
<1>7. ShownOrDue'
  BY <1>1, <1>3 DEF QInv, ShownOrDue, Serves
<1>8. QED BY <1>4, <1>5, <1>6, <1>7 DEF QInv

LEMMA QInvInner ==
  ASSUME QInv, PInv', AInv', Inner
  PROVE  QInv'
<1>1. CASE \E u \in Uris : PublishSkip(u)
  BY <1>1, QInvSkip
<1>2. CASE PublishAnalysed
  BY <1>2, QInvAnalysed
<1>3. CASE ~(\E u \in Uris : PublishSkip(u)) /\ ~PublishAnalysed
  <2>1. UNCHANGED <<opened, shown, documents, job>> /\ Sent' = Sent
    BY InnerKeeps DEF clientVars
  <2>2. UNCHANGED <<versions, closed, outbox>>
    BY <1>3 DEF Inner, PublishStart, TrackNext, PublishSyntax, Analyse,
       RequestAnalysed, Decide, documentVars, Observed!StartAnalysis,
       Observed!TrackAnalysis, Observed!FinishAnalysis
  <2>3. todo' = todo \/ ~TextJob
    <3>1. CASE RequestAnalysed
      BY <3>1 DEF RequestAnalysed, TextJob, Serves, Requests
    <3>2. CASE ~RequestAnalysed
      BY <1>3, <3>2 DEF Inner, PublishStart, TrackNext, PublishSyntax, Analyse, Decide
    <3>3. QED BY <3>1, <3>2
  <2>4. QED BY <2>1, <2>2, <2>3, QInvSame
<1>4. QED BY <1>1, <1>2, <1>3

\* Nothing is left of a job that has ended.
LEMMA EndedIsNone ==
  ASSUME job' = NoMessage
  PROVE  ~TextJob' /\ ~Serves({"close"})' /\ OutboxTells' /\ NonePassedOver'
BY NoMessageServesNothing DEF TextJob, Serves, OutboxTells, NonePassedOver, JobFor

LEMMA QInvRespond ==
  ASSUME QInv, PInv', AInv', Respond
  PROVE  QInv'
<1>1. /\ UNCHANGED <<opened, versions, closed, documents, shown>>
      /\ Sent' = Sent /\ job' = NoMessage
  BY EndKeeps DEF Respond
<1>2. ~TextJob /\ ~Serves({"close"})
  BY DEF Respond, QInv, PInv, IInv, Shape, TextJob, Serves, Requests
<1>3. /\ \A w : MovesBehind(w)' <=> MovesBehind(w)
      /\ \A w : ShownInFull(w)' <=> ShownInFull(w)
  BY <1>1 DEF MovesBehind, ShownInFull
<1>4. ReaderKnows'
  BY <1>1 DEF QInv, ReaderKnows
<1>5. ShownOrDue'
  BY <1>1, <1>2, <1>3 DEF QInv, ShownOrDue, JobFor
<1>6. QED BY <1>1, <1>4, <1>5, EndedIsNone DEF QInv

LEMMA QInvPublish ==
  ASSUME QInv, PInv', AInv', Publish
  PROVE  QInv'
<1>1. /\ UNCHANGED <<opened, versions, closed, documents>>
      /\ Sent' = Sent /\ job' = NoMessage /\ todo = {}
      /\ shown' = [u \in Uris |-> IF \E n \in outbox : n.uri = u
                                  THEN (CHOOSE n \in outbox : n.uri = u).diagnostics
                                  ELSE shown[u]]
  BY EndKeeps DEF Publish
<1>2. TextJob \/ Serves({"close"})
  BY DEF Publish, QInv, PInv, IInv, Shape, TextJob, Serves
<1>3. \A w : MovesBehind(w)' <=> MovesBehind(w)
  BY <1>1 DEF MovesBehind
<1>4. ReaderKnows'
  BY <1>1 DEF QInv, ReaderKnows
<1>5. ASSUME NEW u \in Uris, \A n \in outbox : n.uri # u
      PROVE  shown'[u] = shown[u]
  BY <1>1, <1>5
<1>6. ASSUME NEW u \in Uris, NEW k \in outbox, k.uri = u
      PROVE  \E n \in outbox : n.uri = u /\ shown'[u] = n.diagnostics
  <2> DEFINE n == CHOOSE n \in outbox : n.uri = u
  <2>1. n \in outbox /\ n.uri = u
    BY <1>6
  <2>2. shown'[u] = n.diagnostics
    BY <1>1, <1>6
  <2> HIDE DEF n
  <2>3. QED BY <2>1, <2>2
<1>7. CASE TextJob
  <2>1. ~Serves({"close"})
    BY <1>7 DEF TextJob, Serves
  <2>2. ASSUME NEW u \in Uris, documents[u] # NoVersion
        PROVE  ShownInFull(u)' \/ MovesBehind(u)
    <3>1. CASE \E k \in outbox : k.uri = u
      <4>1. PICK n \in outbox : n.uri = u /\ shown'[u] = n.diagnostics
        BY <1>6, <3>1
      <4>2. shown'[u] = FullReport(u)
        BY <1>7, <4>1 DEF QInv, OutboxTells
      <4>3. ShownInFull(u)'
        BY <1>1, <4>2 DEF ShownInFull, FullReport
      <4>4. QED BY <4>3
    <3>2. CASE ~\E k \in outbox : k.uri = u
      <4>1. shown'[u] = shown[u]
        BY <1>5, <3>2
      <4>2. ~JobFor(u) \/ MovesBehind(u)
        BY <1>1, <2>2, <3>2 DEF QInv, NonePassedOver
      <4>3. ShownInFull(u) \/ MovesBehind(u)
        BY <2>2, <4>2 DEF QInv, ShownOrDue
      <4>4. ShownInFull(u) => ShownInFull(u)'
        BY <1>1, <4>1 DEF ShownInFull
      <4>5. QED BY <4>3, <4>4
    <3>3. QED BY <3>1, <3>2
  <2>3. ASSUME NEW u \in Uris, documents[u] = NoVersion
        PROVE  shown'[u] = Cleared \/ MovesBehind(u)
    <3>1. \A n \in outbox : n.uri # u
      BY <1>7, <2>3 DEF QInv, OutboxTells
    <3>2. shown'[u] = shown[u]
      BY <1>5, <3>1
    <3>3. QED BY <2>1, <2>3, <3>2 DEF QInv, ShownOrDue
  <2>4. ShownOrDue'
    BY <1>1, <1>3, <2>2, <2>3 DEF ShownOrDue
  <2>5. QED BY <1>1, <1>4, <2>4, EndedIsNone DEF QInv
<1>8. CASE Serves({"close"})
  <2>1. /\ outbox = {[uri |-> job.uri, diagnostics |-> Cleared]}
        /\ documents[job.uri] = NoVersion /\ ~TextJob
    BY <1>8 DEF QInv, OutboxTells, TextJob, Serves
  <2>2. ASSUME NEW u \in Uris, u = job.uri
        PROVE  shown'[u] = Cleared
    BY <1>6, <2>1, <2>2
  <2>3. ASSUME NEW u \in Uris, u # job.uri
        PROVE  shown'[u] = shown[u]
    BY <1>5, <2>1, <2>3
  <2>4. ASSUME NEW u \in Uris, documents[u] # NoVersion
        PROVE  ShownInFull(u)' \/ MovesBehind(u)
    <3>1. shown'[u] = shown[u]
      BY <2>1, <2>3, <2>4
    <3>2. ShownInFull(u) \/ MovesBehind(u)
      BY <2>1, <2>4 DEF QInv, ShownOrDue, JobFor
    <3>3. ShownInFull(u) => ShownInFull(u)'
      BY <1>1, <3>1 DEF ShownInFull
    <3>4. QED BY <3>2, <3>3
  <2>5. ASSUME NEW u \in Uris, documents[u] = NoVersion
        PROVE  shown'[u] = Cleared \/ MovesBehind(u)
    BY <2>2, <2>3, <2>5 DEF QInv, ShownOrDue
  <2>6. ShownOrDue'
    BY <1>1, <1>3, <2>4, <2>5 DEF ShownOrDue
  <2>7. QED BY <1>1, <1>4, <2>6, EndedIsNone DEF QInv
<1>9. QED BY <1>2, <1>7, <1>8

LEMMA QInvStep == QInv /\ [Next]_vars => QInv'
<1> SUFFICES ASSUME QInv, [Next]_vars PROVE QInv'
  OBVIOUS
<1>1. PInv' /\ AInv' /\ TypeOK
  BY PInvStep, AInvStep DEF QInv, PInv, IInv
<1>2. CASE Reader
  <2>1. UNCHANGED servingVars
    BY <1>1, <1>2, ReaderReads
  <2>2. CASE ReaderSend
    <3>1. Sent' = Sent /\ UNCHANGED <<opened, shown, versions, closed>>
      BY <2>2, SendingKeepsSent DEF ReaderSend, clientVars, documentVars
    <3>2. UNCHANGED <<documents, job, outbox, todo>>
      BY <2>1 DEF servingVars
    <3>3. QED BY <1>1, <3>1, <3>2, QInvSame
  <2>3. CASE \E m \in Message : Reading(m) /\ Appended(m)
    BY <1>1, <2>1, <2>3, QInvReading
  <2>4. QED BY <1>1, <1>2, <2>2, <2>3, ReaderReads
<1>3. CASE Handle
  BY <1>1, <1>3, QInvHandle
<1>4. CASE Inner
  BY <1>1, <1>4, QInvInner
<1>5. CASE Publish
  BY <1>1, <1>5, QInvPublish
<1>6. CASE Respond
  BY <1>1, <1>6, QInvRespond
<1>7. CASE UNCHANGED vars
  <2>1. /\ Sent' = Sent
        /\ UNCHANGED <<opened, versions, closed, documents, job, shown, outbox, todo>>
    BY <1>7 DEF vars, clientVars, documentVars, readerVars, servingVars, Sent
  <2>2. QED BY <1>1, <2>1, QInvSame
<1>8. QED BY <1>2, <1>3, <1>4, <1>5, <1>6, <1>7, KindsOfSteps

LEMMA QuietSettles == QInv => QuietIsSettled
<1> SUFFICES ASSUME QInv, Quiet, NEW u \in Uris PROVE Settled(u)
  BY DEF QuietIsSettled
<1>1. Sent = <<>> /\ job = NoMessage
  BY IdleIsClean DEF Quiet, Sent, QInv, PInv
<1>2. \A w : ~MovesBehind(w)
  <2>1. 1 .. Len(Sent) = {}
    BY <1>1
  <2>2. QED BY <2>1 DEF MovesBehind
<1>3. ~TextJob /\ ~Serves({"close"})
  BY <1>1, NoMessageServesNothing DEF TextJob, Serves
<1>4. \A w \in Uris : documents[w] = opened[w]
  BY <1>2, StaleMeansBehind
<1>5. IF documents[u] # NoVersion THEN ShownInFull(u) ELSE shown[u] = Cleared
  BY <1>2, <1>3 DEF QInv, ShownOrDue, JobFor
<1>6. QED BY <1>4, <1>5 DEF Settled, ShownInFull

\* When everything sent is handled, the client displays for each document it
\* shows what is made of that version, in the light of the documents around it
\* and not cut short, and nothing for those it closed, if its versions grow
\* across close and open.  Which texts have problems, and whose analysis returns
\* an error and so lists nothing, is left open (Ill, Refused).
THEOREM WhatIsShownIsCurrent ==
  ASSUME FreshVersions, "garble" \notin Methods
  PROVE  Spec => []QuietIsSettled
<1>1. Init => QInv
  BY QInvInit
<1>2. QInv /\ [Next]_vars => QInv'
  BY QInvStep
<1>3. QInv => QuietIsSettled
  BY QuietSettles
<1>4. QED BY <1>1, <1>2, <1>3, PTL DEF Spec

-----------------------------------------------------------------------------
(***************************************************************************)
(* The session the client was promised: what each step of the two threads  *)
(* is in LspSession.                                                       *)
(***************************************************************************)

\* A request that is under way in `j`, or stands in the line `s`, with the
\* news of a document behind it.
HasText(s) == \E i \in 1 .. Len(s) : s[i].method \in TextMethods
Behind(s, id) ==
  \E i, k \in 1 .. Len(s) : /\ i < k /\ Names(s[i], id)
                            /\ s[k].method \in TextMethods
Late(j, s, id) == (Names(j, id) /\ HasText(s)) \/ Behind(s, id)

Passed(line, id) == \E i, k \in DOMAIN line : /\ i < k /\ Names(line[i], id)
                                              /\ line[k].method \in TextMethods

\* The line with its head apart.
LEMMA LateInLine ==
  ASSUME NEW j \in Message, NEW s \in Seq(Message), NEW line, NEW id,
         line = <<j>> \o s
  PROVE  Passed(line, id) <=> Late(j, s, id)
<1> DEFINE n == Len(s)
<1>1. n \in Nat /\ DOMAIN line = 1 .. n + 1 /\ line[1] = j
  OBVIOUS
<1>2. \A i \in 1 .. n : line[i + 1] = s[i]
  OBVIOUS
<1> HIDE DEF n
<1>3. /\ \A i \in 1 .. n : i + 1 \in 1 .. n + 1
      /\ \A i \in 1 .. n + 1 : i = 1 \/ (i - 1 \in 1 .. n /\ (i - 1) + 1 = i)
      /\ 1 \in 1 .. n + 1
  BY <1>1
<1>4. ASSUME NEW i \in 1 .. n + 1, NEW k \in 1 .. n + 1, i < k, Names(line[i], id),
             line[k].method \in TextMethods
      PROVE  Late(j, s, id)
  <2>1. k - 1 \in 1 .. n /\ line[k] = s[k - 1]
    <3>1. k # 1
      BY <1>1, <1>4
    <3>2. QED BY <1>2, <1>3, <3>1
  <2>2. CASE i = 1
    <3>1. HasText(s)
      BY <1>4, <2>1 DEF HasText, n
    <3>2. QED BY <1>1, <1>4, <2>2, <3>1 DEF Late
  <2>3. CASE i # 1
    <3>1. i - 1 \in 1 .. n /\ line[i] = s[i - 1]
      BY <1>2, <1>3, <2>3
    <3>2. i - 1 < k - 1
      BY <1>1, <1>4
    <3>3. Behind(s, id)
      BY <1>4, <2>1, <3>1, <3>2 DEF Behind, n
    <3>4. QED BY <3>3 DEF Late
  <2>4. QED BY <2>2, <2>3
<1>5. ASSUME Names(j, id), HasText(s)
      PROVE  \E i, k \in 1 .. n + 1 : /\ i < k /\ Names(line[i], id)
                                      /\ line[k].method \in TextMethods
  <2>1. PICK k \in 1 .. n : s[k].method \in TextMethods
    BY <1>5 DEF HasText, n
  <2>2. k + 1 \in 1 .. n + 1 /\ 1 < k + 1 /\ line[k + 1] = s[k]
    BY <1>1, <1>2, <1>3
  <2>3. QED BY <1>1, <1>3, <1>5, <2>1, <2>2
<1>6. ASSUME Behind(s, id)
      PROVE  \E i, k \in 1 .. n + 1 : /\ i < k /\ Names(line[i], id)
                                      /\ line[k].method \in TextMethods
  <2>1. PICK i \in 1 .. n, k \in 1 .. n :
          i < k /\ Names(s[i], id) /\ s[k].method \in TextMethods
    BY <1>6 DEF Behind, n
  <2>2. i + 1 < k + 1
    BY <1>1, <2>1
  <2>3. i + 1 \in 1 .. n + 1 /\ k + 1 \in 1 .. n + 1
    BY <1>3
  <2>4. line[i + 1] = s[i] /\ line[k + 1] = s[k]
    BY <1>2
  <2>5. QED BY <2>1, <2>2, <2>3, <2>4
<1>7. QED BY <1>1, <1>4, <1>5, <1>6 DEF Late, Passed

\* What is sent and what is under way, from the state of the two threads.
SentOf(b, r) == IF r = NoMessage THEN b ELSE Append(b, r)
LineOf(j, b, r) == (IF j = NoMessage THEN <<>> ELSE <<j>>)
                     \o b \o (IF r = NoMessage THEN <<>> ELSE <<r>>)

LEMMA OvertakenInLine ==
  ASSUME NEW j \in Message \cup {NoMessage}, NEW b \in Seq(Message),
         NEW r \in Message \cup {NoMessage}, NEW id
  PROVE  Passed(LineOf(j, b, r), id) <=> Late(j, SentOf(b, r), id)
<1> DEFINE head == IF j = NoMessage THEN <<>> ELSE <<j>>
           tail == IF r = NoMessage THEN <<>> ELSE <<r>>
           s == SentOf(b, r)
           line == LineOf(j, b, r)
<1> USE DEF SentOf, LineOf
<1>1. head \in Seq(Message) /\ tail \in Seq(Message)
  OBVIOUS
<1>2. s = b \o tail
  <2>1. CASE r = NoMessage
    <3>1. tail = <<>> /\ s = b
      BY <2>1
    <3>2. b \o <<>> = b
      BY ConcatEmptySeq
    <3>3. QED BY <3>1, <3>2
  <2>2. CASE r # NoMessage
    <3>1. tail = <<r>> /\ s = Append(b, r) /\ r \in Message
      BY <2>2
    <3>2. QED BY <3>1, AppendIsConcat
  <2>3. QED BY <2>1, <2>2
<1>3. line = head \o s /\ s \in Seq(Message)
  <2>1. line = (head \o b) \o tail
    OBVIOUS
  <2> HIDE DEF head, tail
  <2>2. (head \o b) \o tail = head \o (b \o tail) /\ b \o tail \in Seq(Message)
    BY <1>1, ConcatAssociative, ConcatProperties
  <2>3. QED BY <1>2, <2>1, <2>2
<1>4. CASE j = NoMessage
  <2>1. line = s
    <3>1. head = <<>>
      BY <1>4
    <3>2. QED BY <1>3, <3>1, ConcatEmptySeq
  <2>2. ~Names(j, id)
    BY <1>4, NoMessageNamesNone
  <2>3. DOMAIN s = 1 .. Len(s)
    BY <1>3
  <2>4. QED BY <2>1, <2>2, <2>3 DEF Late, Behind, Passed
<1>5. CASE j # NoMessage
  <2>1. line = <<j>> \o s /\ j \in Message
    BY <1>3, <1>5
  <2>2. QED BY <1>3, <2>1, LateInLine
<1>6. QED BY <1>4, <1>5

LEMMA OvertakenIsLate ==
  ASSUME TypeOK, NEW id
  PROVE  Overtaken(id) <=> Late(job, Sent, id)
<1> DEFINE j == job
           b == inbox
           r == reading
<1>1. /\ j \in Message \cup {NoMessage} /\ r \in Message \cup {NoMessage}
      /\ b \in Seq(Message)
  BY DEF TypeOK
<1>2. Sent = SentOf(b, r)
  BY DEF Sent, SentOf
<1>3. Line = LineOf(j, b, r)
  BY DEF Line, LineOf
<1>4. Overtaken(id) <=> Passed(Line, id)
  BY DEF Overtaken, Passed, TextMethods
<1> HIDE DEF j, b, r
<1>5. Passed(LineOf(j, b, r), id) <=> Late(j, SentOf(b, r), id)
  BY <1>1, OvertakenInLine
<1>6. QED BY <1>2, <1>3, <1>4, <1>5 DEF j

LEMMA OvertakenIsLateNext ==
  ASSUME TypeOK', NEW id
  PROVE  Overtaken(id)' <=> Late(job', Sent', id)
<1> DEFINE j == job'
           b == inbox'
           r == reading'
<1>1. /\ j \in Message \cup {NoMessage} /\ r \in Message \cup {NoMessage}
      /\ b \in Seq(Message)
  BY DEF TypeOK
<1>2. Sent' = SentOf(b, r)
  BY DEF Sent, SentOf
<1>3. Line' = LineOf(j, b, r)
  BY DEF Line, LineOf
<1>4. Overtaken(id)' <=> Passed(Line', id)
  BY DEF Overtaken, Passed, TextMethods
<1> HIDE DEF j, b, r
<1>5. Passed(LineOf(j, b, r), id) <=> Late(j, SentOf(b, r), id)
  BY <1>1, OvertakenInLine
<1>6. QED BY <1>2, <1>3, <1>4, <1>5 DEF j

\* Who is excused, from the state of the two threads.
Pardoned(st, as, j, s) ==
  {id \in Ids : st[id] = "waiting" /\ (id \in as \/ Late(j, s, id))}

LEMMA ExcusedArePardoned ==
  ASSUME TypeOK, TypeOK'
  PROVE  /\ Excused = Pardoned(status, asked, job, Sent)
         /\ Excused' = Pardoned(status', asked', job', Sent')
<1>1. \A id \in Ids : Overtaken(id) <=> Late(job, Sent, id)
  BY OvertakenIsLate
<1>2. \A id \in Ids : Overtaken(id)' <=> Late(job', Sent', id)
  BY OvertakenIsLateNext
<1>3. Excused = Pardoned(status, asked, job, Sent)
  BY <1>1 DEF Excused, Pardoned
<1>4. Excused' = Pardoned(status', asked', job', Sent')
  BY <1>2 DEF Excused, Pardoned
<1>5. QED BY <1>3, <1>4

\* A request that is under way in `j` or stands in the line `s`; a line with one
\* more message than another.
Held(j, s, id) == Names(j, id) \/ \E i \in 1 .. Len(s) : Names(s[i], id)
OneMore(t, s, m) ==
  /\ Len(s) \in Nat /\ Len(t) = Len(s) + 1 /\ t[Len(s) + 1] = m
  /\ \A i \in 1 .. Len(s) : t[i] = s[i]

\* The news of a document comes behind whatever stands in the line.
LEMMA LateAppended ==
  ASSUME NEW j, NEW s, NEW t, NEW m, NEW id, OneMore(t, s, m)
  PROVE  Late(j, t, id)
           <=> Late(j, s, id) \/ (m.method \in TextMethods /\ Held(j, s, id))
<1> DEFINE n == Len(s)
<1>1. /\ n \in Nat /\ Len(t) = n + 1 /\ t[n + 1] = m
      /\ \A i \in 1 .. n : t[i] = s[i]
  BY DEF OneMore
<1>2. 1 .. n + 1 = (1 .. n) \cup {n + 1} /\ n + 1 \notin 1 .. n
  BY <1>1
<1>3. \A i \in 1 .. n : i < n + 1 /\ ~(n + 1 < i)
  BY <1>1
<1>4. HasText(t) <=> HasText(s) \/ m.method \in TextMethods
  BY <1>1, <1>2 DEF HasText
<1>5. Behind(t, id) <=> \/ Behind(s, id)
                        \/ m.method \in TextMethods /\ \E i \in 1 .. n : Names(s[i], id)
  <2>1. ~(n + 1 < n + 1)
    BY <1>1
  <2>2. Len(s) = n
    OBVIOUS
  <2> HIDE DEF n
  <2> QED BY <1>1, <1>2, <1>3, <2>1, <2>2 DEF Behind
<1>6. QED BY <1>4, <1>5 DEF Late, Held

\* Taking the first message keeps who is late, if a request taken is worked on.
LEMMA LateTaken ==
  ASSUME NEW s, NEW t, NEW m, NEW n \in Nat,
         Len(t) = n, Len(s) = n + 1, s[1] = m, \A i \in 1 .. n : t[i] = s[i + 1],
         NEW id
  PROVE  Behind(s, id) <=> Late(m, t, id)
<1>1. /\ 1 \in 1 .. n + 1
      /\ \A i \in 1 .. n : i + 1 \in 1 .. n + 1 /\ 1 < i + 1
  OBVIOUS
<1>2. ASSUME NEW i \in 1 .. n + 1, NEW k \in 1 .. n + 1, i < k, Names(s[i], id),
             s[k].method \in TextMethods
      PROVE  Late(m, t, id)
  <2>1. k - 1 \in 1 .. n /\ s[k] = t[k - 1]
    <3>1. k - 1 \in 1 .. n /\ (k - 1) + 1 = k
      BY <1>2
    <3>2. QED BY <3>1
  <2>2. CASE i = 1
    BY <1>2, <2>1, <2>2 DEF Late, HasText
  <2>3. CASE i # 1
    <3>1. i - 1 \in 1 .. n /\ (i - 1) + 1 = i /\ i - 1 < k - 1
      BY <1>2, <2>3
    <3>2. s[i] = t[i - 1]
      BY <3>1
    <3>3. QED BY <1>2, <2>1, <3>1, <3>2 DEF Late, Behind
  <2>4. QED BY <2>2, <2>3
<1>3. ASSUME Names(m, id), NEW k \in 1 .. n, t[k].method \in TextMethods
      PROVE  Behind(s, id)
  BY <1>1, <1>3 DEF Behind
<1>4. ASSUME NEW i \in 1 .. n, NEW k \in 1 .. n, i < k, Names(t[i], id),
             t[k].method \in TextMethods
      PROVE  Behind(s, id)
  <2>1. i + 1 < k + 1 /\ s[i + 1] = t[i] /\ s[k + 1] = t[k]
    BY <1>4
  <2>2. QED BY <1>1, <1>4, <2>1 DEF Behind
<1>5. Behind(s, id) => Late(m, t, id)
  BY <1>2 DEF Behind
<1>6. Late(m, t, id) => Behind(s, id)
  <2>1. Names(m, id) /\ HasText(t) => Behind(s, id)
    BY <1>3 DEF HasText
  <2>2. Behind(t, id) => Behind(s, id)
    BY <1>4 DEF Behind
  <2>3. QED BY <2>1, <2>2 DEF Late
<1>7. QED BY <1>5, <1>6

-----------------------------------------------------------------------------

EditRead(m) ==
  /\ m.method \in {"open", "change", "garble"}
  /\ m.uri \in Uris /\ m.version \in Versions /\ m.version > versions[m.uri]
  /\ opened' = [opened EXCEPT ![m.uri] = m.version]
  /\ versions' = [versions EXCEPT ![m.uri] = m.version]
  /\ UNCHANGED <<status, asked, shown>>

CloseRead(m) ==
  /\ m.method = "close" /\ m.uri \in Uris /\ opened[m.uri] # NoVersion
  /\ opened' = [opened EXCEPT ![m.uri] = NoVersion]
  /\ UNCHANGED <<versions, status, asked, shown>>

RequestRead(m) ==
  /\ m.method \in Requests \cup {"direct", "shutdown"}
  /\ m.id \in Ids /\ status[m.id] = "unused"
  /\ status' = [status EXCEPT ![m.id] = "waiting"]
  /\ asked' = asked \ {m.id}
  /\ UNCHANGED <<opened, versions, shown>>

CancelRead(m) ==
  /\ m.method = "cancel" /\ m.id \in Ids
  /\ asked' = asked \cup {m.id}
  /\ UNCHANGED <<opened, versions, status, shown>>

LastRead(m) ==
  /\ m.method \in {"exit", "end"}
  /\ UNCHANGED <<opened, versions, status, asked, shown>>

\* What a message read does to the client's side of the pipe.
LEMMA ReadingKinds ==
  ASSUME TypeOK, FreshVersions, FreshIds, NEW m \in Message, Reading(m)
  PROVE  EditRead(m) \/ CloseRead(m) \/ RequestRead(m) \/ CancelRead(m) \/ LastRead(m)
<1>1. ASSUME NEW u \in Uris, NEW v \in Versions, Observed!ObserveText(u, v), v > versions[u]
      PROVE  versions' = [versions EXCEPT ![u] = v]
  <2>1. v \in Nat /\ versions[u] \in Nat
    BY VersionTypes, LspAssumption DEF Versions
  <2>2. v >= versions[u]
    BY <1>1, <2>1
  <2>3. QED BY <1>1, <2>2 DEF Observed!ObserveText
<1>2. ASSUME NEW u \in Uris, NEW v \in Versions, ReadOpen(u, v),
             m = [method |-> "open", uri |-> u, version |-> v]
      PROVE  EditRead(m)
  <2>1. v > versions[u]
    BY <1>2 DEF ReadOpen
  <2>2. QED BY <1>1, <1>2, <2>1 DEF ReadOpen, EditRead
<1>3. ASSUME NEW u \in Uris, NEW v \in Versions, NEW k \in {"change", "garble"},
             ReadChange(k, u, v), m = [method |-> k, uri |-> u, version |-> v]
      PROVE  EditRead(m)
  <2>1. v > versions[u]
    BY <1>3 DEF ReadChange
  <2>2. QED BY <1>1, <1>3, <2>1 DEF ReadChange, EditRead
<1>4. ASSUME NEW u \in Uris, ReadClose(u), m = [method |-> "close", uri |-> u]
      PROVE  CloseRead(m)
  BY <1>4 DEF ReadClose, CloseRead, Observed!ObserveClose
<1>5. ASSUME NEW id \in Ids, ReadRequest(m),
             m \in DocumentRequest(id) \cup OtherRequest(id)
      PROVE  RequestRead(m)
  <2>1. m.id = id /\ m.method \in Requests \cup {"direct", "shutdown"}
    BY <1>5 DEF DocumentRequest, OtherRequest, Requests
  <2>2. FreshIds => status[m.id] = "unused"
    BY <1>5 DEF ReadRequest
  <2>3. status[m.id] = "unused"
    BY <2>2, Zenon
  <2>4. QED BY <1>5, <2>1, <2>3 DEF ReadRequest, RequestRead, documentVars
<1>6. ASSUME NEW id \in Ids, ReadCancel(id), m = [method |-> "cancel", id |-> id]
      PROVE  CancelRead(m)
  BY <1>6 DEF ReadCancel, CancelRead, documentVars
<1>7. ASSUME NEW k \in {"exit", "end"}, ReadLast(k), m = [method |-> k]
      PROVE  LastRead(m)
  BY <1>7 DEF ReadLast, LastRead, clientVars, documentVars
<1>8. QED BY <1>2, <1>3, <1>4, <1>5, <1>6, <1>7 DEF Reading

\* The texts of a document in a line, in the order they were written, each no
\* older than `low` and no newer than `high`.
TextFor(m, u) == m.method \in {"open", "change"} /\ m.uri = u
InOrder(s, u, low, high) ==
  /\ \A i \in 1 .. Len(s) :
       TextFor(s[i], u) => low <= s[i].version /\ s[i].version <= high
  /\ \A i, k \in 1 .. Len(s) :
       i < k /\ TextFor(s[i], u) /\ TextFor(s[k], u) => s[i].version <= s[k].version

LEMMA AppendedInOrder ==
  ASSUME NEW s, NEW t, NEW m, NEW n \in Nat,
         Len(s) = n, Len(t) = n + 1, t[n + 1] = m, \A i \in 1 .. n : t[i] = s[i],
         NEW u, NEW low \in Nat, NEW high \in Nat, NEW higher \in Nat,
         \A i \in 1 .. n : TextFor(s[i], u) => s[i].version \in Nat,
         InOrder(s, u, low, high), low <= high, high <= higher,
         TextFor(m, u) => /\ m.version \in Nat
                          /\ high <= m.version /\ m.version <= higher
  PROVE  InOrder(t, u, low, higher)
<1>1. 1 .. n + 1 = (1 .. n) \cup {n + 1} /\ n + 1 \notin 1 .. n
  OBVIOUS
<1>2. \A i \in 1 .. n : ~(n + 1 < i) /\ ~(n + 1 < n + 1)
  OBVIOUS
<1>3. ASSUME NEW i \in 1 .. n, TextFor(s[i], u)
      PROVE  /\ low <= s[i].version /\ s[i].version <= high
             /\ s[i].version <= higher
  <2>1. low <= s[i].version /\ s[i].version <= high
    BY <1>3 DEF InOrder
  <2>2. QED BY <1>3, <2>1
<1>4. TextFor(m, u) => low <= m.version /\ m.version <= higher
  OBVIOUS
<1>5. ASSUME NEW i \in 1 .. n, TextFor(s[i], u), TextFor(m, u)
      PROVE  s[i].version <= m.version
  BY <1>3, <1>5
<1>6. \A i \in 1 .. n + 1 :
        TextFor(t[i], u) => low <= t[i].version /\ t[i].version <= higher
  BY <1>1, <1>3, <1>4
<1>7. \A i, k \in 1 .. n + 1 :
        i < k /\ TextFor(t[i], u) /\ TextFor(t[k], u) => t[i].version <= t[k].version
  <2> SUFFICES ASSUME NEW i \in 1 .. n + 1, NEW k \in 1 .. n + 1,
                      i < k, TextFor(t[i], u), TextFor(t[k], u)
               PROVE  t[i].version <= t[k].version
    OBVIOUS
  <2>1. i \in 1 .. n /\ t[i] = s[i]
    BY <1>1, <1>2
  <2>2. CASE k = n + 1
    BY <1>5, <2>1, <2>2
  <2>3. CASE k \in 1 .. n
    BY <2>1, <2>3 DEF InOrder
  <2>4. QED BY <1>1, <2>2, <2>3
<1>8. QED BY <1>6, <1>7 DEF InOrder

\* Taking the first message leaves the rest no older than what it brought.
LEMMA TakenInOrder ==
  ASSUME NEW s, NEW t, NEW n \in Nat,
         Len(t) = n, Len(s) = n + 1, \A i \in 1 .. n : t[i] = s[i + 1],
         NEW u, NEW low, NEW high, InOrder(s, u, low, high)
  PROVE  /\ InOrder(t, u, low, high)
         /\ TextFor(s[1], u) => /\ InOrder(t, u, s[1].version, high)
                                /\ low <= s[1].version /\ s[1].version <= high
<1>1. /\ 1 \in 1 .. n + 1
      /\ \A i \in 1 .. n : i + 1 \in 1 .. n + 1 /\ 1 < i + 1
      /\ \A i, k \in 1 .. n : i < k => i + 1 < k + 1
  OBVIOUS
<1>2. \A i \in 1 .. n : TextFor(t[i], u) =>
        low <= t[i].version /\ t[i].version <= high
  BY <1>1 DEF InOrder
<1>3. \A i, k \in 1 .. n :
        i < k /\ TextFor(t[i], u) /\ TextFor(t[k], u) => t[i].version <= t[k].version
  BY <1>1 DEF InOrder
<1>4. TextFor(s[1], u) => \A i \in 1 .. n : TextFor(t[i], u) =>
        s[1].version <= t[i].version
  BY <1>1 DEF InOrder
<1>5. TextFor(s[1], u) => low <= s[1].version /\ s[1].version <= high
  BY <1>1 DEF InOrder
<1>6. QED BY <1>2, <1>3, <1>4, <1>5 DEF InOrder

\* What is displayed, held and on its way of each document only moves forward.
ForwardAt(s, u, held, displayed, newest) ==
  /\ held # NoVersion => displayed <= held
  /\ displayed <= newest
  /\ InOrder(s, u, displayed, newest)
  /\ InOrder(s, u, held, newest)

Forward ==
  /\ \A u \in Uris : ForwardAt(Sent, u, documents[u], shown[u].version, versions[u])
  /\ \A n \in outbox : n.diagnostics.version \in {NoVersion, documents[n.uri]}

LEMMA ForwardInit ==
  ASSUME Init
  PROVE  Forward
<1>1. 1 .. Len(Sent) = {}
  BY DEF Init, Sent
<1>2. \A u \in Uris : documents[u] = 0 /\ shown[u].version = 0 /\ versions[u] = 0
  BY DEF Init, Cleared, NoVersion
<1>3. outbox = {}
  BY DEF Init
<1>4. QED BY <1>1, <1>2, <1>3 DEF Forward, ForwardAt, InOrder, NoVersion

LEMMA ForwardTypes ==
  ASSUME TypeOK
  PROVE  /\ \A u \in Uris : /\ documents[u] \in Nat /\ versions[u] \in Nat
                            /\ shown[u].version \in Nat
         /\ \A u : \A i \in 1 .. Len(Sent) :
              TextFor(Sent[i], u) => Sent[i].version \in Nat
         /\ NoVersion = 0
<1>1. versions \in [Uris -> Nat] /\ documents \in [Uris -> Nat]
  BY VersionTypes
<1>2. \A u \in Uris : shown[u].version \in Versions \cup {NoVersion}
  BY DEF TypeOK, Diagnostics
<1>3. Versions \cup {NoVersion} \subseteq Nat
  BY LspAssumption DEF Versions, NoVersion
<1>4. \A u : \A i \in 1 .. Len(Sent) :
        TextFor(Sent[i], u) => Sent[i].version \in Nat
  BY SentTypes, VersionTypes DEF TextFor
<1>5. QED BY <1>1, <1>2, <1>3, <1>4 DEF NoVersion

LEMMA ForwardSame ==
  ASSUME Forward, Sent' = Sent, UNCHANGED <<documents, shown, versions>>,
         outbox' \in {outbox, {}}
  PROVE  Forward'
BY DEF Forward

LEMMA ForwardReading ==
  ASSUME PInv, Forward, FreshIds, NEW m \in Message, Reading(m), Appended(m),
         UNCHANGED servingVars
  PROVE  Forward'
<1>1. TypeOK /\ FreshVersions
  BY DEF PInv, IInv
<1>2. UNCHANGED <<documents, outbox>>
  BY DEF servingVars
<1>3. shown' = shown
  BY <1>1, ReadingKinds DEF EditRead, CloseRead, RequestRead, CancelRead, LastRead
<1>4. ASSUME NEW u \in Uris
      PROVE  ForwardAt(Sent', u, documents[u], shown[u].version, versions'[u])
  <2> DEFINE s == Sent
             t == Sent'
             n == Len(Sent)
             d == documents[u]
             w == shown[u].version
             v == versions[u]
             x == versions'[u]
  <2>1. d \in Nat /\ w \in Nat /\ v \in Nat /\ d <= v
    BY <1>1, ForwardTypes DEF PInv, NoneAhead, DocumentsRecorded
  <2>2. /\ x \in Nat /\ v <= x
        /\ TextFor(m, u) => m.version \in Nat /\ v <= m.version /\ m.version <= x
    <3>1. CASE EditRead(m)
      <4>1. m.version \in Nat /\ m.version > versions[m.uri]
        BY <3>1, LspAssumption DEF EditRead, Versions
      <4>2. x = IF u = m.uri THEN m.version ELSE v
        BY <1>1, <3>1 DEF EditRead, TypeOK
      <4>3. CASE u = m.uri
        BY <2>1, <4>1, <4>2, <4>3
      <4>4. CASE u # m.uri
        BY <2>1, <4>2, <4>4 DEF TextFor
      <4>5. QED BY <4>3, <4>4
    <3>2. CASE ~EditRead(m)
      <4>1. versions' = versions /\ m.method \notin {"open", "change"}
        BY <1>1, <3>2, ReadingKinds
           DEF CloseRead, RequestRead, CancelRead, LastRead, Requests
      <4>2. QED BY <2>1, <4>1 DEF TextFor
    <3>3. QED BY <3>1, <3>2
  <2>3. /\ n \in Nat /\ Len(s) = n /\ Len(t) = n + 1 /\ t[n + 1] = m
        /\ \A i \in 1 .. n : t[i] = s[i]
    BY <1>1, SentTypes DEF Appended
  <2>4. \A i \in 1 .. n : TextFor(s[i], u) => s[i].version \in Nat
    BY <1>1, ForwardTypes
  <2>5. /\ d # NoVersion => w <= d
        /\ w <= v /\ InOrder(s, u, w, v) /\ InOrder(s, u, d, v)
    BY DEF Forward, ForwardAt
  <2> HIDE DEF s, t, n, d, w, v, x
  <2>6. InOrder(t, u, w, x)
    BY <2>1, <2>2, <2>3, <2>4, <2>5, AppendedInOrder
  <2>7. InOrder(t, u, d, x)
    BY <2>1, <2>2, <2>3, <2>4, <2>5, AppendedInOrder
  <2>8. w <= x
    BY <2>1, <2>2, <2>5
  <2>9. ForwardAt(t, u, d, w, x)
    BY <2>5, <2>6, <2>7, <2>8 DEF ForwardAt
  <2>10. QED BY <2>9 DEF t, d, w, x
<1>5. QED BY <1>2, <1>3, <1>4 DEF Forward

\* A text held, or none, and the line behind it.
LEMMA ForwardHandle ==
  ASSUME PInv, PInv', Forward, Handle
  PROVE  Forward'
<1> DEFINE m == Head(inbox)
<1>1. /\ Taken(m) /\ m \in Message /\ job = NoMessage /\ stage = "idle"
      /\ shown' = shown
  BY HandleTakes DEF PInv
<1>2. versions' = versions
  BY DEF Handle, HandleText, IgnoreChange, HandleClose, HandleRequest,
         HandleCancel, HandleDirect, HandleLast, documentVars
<1>3. /\ outbox = {} /\ TypeOK
  BY <1>1, IdleIsClean DEF PInv, IInv
<1>4. /\ outbox' = {} \/ outbox' = {[uri |-> m.uri, diagnostics |-> Cleared]}
      /\ \/ documents' = documents
         \/ /\ m.method \in {"open", "change"} /\ m.uri \in Uris
            /\ documents' = [documents EXCEPT ![m.uri] = m.version]
         \/ /\ m.method = "close" /\ m.uri \in Uris
            /\ documents' = [documents EXCEPT ![m.uri] = NoVersion]
  <2>1. CASE HandleText(m)
    BY <1>1, <1>3, <2>1, MessageFields DEF HandleText
  <2>2. CASE HandleClose(m)
    <3>1. m.method = "close" /\ m.uri \in Uris
      BY <1>1, <2>2, MessageFields DEF HandleClose, Receives
    <3>2. QED BY <1>3, <2>2, <3>1 DEF HandleClose
  <2>3. CASE ~HandleText(m) /\ ~HandleClose(m)
    BY <1>3, <2>3 DEF Handle, IgnoreChange, HandleRequest,
         HandleCancel, HandleDirect, HandleLast, servingVars
  <2>4. QED BY <2>1, <2>2, <2>3
<1>5. Cleared.version = NoVersion
  BY DEF Cleared
<1>6. \A n \in outbox' : n.diagnostics.version \in {NoVersion, documents'[n.uri]}
  BY <1>4, <1>5
<1>7. ASSUME NEW u \in Uris
      PROVE  ForwardAt(Sent', u, documents'[u], shown[u].version, versions[u])
  <2> DEFINE s == Sent
             t == Sent'
             n == Len(Sent')
             d == documents[u]
             e == documents'[u]
             w == shown[u].version
             v == versions[u]
  <2>1. d \in Nat /\ w \in Nat /\ v \in Nat /\ NoVersion = 0
    BY <1>3, ForwardTypes
  <2>2. /\ n \in Nat /\ Len(s) = n + 1 /\ Len(t) = n /\ s[1] = m
        /\ \A i \in 1 .. n : t[i] = s[i + 1]
    BY <1>1, SentLength DEF PInv, Taken
  <2>3. /\ d # NoVersion => w <= d
        /\ w <= v /\ InOrder(s, u, w, v) /\ InOrder(s, u, d, v)
    BY DEF Forward, ForwardAt
  <2>4. \/ e = d
        \/ TextFor(m, u) /\ e = m.version
        \/ e = NoVersion
    BY <1>3, <1>4 DEF TextFor, TypeOK
  <2> HIDE DEF s, t, n, d, e, w, v, m
  <2>5. /\ InOrder(t, u, w, v) /\ InOrder(t, u, d, v)
        /\ TextFor(m, u) => InOrder(t, u, m.version, v) /\ w <= m.version
    BY <2>2, <2>3, TakenInOrder
  <2>6. InOrder(t, u, NoVersion, v)
    <3>1. \A i \in 1 .. n : TextFor(t[i], u) => t[i].version \in Nat
      <4>1. TypeOK'
        BY DEF PInv, IInv
      <4>2. \A i \in 1 .. Len(Sent') : Sent'[i] \in Message
        <5>1. inbox' \in Seq(Message) /\ reading' \in Message \cup {NoMessage}
          BY <4>1 DEF TypeOK
        <5>2. Sent' \in Seq(Message)
          BY <5>1 DEF Sent
        <5>3. QED BY <5>2
      <4>3. \A k \in Message : TextFor(k, u) => k.version \in Nat
        BY <1>3, VersionTypes DEF TextFor
      <4>4. QED BY <4>2, <4>3 DEF t, n
    <3>2. \A i \in 1 .. n : TextFor(t[i], u) => 0 <= t[i].version
      BY <3>1
    <3>3. QED BY <2>1, <2>2, <2>5, <3>2 DEF InOrder
  <2>7. ForwardAt(t, u, e, w, v)
    BY <2>3, <2>4, <2>5, <2>6 DEF ForwardAt
  <2>8. QED BY <2>7 DEF t, e, w, v
<1>8. QED BY <1>1, <1>2, <1>6, <1>7 DEF Forward

LEMMA ForwardInner ==
  ASSUME Forward, Inner
  PROVE  Forward'
<1>1. UNCHANGED <<shown, documents>> /\ Sent' = Sent
  BY InnerKeeps DEF clientVars
<1>2. versions' = versions
  BY DEF Inner, PublishSkip, PublishStart, TrackNext, PublishSyntax, Analyse,
         RequestAnalysed, PublishAnalysed, Decide, documentVars,
         Observed!StartAnalysis, Observed!TrackAnalysis, Observed!FinishAnalysis
<1>3. CASE PublishAnalysed
  <2>1. outbox' = outbox \/
          outbox' = outbox \cup {[uri |-> doc, diagnostics |-> Report(doc)]}
    BY <1>3 DEF PublishAnalysed
  <2>2. \A n \in outbox' : n.diagnostics.version \in {NoVersion, documents[n.uri]}
    BY <2>1 DEF Forward, Report
  <2>3. QED BY <1>1, <1>2, <2>2 DEF Forward
<1>4. CASE ~PublishAnalysed
  <2>1. outbox' = outbox
    BY <1>4 DEF Inner, PublishSkip, PublishStart, TrackNext, PublishSyntax, Analyse,
         RequestAnalysed, Decide
  <2>2. QED BY <1>1, <1>2, <2>1, ForwardSame
<1>5. QED BY <1>3, <1>4

\* What a display is replaced by.
LEMMA PublishShows ==
  ASSUME Forward, Publish, NEW u \in Uris
  PROVE  shown'[u].version \in {shown[u].version, NoVersion, documents[u]}
<1>1. shown' = [w \in Uris |-> IF \E n \in outbox : n.uri = w
                               THEN (CHOOSE n \in outbox : n.uri = w).diagnostics
                               ELSE shown[w]]
  BY DEF Publish
<1>2. CASE \E n \in outbox : n.uri = u
  <2> DEFINE k == CHOOSE n \in outbox : n.uri = u
  <2>1. k \in outbox /\ k.uri = u
    BY <1>2
  <2>2. shown'[u] = k.diagnostics
    BY <1>1, <1>2
  <2> HIDE DEF k
  <2>3. QED BY <2>1, <2>2 DEF Forward
<1>3. CASE ~\E n \in outbox : n.uri = u
  BY <1>1, <1>3
<1>4. QED BY <1>2, <1>3

LEMMA ForwardPublish ==
  ASSUME PInv, Forward, Publish
  PROVE  Forward'
<1>1. UNCHANGED <<documents, versions>> /\ Sent' = Sent /\ outbox' = {}
  BY EndKeeps DEF Publish, BackToIdle
<1>2. TypeOK
  BY DEF PInv, IInv
<1>3. ASSUME NEW u \in Uris
      PROVE  ForwardAt(Sent, u, documents[u], shown'[u].version, versions[u])
  <2> DEFINE s == Sent
             n == Len(Sent)
             d == documents[u]
             w == shown[u].version
             x == shown'[u].version
             v == versions[u]
  <2>1. d \in Nat /\ w \in Nat /\ v \in Nat /\ d <= v /\ NoVersion = 0
    BY <1>2, ForwardTypes DEF PInv, NoneAhead, DocumentsRecorded
  <2>2. x \in {w, NoVersion, d}
    BY PublishShows
  <2>3. /\ d # NoVersion => w <= d
        /\ w <= v /\ InOrder(s, u, w, v) /\ InOrder(s, u, d, v)
    BY DEF Forward, ForwardAt
  <2>4. n = Len(s) /\ \A i \in 1 .. n : TextFor(s[i], u) => s[i].version \in Nat
    BY <1>2, ForwardTypes
  <2> HIDE DEF s, n, d, w, x, v
  <2>5. InOrder(s, u, NoVersion, v)
    <3>1. \A i \in 1 .. n : TextFor(s[i], u) => 0 <= s[i].version
      BY <2>4
    <3>2. QED BY <2>1, <2>3, <2>4, <3>1 DEF InOrder
  <2>6. x <= v /\ (d # NoVersion => x <= d)
    BY <2>1, <2>2, <2>3
  <2>7. ForwardAt(s, u, d, x, v)
    BY <2>2, <2>3, <2>5, <2>6 DEF ForwardAt
  <2>8. QED BY <2>7 DEF s, d, x, v
<1>4. QED BY <1>1, <1>3 DEF Forward

LEMMA ForwardStep ==
  ASSUME PInv, PInv', Forward, FreshIds, [Next]_vars
  PROVE  Forward'
<1>1. CASE Reader
  <2>1. UNCHANGED servingVars /\ TypeOK
    BY <1>1, ReaderReads DEF PInv, IInv
  <2>2. CASE ReaderSend
    <3>1. Sent' = Sent /\ UNCHANGED <<shown, versions>>
      BY <2>2, SendingKeepsSent DEF ReaderSend, clientVars, documentVars
    <3>2. UNCHANGED <<documents, outbox>>
      BY <2>1 DEF servingVars
    <3>3. QED BY <3>1, <3>2, ForwardSame
  <2>3. CASE \E m \in Message : Reading(m) /\ Appended(m)
    BY <2>1, <2>3, ForwardReading
  <2>4. QED BY <1>1, <2>1, <2>2, <2>3, ReaderReads
<1>2. CASE Handle
  BY <1>2, ForwardHandle
<1>3. CASE Inner
  BY <1>3, ForwardInner
<1>4. CASE Publish
  BY <1>4, ForwardPublish
<1>5. CASE Respond
  <2>1. UNCHANGED <<documents, versions, shown>> /\ Sent' = Sent /\ outbox' = {}
    BY <1>5, EndKeeps DEF Respond, BackToIdle
  <2>2. QED BY <2>1, ForwardSame
<1>6. CASE UNCHANGED vars
  <2>1. UNCHANGED <<documents, versions, shown, outbox>> /\ Sent' = Sent
    BY <1>6 DEF vars, clientVars, documentVars, readerVars, servingVars, Sent
  <2>2. QED BY <2>1, ForwardSame
<1>7. QED BY <1>1, <1>2, <1>3, <1>4, <1>5, <1>6, KindsOfSteps

-----------------------------------------------------------------------------
(***************************************************************************)
(* Every step is a step of the session, or none.                           *)
(***************************************************************************)

RInv == PInv /\ CInv /\ Forward

LEMMA RInvInit == Init /\ FreshVersions /\ FreshIds => RInv
BY PInvInit, CInvInit, ForwardInit DEF RInv

LEMMA RInvStep == RInv /\ [Next]_vars => RInv'
<1> SUFFICES ASSUME RInv, [Next]_vars PROVE RInv'
  OBVIOUS
<1>1. PInv /\ CInv /\ Forward /\ FreshIds
  BY DEF RInv, CInv
<1>2. PInv' /\ CInv'
  BY <1>1, PInvStep, CInvStep
<1>3. QED BY <1>1, <1>2, ForwardStep DEF RInv

LEMMA SessionInit == Init => Session!Init
<1> SUFFICES ASSUME Init PROVE Session!Init
  OBVIOUS
<1>1. Excused = {}
  BY DEF Init, Excused
<1>2. Displayed = [u \in Uris |-> 0]
  BY DEF Init, Displayed, Cleared, NoVersion
<1>3. QED BY <1>1, <1>2 DEF Init, Session!Init, NoVersion

Unseen == UNCHANGED Session!sessionVars

\* The client's side, and those excused, left alone.
LEMMA NothingSeen ==
  ASSUME TypeOK, TypeOK', UNCHANGED <<opened, versions, shown, status>>,
         Pardoned(status', asked', job', Sent') = Pardoned(status, asked, job, Sent)
  PROVE  Unseen
<1>1. Displayed' = Displayed
  BY DEF Displayed
<1>2. Excused' = Excused
  BY ExcusedArePardoned
<1>3. QED BY <1>1, <1>2 DEF Unseen, Session!sessionVars

\* Who is excused when a message has been read.
LEMMA ReadingPardons ==
  ASSUME TypeOK, Conserved, NEW m \in Message, Appended(m), job' = job, NEW id \in Ids
  PROVE  /\ Late(job', Sent', id) <=>
              \/ Late(job, Sent, id)
              \/ m.method \in TextMethods /\ status[id] = "waiting"
         /\ Late(job, Sent, id) => status[id] = "waiting"
<1>1. OneMore(Sent', Sent, m)
  BY SentTypes DEF Appended, OneMore
<1>2. Waits(id) <=> Held(job, Sent, id)
  BY DEF Waits, Held
<1>3. status[id] = "waiting" <=> Waits(id)
  BY DEF Conserved
<1>4. Late(job, Sent, id) => Held(job, Sent, id)
  BY <1>1 DEF Late, Behind, Held, OneMore
<1>5. Late(job, Sent', id) <=>
        Late(job, Sent, id) \/ (m.method \in TextMethods /\ Held(job, Sent, id))
  <2> DEFINE s == Sent
             t == Sent'
             j == job
  <2>1. OneMore(t, s, m)
    BY <1>1
  <2> HIDE DEF s, t, j
  <2>2. Late(j, t, id) <=> Late(j, s, id) \/ (m.method \in TextMethods /\ Held(j, s, id))
    BY <2>1, LateAppended, Zenon
  <2> QED BY <2>2, Zenon DEF s, t, j
<1>6. QED BY <1>2, <1>3, <1>4, <1>5

LEMMA ReadingIsSession ==
  ASSUME RInv, TypeOK', NEW m \in Message, Reading(m), Appended(m), UNCHANGED servingVars
  PROVE  Session!Next \/ Unseen
<1>1. /\ TypeOK /\ Conserved /\ FreshVersions /\ FreshIds /\ job' = job
      /\ \A id \in asked : status[id] # "unused"
  BY DEF RInv, PInv, CInv, IInv, AskedInTime, servingVars
<1>2. ASSUME NEW id \in Ids
      PROVE  /\ Late(job', Sent', id) <=>
                  \/ Late(job, Sent, id)
                  \/ m.method \in TextMethods /\ status[id] = "waiting"
             /\ Late(job, Sent, id) => status[id] = "waiting"
  BY <1>1, ReadingPardons
<1>3. /\ Excused = Pardoned(status, asked, job, Sent)
      /\ Excused' = Pardoned(status', asked', job', Sent')
  BY <1>1, ExcusedArePardoned
<1>4. CASE EditRead(m)
  <2>1. Excused' = Session!Waiting
    BY <1>2, <1>3, <1>4 DEF EditRead, Pardoned, TextMethods, Session!Waiting
  <2>2. Displayed' = Displayed
    BY <1>4 DEF EditRead, Displayed
  <2>3. Session!Edit(m.uri, m.version)
    BY <1>4, <2>1, <2>2 DEF EditRead, Session!Edit
  <2>4. QED BY <1>4, <2>3 DEF EditRead, Session!Next, Versions
<1>5. CASE CloseRead(m)
  <2>1. Excused' = Session!Waiting
    BY <1>2, <1>3, <1>5 DEF CloseRead, Pardoned, TextMethods, Session!Waiting
  <2>2. Displayed' = Displayed
    BY <1>5 DEF CloseRead, Displayed
  <2>3. Session!Close(m.uri)
    BY <1>5, <2>1, <2>2 DEF CloseRead, Session!Close, NoVersion
  <2>4. QED BY <1>5, <2>3 DEF CloseRead, Session!Next
<1>6. CASE RequestRead(m)
  <2>1. m.method \notin TextMethods /\ m.id \notin asked /\ asked' = asked
    BY <1>1, <1>6 DEF RequestRead, TextMethods, Requests
  <2>2. \A id \in Ids : id # m.id => status'[id] = status[id]
    BY <1>1, <1>6 DEF RequestRead, TypeOK
  <2>3. ~Late(job, Sent, m.id) /\ status[m.id] # "waiting"
    BY <1>2, <1>6 DEF RequestRead
  <2>4. Excused' = Excused
    BY <1>2, <1>3, <2>1, <2>2, <2>3 DEF Pardoned
  <2>5. Displayed' = Displayed
    BY <1>6 DEF RequestRead, Displayed
  <2>6. Session!Ask(m.id)
    BY <1>6, <2>3, <2>4, <2>5 DEF RequestRead, Session!Ask
  <2>7. QED BY <1>6, <2>6 DEF RequestRead, Session!Next
<1>7. CASE CancelRead(m)
  <2>1. m.method \notin TextMethods
    BY <1>7 DEF CancelRead, TextMethods
  <2>2. Displayed' = Displayed
    BY <1>7 DEF CancelRead, Displayed
  <2>3. CASE status[m.id] = "waiting"
    <3>1. Excused' = Excused \cup {m.id}
      BY <1>2, <1>3, <1>7, <2>1, <2>3 DEF CancelRead, Pardoned
    <3>2. Session!Withdraw(m.id)
      BY <1>7, <2>2, <2>3, <3>1 DEF CancelRead, Session!Withdraw
    <3>3. QED BY <1>7, <3>2 DEF CancelRead, Session!Next
  <2>4. CASE status[m.id] # "waiting"
    <3>1. Excused' = Excused
      BY <1>2, <1>3, <1>7, <2>1, <2>4 DEF CancelRead, Pardoned
    <3>2. QED BY <1>7, <2>2, <3>1 DEF CancelRead, Unseen, Session!sessionVars
  <2>5. QED BY <2>3, <2>4
<1>8. CASE LastRead(m)
  <2>1. m.method \notin TextMethods
    BY <1>8 DEF LastRead, TextMethods
  <2>2. Displayed' = Displayed
    BY <1>8 DEF LastRead, Displayed
  <2>3. Excused' = Excused
    BY <1>2, <1>3, <1>8, <2>1 DEF LastRead, Pardoned
  <2>4. QED BY <1>8, <2>2, <2>3 DEF LastRead, Unseen, Session!sessionVars
<1>9. QED BY <1>1, <1>4, <1>5, <1>6, <1>7, <1>8, ReadingKinds

\* Who is late when the first message has been taken.
LEMMA TakingPardons ==
  ASSUME TypeOK, IInv', NEW m \in Message, Taken(m), job = NoMessage, NEW id \in Ids
  PROVE  /\ Late(m, Sent', id) <=> Late(job, Sent, id)
         /\ Names(m, id) => \E i \in 1 .. Len(Sent) : Names(Sent[i], id)
         /\ ~Names(m, id) => (Behind(Sent', id) <=> Late(job, Sent, id))
<1> DEFINE n == Len(Sent')
           s == Sent
           t == Sent'
<1>1. /\ n \in Nat /\ Len(s) = n + 1 /\ Len(t) = n /\ s[1] = m
      /\ \A i \in 1 .. n : t[i] = s[i + 1]
  BY SentLength DEF Taken
<1>2. ~Names(job, id)
  BY NoMessageNamesNone
<1> HIDE DEF n, s, t
<1>3. Behind(s, id) <=> Late(m, t, id)
  BY <1>1, LateTaken
<1>4. Late(job, s, id) <=> Behind(s, id)
  BY <1>2 DEF Late
<1>5. ~Names(m, id) => (Behind(t, id) <=> Late(m, t, id))
  BY DEF Late
<1>6. 1 \in 1 .. Len(s)
  BY <1>1
<1>7. Names(m, id) => \E i \in 1 .. Len(s) : Names(s[i], id)
  BY <1>1, <1>6
<1>8. QED BY <1>3, <1>4, <1>5, <1>7 DEF s, t

LEMMA HandlingIsSession ==
  ASSUME RInv, IInv', Handle
  PROVE  Session!Next \/ Unseen
<1> DEFINE m == Head(inbox)
<1>1. /\ TypeOK /\ TypeOK' /\ Conserved /\ Taken(m) /\ m \in Message /\ job = NoMessage
      /\ UNCHANGED <<opened, asked, shown>>
  BY HandleTakes DEF RInv, CInv, IInv
<1>2. versions' = versions
  BY DEF Handle, HandleText, IgnoreChange, HandleClose, HandleRequest,
         HandleCancel, HandleDirect, HandleLast, documentVars
<1>3. /\ Excused = Pardoned(status, asked, job, Sent)
      /\ Excused' = Pardoned(status', asked', job', Sent')
      /\ Displayed' = Displayed
  BY <1>1, ExcusedArePardoned DEF Displayed
<1> HIDE DEF m
<1>4. ASSUME NEW id \in Ids
      PROVE  /\ Late(m, Sent', id) <=> Late(job, Sent, id)
             /\ Names(m, id) => \E i \in 1 .. Len(Sent) : Names(Sent[i], id)
             /\ ~Names(m, id) => (Behind(Sent', id) <=> Late(job, Sent, id))
  BY <1>1, TakingPardons
<1>5. CASE /\ status' = status
           /\ job' = m \/ (\A id \in Ids : ~Names(m, id) /\ ~Names(job', id))
  <2>1. ASSUME NEW id \in Ids
        PROVE  Late(job', Sent', id) <=> Late(job, Sent, id)
    <3>1. CASE job' = m
      BY <1>4, <3>1
    <3>2. CASE ~Names(m, id) /\ ~Names(job', id)
      BY <1>4, <3>2 DEF Late
    <3>3. QED BY <1>5, <3>1, <3>2
  <2>2. Excused' = Excused
    BY <1>1, <1>3, <1>5, <2>1 DEF Pardoned
  <2>3. QED BY <1>1, <1>2, <1>3, <1>5, <2>2 DEF Unseen, Session!sessionVars
<1>6. CASE HandleText(m) \/ IgnoreChange(m) \/ HandleClose(m) \/ HandleCancel
             \/ HandleLast("exit") \/ HandleLast("end")
  <2>1. /\ status' = status /\ job' \in {job, m}
        /\ m.method \in {"open", "change", "garble", "close", "cancel", "exit", "end"}
    BY <1>6 DEF HandleText, IgnoreChange, HandleClose, HandleCancel, HandleLast,
                Receives, clientVars, servingVars, m
  <2>2. \A id \in Ids : ~Names(m, id) /\ ~Names(job', id)
    BY <1>1, <2>1, NoMessageNamesNone DEF Names, Requests
  <2>3. QED BY <1>5, <2>1, <2>2
<1>7. CASE HandleRequest(m)
  BY <1>5, <1>7 DEF HandleRequest, clientVars
<1>8. CASE HandleDirect("direct") \/ HandleDirect("shutdown")
  <2>1. /\ status' = [status EXCEPT ![m.id] = "result"] /\ job' = job
        /\ m.method \in {"direct", "shutdown"}
    BY <1>8 DEF HandleDirect, Receives, m
  <2>2. m.id \in Ids /\ Names(m, m.id)
    BY <1>1, <2>1, MessageFields DEF Names
  <2>3. status[m.id] = "waiting"
    BY <1>1, <1>4, <2>2 DEF Conserved, Waits
  <2>4. /\ \A id \in Ids : id # m.id => status'[id] = status[id]
        /\ status'[m.id] # "waiting"
    BY <1>1, <2>1, <2>2 DEF TypeOK
  <2>5. ASSUME NEW id \in Ids, id # m.id
        PROVE  Late(job', Sent', id) <=> Late(job, Sent, id)
    <3>1. ~Names(m, id) /\ ~Names(job', id)
      BY <1>1, <2>1, <2>5, NoMessageNamesNone DEF Names
    <3>2. QED BY <1>4, <3>1 DEF Late
  <2>6. Excused' = Excused \ {m.id}
    BY <1>1, <1>3, <2>4, <2>5 DEF Pardoned
  <2>7. Session!Answer(m.id, "result")
    BY <1>1, <1>2, <1>3, <2>1, <2>3, <2>6 DEF Session!Answer
  <2>8. QED BY <2>2, <2>7 DEF Session!Next, Session!AnswerSomehow
<1>9. QED BY <1>6, <1>7, <1>8 DEF Handle, m

\* Displays move forward through the versions the client had.
LEMMA PublishingIsSession ==
  ASSUME RInv, TypeOK', Publish
  PROVE  Session!Next \/ Unseen
<1>1. /\ UNCHANGED <<opened, asked, versions, documents, status>> /\ Sent' = Sent
      /\ job' = NoMessage /\ TypeOK /\ Forward /\ PInv
  BY EndKeeps DEF Publish, RInv, PInv, IInv
<1>2. job.method \in {"open", "change", "close"}
  BY DEF Publish, RInv, PInv, IInv, Shape
<1>3. \A id \in Ids : ~Names(job, id) /\ ~Names(job', id)
  BY <1>1, <1>2, NoMessageNamesNone DEF Names, Requests
<1>4. \A id \in Ids : Late(job', Sent', id) <=> Late(job, Sent, id)
  BY <1>1, <1>3 DEF Late
<1>5. Excused' = Excused
  <2>1. Pardoned(status', asked', job', Sent') = Pardoned(status, asked, job, Sent)
    BY <1>1, <1>4 DEF Pardoned
  <2>2. QED BY <1>1, <2>1, ExcusedArePardoned
<1>6. \A u \in Uris : Displayed[u] = shown[u].version /\ Displayed'[u] = shown'[u].version
  BY DEF Displayed
<1>7. Displayed' \in [Uris -> 0 .. MaxVersion]
  <2>1. \A u \in Uris : shown'[u].version \in Versions \cup {NoVersion}
    BY DEF TypeOK, Diagnostics
  <2>2. Versions \cup {NoVersion} \subseteq 0 .. MaxVersion
    BY LspAssumption DEF Versions, NoVersion
  <2>3. QED BY <2>1, <2>2 DEF Displayed
<1>8. ASSUME NEW u \in Uris
      PROVE  \/ Displayed'[u] \in {0, Displayed[u]}
             \/ Displayed'[u] \in Displayed[u] .. versions[u]
  <2> DEFINE d == documents[u]
             w == shown[u].version
             x == shown'[u].version
             v == versions[u]
  <2>1. d \in Nat /\ w \in Nat /\ v \in Nat /\ d <= v /\ NoVersion = 0
    BY <1>1, ForwardTypes DEF PInv, NoneAhead, DocumentsRecorded
  <2>2. x \in {w, NoVersion, d}
    BY <1>1, PublishShows
  <2>3. d # NoVersion => w <= d
    BY <1>1 DEF Forward, ForwardAt
  <2> HIDE DEF d, w, x, v
  <2>4. x \in {0, w} \/ x \in w .. v
    BY <2>1, <2>2, <2>3
  <2>5. QED BY <1>6, <2>4 DEF w, x, v
<1>9. Session!Display
  BY <1>1, <1>5, <1>7, <1>8 DEF Session!Display
<1>10. QED BY <1>9 DEF Session!Next

LEMMA RespondingIsSession ==
  ASSUME RInv, TypeOK', Respond
  PROVE  Session!Next
<1>1. /\ UNCHANGED <<opened, asked, versions, shown>> /\ Sent' = Sent
      /\ job' = NoMessage /\ TypeOK /\ Conserved
      /\ status' = [status EXCEPT ![job.id] = answer]
  BY EndKeeps DEF Respond, RInv, CInv, IInv
<1>2. job.method \in Requests /\ answer \in Outcomes
  BY DEF Respond, RInv, CInv, IInv, Shape, Serves
<1>3. job.id \in Ids /\ Names(job, job.id)
  <2>1. job \in Message
    BY <1>1, <1>2, NoMessageServesNothing DEF TypeOK, Requests
  <2>2. QED BY <1>2, <2>1, MessageFields DEF Names
<1>4. status[job.id] = "waiting"
  BY <1>1, <1>3 DEF Conserved, Waits
<1>5. /\ Excused = Pardoned(status, asked, job, Sent)
      /\ Excused' = Pardoned(status', asked', job', Sent')
      /\ Displayed' = Displayed
  BY <1>1, ExcusedArePardoned DEF Displayed
<1>6. answer = "cancelled" => job.id \in Excused
  <2> SUFFICES ASSUME answer = "cancelled" PROVE job.id \in Excused
    OBVIOUS
  <2>1. job.id \in asked \/ TextBehind
    BY <1>2 DEF RInv, CInv, CancelledWithCause, Serves
  <2>2. TextBehind => HasText(Sent)
    BY DEF TextBehind, HasText
  <2>3. QED BY <1>3, <1>4, <1>5, <2>1, <2>2 DEF Pardoned, Late
<1>7. Excused' = Excused \ {job.id}
  <2>1. /\ \A id \in Ids : id # job.id => status'[id] = status[id]
        /\ status'[job.id] # "waiting"
    BY <1>1, <1>2, <1>3 DEF TypeOK, Outcomes
  <2>2. ASSUME NEW id \in Ids, id # job.id
        PROVE  Late(job', Sent', id) <=> Late(job, Sent, id)
    <3>1. ~Names(job, id) /\ ~Names(job', id)
      BY <1>1, <2>2, NoMessageNamesNone DEF Names
    <3>2. QED BY <1>1, <3>1 DEF Late
  <2>3. QED BY <1>1, <1>5, <2>1, <2>2 DEF Pardoned
<1>8. Session!Answer(job.id, answer)
  BY <1>1, <1>4, <1>5, <1>6, <1>7 DEF Session!Answer
<1>9. answer \in {"result", "notOpen", "cancelled"}
  BY <1>2 DEF Outcomes
<1>10. QED BY <1>3, <1>8, <1>9 DEF Session!Next, Session!AnswerSomehow

LEMMA StepIsSession ==
  ASSUME RInv, RInv', [Next]_vars
  PROVE  [Session!Next]_(Session!sessionVars)
<1>1. TypeOK /\ TypeOK' /\ IInv'
  BY DEF RInv, PInv, IInv
<1>2. CASE UNCHANGED <<opened, versions, shown, status, asked, job>> /\ Sent' = Sent
  BY <1>1, <1>2, NothingSeen DEF Unseen
<1>3. CASE Reader
  <2>1. UNCHANGED servingVars
    BY <1>1, <1>3, ReaderReads
  <2>2. CASE ReaderSend
    <3>1. Sent' = Sent /\ UNCHANGED <<opened, versions, shown, status, asked>>
      BY <2>2, SendingKeepsSent DEF ReaderSend, clientVars, documentVars
    <3>2. job' = job
      BY <2>1 DEF servingVars
    <3>3. QED BY <1>2, <3>1, <3>2
  <2>3. CASE \E m \in Message : Reading(m) /\ Appended(m)
    BY <1>1, <2>1, <2>3, ReadingIsSession DEF Unseen
  <2>4. QED BY <1>1, <1>3, <2>2, <2>3, ReaderReads
<1>4. CASE Handle
  BY <1>1, <1>4, HandlingIsSession DEF Unseen
<1>5. CASE Inner
  <2>1. UNCHANGED <<opened, shown, status, asked, job>> /\ Sent' = Sent
    BY <1>5, InnerKeeps DEF clientVars
  <2>2. versions' = versions
    BY <1>5 DEF Inner, PublishSkip, PublishStart, TrackNext, PublishSyntax, Analyse,
       RequestAnalysed, PublishAnalysed, Decide, documentVars,
       Observed!StartAnalysis, Observed!TrackAnalysis, Observed!FinishAnalysis
  <2>3. QED BY <1>2, <2>1, <2>2
<1>6. CASE Publish
  BY <1>1, <1>6, PublishingIsSession DEF Unseen
<1>7. CASE Respond
  BY <1>1, <1>7, RespondingIsSession
<1>8. CASE UNCHANGED vars
  <2>1. /\ UNCHANGED <<opened, versions, shown, status, asked, job>>
        /\ Sent' = Sent
    BY <1>8 DEF vars, clientVars, documentVars, readerVars, servingVars, Sent
  <2>2. QED BY <1>2, <2>1
<1>9. QED BY <1>3, <1>4, <1>5, <1>6, <1>7, <1>8, KindsOfSteps

\* The two threads, their channel and their registries show a client with
\* fresh document versions and request ids nothing but the promised session:
\* each request answered at most once, "cancelled" only for a reason it gave,
\* each display cleared or moved forward to a version it had (serve).
THEOREM ServerKeepsSession ==
  ASSUME FreshIds, FreshVersions
  PROVE  Spec => Session!Spec
<1>1. Init => RInv /\ Session!Init
  BY RInvInit, SessionInit
<1>2. RInv /\ [Next]_vars => RInv'
  BY RInvStep
<1>3. RInv /\ RInv' /\ [Next]_vars => [Session!Next]_(Session!sessionVars)
  BY StepIsSession
<1>4. QED BY <1>1, <1>2, <1>3, PTL DEF Spec, Session!Spec

=============================================================================
