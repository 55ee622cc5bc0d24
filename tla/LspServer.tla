------------------------------ MODULE LspServer ------------------------------
(***************************************************************************)
(* The language server (application/lsp.rs): a client, the reader thread   *)
(* that decodes its messages, the channel between the threads, and the     *)
(* serving thread that handles one message at a time.                      *)
(*                                                                         *)
(* A step of a thread ends where it takes a lock, touches the channel or   *)
(* writes to the client; everything between two such points is local to    *)
(* the thread.  A message leaving the client and its decoding by the       *)
(* reader are one step: the pipe between them only delays, and the client  *)
(* below may send anything as late as the pipe could have delivered it.    *)
(*                                                                         *)
(* A text is identified by its version.  A publication is told apart by    *)
(* what it lists, by whether no cancellation cut its analysis short        *)
(* (`whole`) and by the versions of the documents the analysis saw         *)
(* (`seen`): that is all the properties ask about.                         *)
(***************************************************************************)
EXTENDS Naturals, Sequences, FiniteSets

CONSTANTS
  Uris,                    \* documents
  WorkspaceOf,             \* logical_identity: the workspace of each document
  Ids,                     \* request ids
  NoUri,                   \* not a document
  Ill,                     \* <<document, version>>: texts with syntax problems
  Refused,                 \* <<document, texts>>: analyses that return an error,
                           \* as one does whose sources include a broken file
  MaxVersion,              \* bound on the client's document versions
  MaxCompletedRequestIds,  \* bound of the completed history
  MaxInbox,                \* bound on the channel, which the code leaves open
  MaxRounds,               \* bound on the analyses of one edit request
  Methods,                 \* the messages this client sends (see below)
  FreshIds,                \* the client never uses a request id twice
  FreshVersions            \* a document's versions grow across close and open

Requests == {"analyse", "lookup", "survey", "edit"}
AllMethods == Requests \cup {"open", "change", "garble", "close", "cancel",
                             "direct", "shutdown", "exit", "end"}

ASSUME LspAssumption ==
  /\ MaxVersion \in Nat \ {0}
  /\ MaxCompletedRequestIds \in Nat \ {0}
  /\ MaxInbox \in Nat \ {0}
  /\ MaxRounds \in Nat \ {0}
  /\ Methods \subseteq AllMethods
  /\ FreshIds \in BOOLEAN
  /\ FreshVersions \in BOOLEAN
  /\ Ids \cap Uris = {}
  /\ NoUri \notin Uris

VARIABLES
  \* The client.
  opened,        \* per document, the version the client shows, or NoVersion
  status,        \* per id: unused, waiting, or what its last use was answered
  asked,         \* ids whose cancellation was sent since they were last used
  shown,         \* per document, the diagnostics the client displays
  \* The two registries the threads share.
  active, pending, completed, completedOrder,
  versions, closed, tracked,
  cancelled,
  \* The reader thread and the channel.
  reading,       \* the message registered and not yet sent on the channel
  inbox,         \* the channel
  \* The serving thread.
  documents,     \* Server::documents: per document its version, or NoVersion
  stopping,      \* Server::shutdown
  stage,         \* where the thread is
  job,           \* the message being handled
  todo,          \* documents of the job still to be analysed
  doc,           \* the document under analysis
  rounds,        \* analyses of `doc` still to run for this job
  whole,         \* no analysis of the job so far was cut short
  outbox,        \* notifications the handler returned and serve() will write
  answer         \* what the job's request will be answered

Registry == INSTANCE RequestCancellations
Observed == INSTANCE ObservedDocuments

clientVars == <<opened, status, asked, shown>>
requestVars == <<active, pending, completed, completedOrder>>
documentVars == <<versions, closed, tracked>>
readerVars == <<reading, inbox>>
servingVars ==
  <<documents, stopping, stage, job, todo, doc, rounds, whole, outbox, answer>>
vars == <<clientVars, requestVars, documentVars, cancelled, readerVars,
          servingVars>>

Versions == 1 .. MaxVersion
NoVersion == 0
NoMessage == [method |-> "none"]

\* `expects` is history, not part of the wire format: the version the client
\* shows when it sends a request about a document.
Message ==
  [method : {"open", "change", "garble"}, uri : Uris, version : Versions]
    \cup [method : {"close"}, uri : Uris]
    \cup [method : {"analyse", "lookup", "edit"}, id : Ids, uri : Uris,
          expects : Versions \cup {NoVersion}]
    \cup [method : {"survey", "direct", "shutdown", "cancel"}, id : Ids]
    \cup [method : {"exit", "end"}]

\* A result (or a refusal worked out from the text), a document that is not
\* open, a cancellation.
Outcomes == {"result", "notOpen", "cancelled"}

\* What a publication lists: the text's syntax problems, the findings of the
\* analysis, or nothing at all.
Lists == {"problems", "findings", "nothing"}
Diagnostics == [version : Versions \cup {NoVersion}, whole : BOOLEAN,
                seen : [Uris -> Versions \cup {NoVersion}], lists : Lists]
Cleared == [version |-> NoVersion, whole |-> TRUE,
            seen |-> [u \in Uris |-> NoVersion], lists |-> "nothing"]

\* Server::diagnostics: an analysis that returns an error is dropped by
\* unwrap_or_default, and the document is published with an empty list.
Listed(u, texts) ==
  IF <<u, texts[u]>> \in Ill THEN "problems"
  ELSE IF <<u, texts>> \in Refused THEN "nothing" ELSE "findings"

Init ==
  /\ opened = [u \in Uris |-> NoVersion]
  /\ status = [id \in Ids |-> "unused"]
  /\ asked = {}
  /\ shown = [u \in Uris |-> Cleared]
  /\ Registry!EmptyRegistry
  /\ versions = [u \in Uris |-> NoVersion]
  /\ closed = {} /\ tracked = {} /\ cancelled = {}
  /\ reading = NoMessage /\ inbox = <<>>
  /\ documents = [u \in Uris |-> NoVersion]
  /\ stopping = FALSE
  /\ stage = "idle" /\ job = NoMessage
  /\ todo = {} /\ doc = NoUri /\ rounds = 0
  /\ whole = TRUE /\ outbox = {} /\ answer = "none"

-----------------------------------------------------------------------------
(***************************************************************************)
(* The client and the reader thread: a message is sent, decoded and        *)
(* registered with the registry it concerns; sending it on the channel is  *)
(* the reader's next step.                                                 *)
(***************************************************************************)

Reads(method) ==
  /\ method \in Methods
  /\ stage # "stopped"
  /\ reading = NoMessage
  /\ Len(inbox) < MaxInbox
  /\ ~ \E i \in DOMAIN inbox : inbox[i].method = "end"   \* the thread has left

\* didOpen: any version the client likes, unless it numbers across reopenings.
\* The newest version observed is the highest this client has used.
ReadOpen(u, v) ==
  /\ Reads("open")
  /\ opened[u] = NoVersion
  /\ FreshVersions => v > versions[u]
  /\ opened' = [opened EXCEPT ![u] = v]
  /\ Observed!ObserveText(u, v)
  /\ reading' = [method |-> "open", uri |-> u, version |-> v]
  /\ UNCHANGED <<status, asked, shown, requestVars, inbox,
                 servingVars>>

\* didChange; a garbled one carries edits that do not apply to the text.
ReadChange(method, u, v) ==
  /\ Reads(method)
  /\ opened[u] # NoVersion
  /\ v > opened[u]
  /\ FreshVersions => v > versions[u]
  /\ opened' = [opened EXCEPT ![u] = v]
  /\ Observed!ObserveText(u, v)
  /\ reading' = [method |-> method, uri |-> u, version |-> v]
  /\ UNCHANGED <<status, asked, shown, requestVars, inbox,
                 servingVars>>

ReadClose(u) ==
  /\ Reads("close")
  /\ opened[u] # NoVersion
  /\ opened' = [opened EXCEPT ![u] = NoVersion]
  /\ Observed!ObserveClose(u)
  /\ reading' = [method |-> "close", uri |-> u]
  /\ UNCHANGED <<status, asked, shown, requestVars, inbox,
                 servingVars>>

\* A request is registered with neither registry until it is dequeued.
ReadRequest(m) ==
  /\ Reads(m.method)
  /\ status[m.id] # "waiting"
  /\ FreshIds => status[m.id] = "unused"
  /\ status' = [status EXCEPT ![m.id] = "waiting"]
  /\ asked' = asked \ {m.id}
  /\ reading' = m
  /\ UNCHANGED <<opened, shown, requestVars, documentVars, cancelled, inbox,
                 servingVars>>

\* $/cancelRequest, at most one per use of an id, possibly after its answer.
ReadCancel(id) ==
  /\ Reads("cancel")
  /\ status[id] # "unused"
  /\ id \notin asked
  /\ asked' = asked \cup {id}
  /\ Registry!Cancel(id)
  /\ reading' = [method |-> "cancel", id |-> id]
  /\ UNCHANGED <<opened, status, shown, documentVars, inbox,
                 servingVars>>

\* `exit`, and the end of the input or an undecodable frame.
ReadLast(method) ==
  /\ Reads(method)
  /\ reading' = [method |-> method]
  /\ UNCHANGED <<clientVars, requestVars, documentVars, cancelled, inbox,
                 servingVars>>

\* sender.send: registered first, queued second.
ReaderSend ==
  /\ stage # "stopped"
  /\ reading # NoMessage
  /\ inbox' = Append(inbox, reading)
  /\ reading' = NoMessage
  /\ UNCHANGED <<clientVars, requestVars, documentVars, cancelled, servingVars>>

DocumentRequest(id) ==
  {[method |-> k, id |-> id, uri |-> u, expects |-> opened[u]] :
      k \in {"analyse", "lookup", "edit"}, u \in Uris}
OtherRequest(id) ==
  {[method |-> k, id |-> id] : k \in {"survey", "direct", "shutdown"}}

Reader ==
  \/ \E u \in Uris : \/ \E v \in Versions : \/ ReadOpen(u, v)
                                             \/ ReadChange("change", u, v)
                                             \/ ReadChange("garble", u, v)
                     \/ ReadClose(u)
  \/ \E id \in Ids : \/ \E m \in DocumentRequest(id) \cup OtherRequest(id) :
                          ReadRequest(m)
                     \/ ReadCancel(id)
  \/ ReadLast("exit") \/ ReadLast("end")
  \/ ReaderSend

-----------------------------------------------------------------------------
(***************************************************************************)
(* The serving thread: dequeue a message, then handle it to the end.       *)
(***************************************************************************)

Receives(method) ==
  /\ stage = "idle"
  /\ inbox # <<>>
  /\ Head(inbox).method = method
  /\ inbox' = Tail(inbox)

Siblings(u, texts) ==
  {w \in Uris : texts[w] # NoVersion /\ WorkspaceOf[w] = WorkspaceOf[u]}

\* What Server::diagnostics returns of document u: cut short or in error, the
\* analysis leaves nothing to list.
Report(u) ==
  [version |-> documents[u], whole |-> whole, seen |-> documents,
   lists |-> IF whole THEN Listed(u, documents) ELSE "nothing"]

\* Slips a maintainer could make in the handlers; no specification uses them.
HandleText_PublishesOneDocument(m) ==
  /\ m.method \in {"open", "change"}
  /\ Receives(m.method)
  /\ documents' = [documents EXCEPT ![m.uri] = m.version]
  /\ job' = m
  /\ todo' = {m.uri}
  /\ stage' = "publish"
  /\ UNCHANGED <<clientVars, requestVars, documentVars, cancelled, reading,
                 stopping, doc, rounds, whole, outbox, answer>>

PublishAnalysed_Unchecked ==
  /\ stage = "analysed"
  /\ job.method \notin Requests
  /\ tracked' = {}
  /\ outbox' = outbox \cup {[uri |-> doc, diagnostics |-> Report(doc)]}
  /\ todo' = todo \ {doc}
  /\ stage' = "publish"
  /\ UNCHANGED <<clientVars, requestVars, versions, closed, cancelled,
                 readerVars, documents, stopping, job, doc, rounds, whole,
                 answer>>

Decide_WithoutLastLook ==
  /\ stage = "decide"
  /\ stage' = "respond"
  /\ UNCHANGED <<clientVars, requestVars, documentVars, cancelled, readerVars,
                 documents, stopping, job, todo, doc, rounds, whole, outbox,
                 answer>>

\* Server::did_open and an accepted Server::did_change: the text is taken and
\* every open document of its workspace is published anew.
HandleText(m) ==
  /\ m.method \in {"open", "change"}
  /\ Receives(m.method)
  /\ m = Head(inbox)
  /\ m.method = "change" => /\ documents[m.uri] # NoVersion
                            /\ m.version > documents[m.uri]
  /\ documents' = [documents EXCEPT ![m.uri] = m.version]
  /\ job' = m
  /\ todo' = Siblings(m.uri, documents')
  /\ stage' = "publish"
  /\ UNCHANGED <<clientVars, requestVars, documentVars, cancelled, reading,
                 stopping, doc, rounds, whole, outbox, answer>>

\* Server::did_change of a document that is not open or not older, or whose
\* edits do not apply: the text stays, the reader has seen the new version.
IgnoreChange(m) ==
  /\ m.method \in {"change", "garble"}
  /\ Receives(m.method)
  /\ m = Head(inbox)
  /\ \/ m.method = "garble"
     \/ documents[m.uri] = NoVersion
     \/ m.version <= documents[m.uri]
  /\ UNCHANGED <<clientVars, requestVars, documentVars, cancelled, reading,
                 servingVars>>

\* Server::did_close: the display is cleared unless the reader has already
\* seen the document open again.
HandleClose(m) ==
  /\ Receives("close")
  /\ m = Head(inbox)
  /\ documents' = [documents EXCEPT ![m.uri] = NoVersion]
  /\ IF Observed!IsClosed(m.uri)
     THEN /\ outbox' = {[uri |-> m.uri, diagnostics |-> Cleared]}
          /\ job' = m
          /\ stage' = "publish"
     ELSE UNCHANGED <<outbox, job, stage>>
  /\ UNCHANGED <<clientVars, requestVars, documentVars, cancelled, reading,
                 stopping, todo, doc, rounds, whole, answer>>

\* The serving thread sees every $/cancelRequest too, after the reader did.
HandleCancel ==
  /\ Receives("cancel")
  /\ Registry!Cancel(Head(inbox).id)
  /\ UNCHANGED <<clientVars, documentVars, reading, servingVars>>

\* initialize, shutdown, an unknown method, a malformed call: answered at
\* once, outside the registry.
HandleDirect(method) ==
  /\ Receives(method)
  /\ status' = [status EXCEPT ![Head(inbox).id] = "result"]
  /\ stopping' = (stopping \/ method = "shutdown")
  /\ UNCHANGED <<opened, asked, shown, requestVars, documentVars,
                 cancelled, reading, documents, stage, job, todo, doc, rounds,
                 whole, outbox, answer>>

\* `exit`, the end of the input, a frame that cannot be decoded.
HandleLast(method) ==
  /\ Receives(method)
  /\ stage' = "stopped"
  /\ UNCHANGED <<clientVars, requestVars, documentVars, cancelled, reading,
                 documents, stopping, job, todo, doc, rounds, whole, outbox,
                 answer>>

\* The documents a request has to analyse, in any number of rounds for an
\* edit (rename, codeAction), of which one in error is the last.  A document
\* whose text has syntax problems is reported without an analysis, so a survey
\* may leave any out.
Analyses(m, texts) ==
  CASE m.method = "survey" ->
         [todo : SUBSET {u \in Uris : texts[u] # NoVersion}, rounds : {1}]
    [] m.method = "analyse" ->
         [todo : IF texts[m.uri] = NoVersion THEN {{}} ELSE {{m.uri}},
          rounds : {1}]
    [] m.method = "edit" ->
         [todo : IF texts[m.uri] = NoVersion THEN {{}} ELSE {{m.uri}},
          rounds : 1 .. MaxRounds]
    [] m.method = "lookup" ->
         [todo : {{}}, rounds : {1}]

\* Server::request up to the operation: the token is created and, if it is
\* already raised, the operation is skipped.
HandleRequest(m) ==
  /\ m.method \in Requests
  /\ Receives(m.method)
  /\ m = Head(inbox)
  /\ Registry!Start(m.id)
  /\ job' = m
  /\ answer' = IF m.method # "survey" /\ documents[m.uri] = NoVersion
               THEN "notOpen" ELSE "result"
  /\ \E plan \in Analyses(m, documents) :
        /\ rounds' = plan.rounds
        /\ todo' = IF m.id \in cancelled' THEN {} ELSE plan.todo
  /\ stage' = IF todo' = {} THEN "decide" ELSE "track"
  /\ UNCHANGED <<clientVars, documentVars, reading, documents, stopping, doc,
                 whole, outbox>>

-----------------------------------------------------------------------------

\* The token of the analysis under way.
Token == IF job.method \in Requests THEN job.id ELSE doc

\* Server::publish when start_analysis returns None.
PublishSkip(u) ==
  /\ stage = "publish"
  /\ u \in todo
  /\ ~Observed!IsCurrent(u, documents[u])
  /\ todo' = todo \ {u}
  /\ UNCHANGED <<clientVars, requestVars, documentVars, cancelled, readerVars,
                 documents, stopping, stage, job, doc, rounds, whole, outbox,
                 answer>>

\* Server::publish: start_analysis, and the track_analysis of the same key
\* and token that follows it and so changes nothing.
PublishStart(u) ==
  /\ stage = "publish"
  /\ u \in todo
  /\ Observed!StartAnalysis(u, documents[u], u)
  /\ doc' = u
  /\ whole' = TRUE
  /\ stage' = "analyse"
  /\ UNCHANGED <<clientVars, requestVars, readerVars, documents, stopping, job,
                 todo, rounds, outbox, answer>>

\* Server::diagnostics of a text with syntax problems: no analysis runs, and
\* no cancellation can shorten what is reported.
PublishSyntax ==
  /\ stage = "analyse"
  /\ job.method \notin Requests
  /\ <<doc, documents[doc]>> \in Ill
  /\ stage' = "analysed"
  /\ UNCHANGED <<clientVars, requestVars, documentVars, cancelled, readerVars,
                 documents, stopping, job, todo, doc, rounds, whole, outbox,
                 answer>>

\* Server::analysis_with_replacements, for a request: track_analysis.
TrackNext(u) ==
  /\ stage = "track"
  /\ u \in todo
  /\ Observed!TrackAnalysis(u, documents[u], job.id)
  /\ doc' = u
  /\ stage' = "analyse"
  /\ UNCHANGED <<clientVars, requestVars, readerVars, documents, stopping, job,
                 todo, rounds, whole, outbox, answer>>

\* The analysis up to its last look at the token: raised, it returns an error
\* and the handler goes on with nothing.  One that is Refused returns an error
\* whatever the token says; Report and RequestAnalysed tell them apart.
Analyse ==
  /\ stage = "analyse"
  /\ job.method \notin Requests => <<doc, documents[doc]>> \notin Ill
  /\ whole' = (whole /\ Token \notin cancelled)
  /\ stage' = "analysed"
  /\ UNCHANGED <<clientVars, requestVars, documentVars, cancelled, readerVars,
                 documents, stopping, job, todo, doc, rounds, outbox, answer>>

\* finish_analysis for a request; an edit goes on to its next round unless
\* this one was cut short or in error, a survey to its next document.
RequestAnalysed ==
  /\ stage = "analysed"
  /\ job.method \in Requests
  /\ Observed!FinishAnalysis(doc, documents[doc])
  /\ LET again == rounds > 1 /\ whole /\ <<doc, documents>> \notin Refused
     IN  /\ rounds' = IF again THEN rounds - 1 ELSE rounds
         /\ todo' = IF again THEN todo ELSE todo \ {doc}
  /\ stage' = IF todo' = {} THEN "decide" ELSE "track"
  /\ UNCHANGED <<clientVars, requestVars, cancelled, readerVars, documents,
                 stopping, job, doc, whole, outbox, answer>>

\* Server::publish after the analysis: finish_analysis, and is_current.
PublishAnalysed ==
  /\ stage = "analysed"
  /\ job.method \notin Requests
  /\ Observed!FinishAnalysis(doc, documents[doc])
  /\ outbox' =
       IF Observed!IsCurrent(doc, documents[doc])
       THEN outbox \cup {[uri |-> doc, diagnostics |-> Report(doc)]}
       ELSE outbox
  /\ todo' = todo \ {doc}
  /\ stage' = "publish"
  /\ UNCHANGED <<clientVars, requestVars, cancelled, readerVars, documents,
                 stopping, job, doc, rounds, whole, answer>>

\* Back to the channel; what the next message does not read is forgotten.
BackToIdle ==
  /\ stage' = "idle"
  /\ job' = NoMessage
  /\ todo' = {}
  /\ doc' = NoUri
  /\ rounds' = 0
  /\ whole' = TRUE
  /\ outbox' = {}
  /\ answer' = "none"
  /\ UNCHANGED <<documents, stopping>>

\* serve() writes what the handler returned.
Publish ==
  /\ stage = "publish"
  /\ todo = {}
  /\ shown' = [u \in Uris |->
                 IF \E n \in outbox : n.uri = u
                 THEN (CHOOSE n \in outbox : n.uri = u).diagnostics
                 ELSE shown[u]]
  /\ BackToIdle
  /\ UNCHANGED <<opened, status, asked, requestVars, documentVars,
                 cancelled, readerVars>>

\* Server::request after the operation: one last look at the token.
Decide ==
  /\ stage = "decide"
  /\ answer' = IF job.id \in cancelled THEN "cancelled" ELSE answer
  /\ stage' = "respond"
  /\ UNCHANGED <<clientVars, requestVars, documentVars, cancelled, readerVars,
                 documents, stopping, job, todo, doc, rounds, whole, outbox>>

Respond_DropsCancelled ==
  /\ stage = "respond"
  /\ Registry!Finish(job.id)
  /\ status' = IF answer = "cancelled" THEN status
               ELSE [status EXCEPT ![job.id] = answer]
  /\ BackToIdle
  /\ UNCHANGED <<opened, asked, shown, documentVars, readerVars>>

\* The registry forgets the request and serve() writes the response.
Respond ==
  /\ stage = "respond"
  /\ Registry!Finish(job.id)
  /\ status' = [status EXCEPT ![job.id] = answer]
  /\ BackToIdle
  /\ UNCHANGED <<opened, asked, shown, documentVars, readerVars>>

Handle ==
  \/ inbox # <<>> /\ \/ HandleText(Head(inbox))
                      \/ IgnoreChange(Head(inbox))
                      \/ HandleClose(Head(inbox))
                      \/ HandleRequest(Head(inbox))
  \/ HandleCancel
  \/ HandleDirect("direct") \/ HandleDirect("shutdown")
  \/ HandleLast("exit") \/ HandleLast("end")

Serving ==
  \/ Handle
  \/ \E u \in Uris : PublishSkip(u) \/ PublishStart(u) \/ TrackNext(u)
  \/ PublishSyntax \/ Analyse
  \/ RequestAnalysed \/ PublishAnalysed
  \/ Publish \/ Decide \/ Respond

Next == Reader \/ Serving

Spec == Init /\ [][Next]_vars

\* The operating system schedules both threads; the client owes nothing.
FairSpec == Spec /\ WF_vars(ReaderSend) /\ WF_vars(Serving)

-----------------------------------------------------------------------------
(***************************************************************************)
(* Properties.                                                             *)
(***************************************************************************)

TypeOK ==
  /\ opened \in [Uris -> Versions \cup {NoVersion}]
  /\ status \in [Ids -> {"unused", "waiting"} \cup Outcomes]
  /\ asked \subseteq Ids
  /\ shown \in [Uris -> Diagnostics]
  /\ active \subseteq Ids
  /\ pending \subseteq Ids
  /\ completed \subseteq Ids
  /\ completedOrder \in Seq(Ids)
  /\ Len(completedOrder) <= MaxCompletedRequestIds
  /\ versions \in [Uris -> Versions \cup {NoVersion}]
  /\ closed \subseteq Uris
  /\ tracked \subseteq Observed!Entry
  /\ cancelled \subseteq Ids \cup Uris
  /\ reading \in Message \cup {NoMessage}
  /\ inbox \in Seq(Message)
  /\ documents \in [Uris -> Versions \cup {NoVersion}]
  /\ stopping \in BOOLEAN
  /\ stage \in {"idle", "publish", "track", "analyse", "analysed", "decide",
               "respond", "stopped"}
  /\ job \in Message \cup {NoMessage}
  /\ todo \subseteq Uris
  /\ doc \in Uris \cup {NoUri}
  /\ rounds \in 0 .. MaxRounds
  /\ whole \in BOOLEAN
  /\ outbox \subseteq [uri : Uris, diagnostics : Diagnostics]
  /\ answer \in {"none"} \cup Outcomes

Serves(methods) == job.method \in methods

\* Between the threads' locks nothing leaks: an analysis is registered with
\* the reader exactly while it runs, under the token that is polled and the
\* version that is analysed, and a request exactly from start to finish.  An
\* entry left behind would cancel some later job, one missing would let the
\* reader's cancellation go unseen.
RegistriesMatchJob ==
  /\ tracked = IF stage \in {"analyse", "analysed"}
               THEN {[uri |-> doc, version |-> documents[doc],
                      token |-> Token]}
               ELSE {}
  /\ active = IF Serves(Requests) THEN {job.id} ELSE {}

\* A publication whose token is still clear is about the newest version the
\* reader has seen: no interleaving of observe with start_analysis lets a
\* superseded analysis run on unnoticed.
LivePublicationIsCurrent ==
  stage \in {"analyse", "analysed"} /\ ~Serves(Requests) /\ doc \notin cancelled
    => Observed!IsCurrent(doc, documents[doc])

\* The diagnostics about to be written never stem from an analysis that a
\* cancellation cut short: it yields an empty list, which would read as "no
\* problems" (Server::diagnostics).  An analysis in error reads so as well, and
\* is published.
PublishedWhole == \A n \in outbox : n.diagnostics.whole

\* Nor does a request's result, however many analyses it combines.
AnsweredWhole == stage = "respond" /\ answer = "result" => whole

\* Nothing the client receives, published or answered, comes from an analysis
\* that was cut short.
NothingPartialLeaves == PublishedWhole /\ AnsweredWhole

\* The registry the threads share stays sound under both: the set and the
\* queue of completed ids list the same ids, and a request cancelled before it
\* started runs with its token raised.
RegistryKept == Registry!HistoryInStep /\ Registry!PendingRunsCancelled

\* A request about a document is answered for the version the client showed
\* when it sent the request, however far ahead the reader has observed.
AnsweredAsSent ==
  stage = "respond" /\ answer # "cancelled" /\ Serves(Requests \ {"survey"})
    => documents[job.uri] = job.expects

\* A request is answered "cancelled" only when the client cancelled this use
\* of its id, or has sent a newer state of some document behind it.
CancelledForAReason ==
  stage = "respond" /\ answer = "cancelled"
    => \/ job.id \in asked
       \/ \E m \in {inbox[i] : i \in DOMAIN inbox} \cup {reading} :
            m.method \in {"open", "change", "garble", "close"}

\* A cancellation the reader has registered before the serving thread's last
\* look at the token is honoured: the response is "request cancelled".
CancellationHonoured ==
  [][stage = "decide" /\ stage' = "respond" /\ job.id \in asked
       => answer' = "cancelled"]_vars

Quiet ==
  stage = "idle" /\ inbox = <<>> /\ reading = NoMessage

\* Every request the client waits for is in exactly one place on its way to
\* the serving thread, and no other request is: none is lost, none is answered
\* twice, and `exit` leaves unanswered only what was sent after it.
InFlight ==
  (IF reading = NoMessage THEN {} ELSE {<<0, reading>>})
    \cup {<<i, inbox[i]>> : i \in DOMAIN inbox}
    \cup (IF job = NoMessage THEN {} ELSE {<<Len(inbox) + 1, job>>})

RequestsConserved ==
  \A id \in Ids :
    Cardinality({p \in InFlight :
                   /\ p[2].method \in Requests \cup {"direct", "shutdown"}
                   /\ p[2].id = id})
      = IF status[id] = "waiting" THEN 1 ELSE 0

\* What a client may rely on for each request it sends: it stays in one place
\* until it is answered once, with the result for the version the client
\* showed or, for a reason, as cancelled.
RequestsAccountedFor == RequestsConserved /\ AnsweredAsSent /\ CancelledForAReason

\* When everything sent has been handled, the client displays for every open
\* document what Server::diagnostics makes of exactly the version it shows, not
\* cut short, in the light of the current versions of the open documents around
\* it, and nothing for the documents it has closed.  What is displayed may be an
\* empty list that no analysis found: then an analysis of just these texts is in
\* error (Listed), and never because of an older text of an open document.
Settled(u) ==
  IF opened[u] = NoVersion
  THEN shown[u] = Cleared
  ELSE /\ shown[u].version = opened[u]
       /\ shown[u].whole
       /\ shown[u].lists = Listed(u, shown[u].seen)
       /\ \A w \in Uris :
            opened[w] # NoVersion /\ WorkspaceOf[w] = WorkspaceOf[u]
              => shown[u].seen[w] = opened[w]

QuietIsSettled == Quiet => \A u \in Uris : Settled(u)

-----------------------------------------------------------------------------
(* The two-threaded server implements the session its client was promised. *)

\* What the client sent, in the order it will be handled: the message under
\* way, the channel, the message the reader has not queued yet.
Line ==
  (IF job = NoMessage THEN <<>> ELSE <<job>>)
    \o inbox
    \o (IF reading = NoMessage THEN <<>> ELSE <<reading>>)

Names(m, id) == m.method \in Requests \cup {"direct", "shutdown"} /\ m.id = id

\* A document moved on after the request was sent.
Overtaken(id) ==
  \E i, j \in DOMAIN Line :
     /\ i < j
     /\ Names(Line[i], id)
     /\ Line[j].method \in {"open", "change", "garble", "close"}

Displayed == [u \in Uris |-> shown[u].version]
Excused ==
  {id \in Ids : status[id] = "waiting" /\ (id \in asked \/ Overtaken(id))}

Session == INSTANCE LspSession WITH
  newest <- versions, displayed <- Displayed, excused <- Excused

\* The session a client with fresh document versions and fresh request ids
\* was promised (LspSession) is what serve() gives it, as long as it runs.
ImplementsSession == Session!FairSpec
=============================================================================
