---------------------------- MODULE ResolveCommand ----------------------------
(***************************************************************************)
(* The `resolve` command: application::command_resolve, resolve_dependencies *)
(* and lock_fetched (product/resolver.rs) and the request sequences of     *)
(* application/resolver_transport.rs.  It reads the references of the      *)
(* workflow files and the lock, asks the providers what each reference     *)
(* stands for, and replaces the lock if nothing went wrong; meanwhile tags *)
(* move.                                                                   *)
(*                                                                         *)
(* The kinds of dependency follow resolve_dependency.  An "action" (also a  *)
(* GitLab component) has its semantic source under one of two names, a     *)
(* "file" (a reusable workflow, a GitLab project file, an Azure template)  *)
(* and a "task" under one, a "repository" under none.  An "image" is of    *)
(* Docker Hub, a "registry" image of any other.  "unsupported" is whatever *)
(* the resolver refuses by its looks: malformed, without a revision, or of *)
(* a type it knows no host for.                                            *)
(* The workflow texts always compile, and an empty or malformed answer is  *)
(* one the fetch refuses.                                                  *)
(***************************************************************************)
EXTENDS SecureFetch

(***************************************************************************)
(* What the commands that pin dependencies share: the references workflow  *)
(* files name dependencies by, and the lock (product/lockfile.rs) that     *)
(* records what each of them stands for.                                   *)
(*                                                                         *)
(* A reference is the name of a dependency at its tag or pinned at a       *)
(* revision.  The content an entry has the digest of and the summary       *)
(* inferred from a source file of it are represented by the revision they  *)
(* are of.  A lock maps every reference to its entry, or to NoEntry; its   *)
(* order and its integrity digest follow from that.                        *)
(***************************************************************************)
CONSTANTS
  Names,          \* the dependencies, numbered in the order of their spelling
  MaxRevision,    \* how far a tag may move
  NumFiles,       \* workflow files
  ProviderOf      \* the provider of the workflows that use it, by name

ASSUME LockAssumption ==
  /\ Names \subseteq Nat
  /\ MaxRevision \in Nat \ {0}
  /\ NumFiles \in Nat
  /\ DOMAIN ProviderOf = Names

Tag == 0
Revisions == 1 .. MaxRevision
References == [name : Names, at : {Tag} \cup Revisions]

LockPath == 0
Files == 1 .. NumFiles

Entries == [revision : Revisions, content : Revisions,
            summary : {Tag} \cup Revisions]
NoEntry == [revision |-> Tag, content |-> Tag, summary |-> Tag]
Locks == [References -> Entries \cup {NoEntry}]
EmptyLock == [r \in References |-> NoEntry]

\* A workflow file: what mentions references, in the order of the document.  A
\* "use" is the scalar a dependency is named by, a "composed" one a dependency
\* whose reference the frontend puts together (a GitLab project's file, an Azure
\* repository), so that no scalar has it, and an "other" one is a scalar with a
\* reference's text that uses nothing, like the name of a step.
Mentions == [reference : References, role : {"use", "composed", "other"}]
Texts == Seq(Mentions)

Uses(text) == {i \in DOMAIN text : text[i].role # "other"}
Used(text) == {text[i].reference : i \in Uses(text)}

\* GitHub's frontend keeps a dependency for every occurrence of a reference,
\* the other three one for all of them.
PerOccurrence(r) == ProviderOf[r.name] = "github"

\* Compilation::dependencies of a workflow, as the number of dependencies with
\* a reference.
Dependencies(text, r) ==
  LET uses == {i \in Uses(text) : text[i].reference = r}
  IN  IF PerOccurrence(r) THEN Cardinality(uses)
      ELSE IF uses = {} THEN 0 ELSE 1

-----------------------------------------------------------------------------
(***************************************************************************)
(* atomic_write (application/mod.rs): a file is replaced by writing and    *)
(* syncing a new one beside it and renaming that over it.  The name of the *)
(* temporary file holds the process and a sequence number, so two writers  *)
(* never share one, and each writer here has its own.                      *)
(***************************************************************************)
VARIABLES
  disk,         \* what each path holds
  temporary     \* for each writer its temporary file, or NoFile

diskVars == <<disk, temporary>>

NoFile == [state |-> "none"]

\* OpenOptions::create_new: the file exists and is empty.
CreateTemporary(w, path) ==
  /\ temporary[w] = NoFile
  /\ temporary' = [temporary EXCEPT ![w] = [state |-> "empty", path |-> path]]
  /\ UNCHANGED disk

\* write_all and sync_all.
FillTemporary(w, content) ==
  /\ temporary[w].state = "empty"
  /\ temporary' = [temporary EXCEPT ![w] =
       [state |-> "synced", path |-> temporary[w].path, content |-> content]]
  /\ UNCHANGED disk

RenameTemporary(w) ==
  /\ temporary[w].state = "synced"
  /\ disk' = [disk EXCEPT ![temporary[w].path] = temporary[w].content]
  /\ temporary' = [temporary EXCEPT ![w] = NoFile]

\* Any of the steps fails (no space, no permission): the file is removed.
WriteFails(w) ==
  /\ temporary' = [temporary EXCEPT ![w] = NoFile]
  /\ UNCHANGED disk

\* The process dies: its temporary file is left behind, under a name no other
\* process will use, and nobody looks at it again.
Abandoned(w) ==
  /\ temporary' = [temporary EXCEPT ![w] = NoFile]
  /\ UNCHANGED disk

-----------------------------------------------------------------------------
CONSTANTS
  KindOf,         \* the kind of dependency, by name
  Linked,         \* the local ones whose file is in the workspace
  Allowed,        \* the names the configured allowed_sources admit
  UrlOf,          \* the URL asked at each stage, by kind
  Official,       \* the provider's own origins: <<provider, origin>>
  Bound,          \* credentials named on the command line, as
                  \* <<provider, origin>> or <<provider, Default>>
  Store,          \* credentials of the credential store, likewise
  MaxRuns         \* runs of the command, one after the other

Hosted == {"action", "file", "task", "repository"}
Kinds == Hosted \cup {"orb", "image", "registry", "https", "unsupported",
                     "local"}
RequestStages == {"commit", "archive", "source", "alternative", "versions",
                  "contents", "token", "manifest", "direct"}

ASSUME ResolveAssumption ==
  /\ KindOf \in [Names -> Kinds]
  /\ Linked \subseteq Names
  /\ Allowed \subseteq Names
  /\ UrlOf \in [Kinds -> [RequestStages -> Urls]]
  /\ MaxRuns \in Nat

VARIABLES
  remote,        \* the revision each name's tag stands for
  resolve,       \* where the command is
  update,        \* --update
  network,       \* --allow-network
  unread,        \* workflow files not yet read
  todo,          \* how often each reference is still to be resolved
  current,       \* the lock in memory
  fetched,       \* the FetchedDependency under way, an entry
  errors,        \* references whose fetch failed
  unresolved,    \* ResolutionResult::unresolved
  resolve_exit,  \* the exit code
  runs,          \* runs begun
  wanted,        \* history: the references this run has read
  before         \* history: the tags when this run began

fetchedVars == <<current, fetched>>
resultVars == <<errors, unresolved>>
modeVars == <<update, network, runs, before>>
readVars == <<unread, wanted>>
resolveVars == <<fetchVars, resolve, modeVars, readVars, todo, fetchedVars,
                 resultVars, resolve_exit>>

ResolveInit ==
  /\ FetchInit
  /\ remote = [n \in Names |-> 1]
  /\ resolve = "idle" /\ resolve_exit = 0
  /\ update = FALSE /\ network = FALSE
  /\ unread = {} /\ wanted = {}
  /\ todo = [r \in References |-> 0]
  /\ current = EmptyLock
  /\ fetched = NoEntry
  /\ errors = {} /\ unresolved = {}
  /\ runs = 0 /\ before = remote

-----------------------------------------------------------------------------
\* A release moves a tag.
MoveTag(n) ==
  /\ remote[n] < MaxRevision
  /\ remote' = [remote EXCEPT ![n] = @ + 1]
  /\ UNCHANGED <<diskVars, resolveVars>>

ResolveStart(u, n) ==
  /\ resolve \in {"idle", "ended"}
  /\ runs < MaxRuns
  /\ u => n
  /\ resolve' = "sources"
  /\ update' = u /\ network' = n
  /\ runs' = runs + 1 /\ before' = remote
  /\ unread' = Files /\ wanted' = {}
  /\ todo' = [r \in References |-> 0]
  /\ errors' = {} /\ unresolved' = {}
  /\ UNCHANGED <<remote, diskVars, fetchVars, fetchedVars, resolve_exit>>

\* The workspace loader reads the workflow files in order, then the lock.
ReadSource(f) ==
  /\ resolve = "sources"
  /\ f \in unread /\ \A g \in unread : f <= g
  /\ unread' = unread \ {f}
  /\ wanted' = wanted \cup Used(disk[f])
  /\ todo' = [r \in References |-> todo[r] + Dependencies(disk[f], r)]
  /\ UNCHANGED <<remote, diskVars, fetchVars, resolve, modeVars, fetchedVars,
                 resultVars, resolve_exit>>

ReadLock ==
  /\ resolve = "sources"
  /\ unread = {}
  /\ current' = disk[LockPath]
  /\ resolve' = "dependency"
  /\ UNCHANGED <<remote, diskVars, fetchVars, modeVars, readVars, todo,
                 fetched, resultVars, resolve_exit>>

-----------------------------------------------------------------------------
(***************************************************************************)
(* resolve_dependencies, one dependency after the other, in their order.   *)
(***************************************************************************)

IsNext(r) ==
  /\ todo[r] > 0
  /\ \A s \in References :
       todo[s] > 0 => r.name < s.name \/ (r.name = s.name /\ r.at <= s.at)

Resolved(r) == todo' = [todo EXCEPT ![r] = @ - 1]

SkipLocal(r) ==
  /\ resolve = "dependency"
  /\ IsNext(r)
  /\ KindOf[r.name] = "local"
  /\ unresolved' = IF r.name \in Linked THEN unresolved
                   ELSE unresolved \cup {r}
  /\ Resolved(r)
  /\ UNCHANGED <<remote, diskVars, fetchVars, resolve, modeVars, readVars,
                 fetchedVars, errors, resolve_exit>>

\* A slip: an update keeps what is locked already.
InLock_Always(r) == current[r] # NoEntry

InLock(r) == ~update /\ current[r] # NoEntry

ReuseEntry(r) ==
  /\ resolve = "dependency"
  /\ IsNext(r)
  /\ KindOf[r.name] # "local"
  /\ InLock(r)
  /\ Resolved(r)
  /\ UNCHANGED <<remote, diskVars, fetchVars, resolve, modeVars, readVars,
                 fetchedVars, resultVars, resolve_exit>>

StayOffline(r) ==
  /\ resolve = "dependency"
  /\ IsNext(r)
  /\ KindOf[r.name] # "local"
  /\ ~InLock(r)
  /\ ~network
  /\ unresolved' = unresolved \cup {r}
  /\ Resolved(r)
  /\ UNCHANGED <<remote, diskVars, fetchVars, resolve, modeVars, readVars,
                 fetchedVars, errors, resolve_exit>>

\* What resolve_dependency refuses before any request: an orb that is not
\* asked for by exact version, a task that is not by its major one.
Refused(r) ==
  \/ KindOf[r.name] = "unsupported"
  \/ KindOf[r.name] = "orb" /\ r.at = Tag
  \/ KindOf[r.name] = "task" /\ r.at # Tag

\* An image pinned by digest needs no request.
FirstStage(r) ==
  IF KindOf[r.name] \in Hosted THEN "commit"
  ELSE IF KindOf[r.name] = "orb" THEN "versions"
  ELSE IF KindOf[r.name] = "https" THEN "direct"
  ELSE IF r.at # Tag THEN "merge"
  ELSE IF KindOf[r.name] = "image" THEN "token" ELSE "manifest"

StartFetching(r) ==
  /\ resolve = "dependency"
  /\ IsNext(r)
  /\ KindOf[r.name] # "local"
  /\ ~InLock(r)
  /\ network
  /\ ~Refused(r)
  /\ resolve' = FirstStage(r)
  /\ fetched' = IF FirstStage(r) = "merge"
                THEN [revision |-> r.at, content |-> r.at, summary |-> Tag]
                ELSE NoEntry
  /\ UNCHANGED <<remote, diskVars, fetchVars, modeVars, readVars, todo,
                 current, resultVars, resolve_exit>>

\* The key of a credential that is for no host in particular.
Default == <<"default", 0>>

\* What a run holds: the credentials it was given, and those the store has
\* under a key it looks for.
Credentials ==
  Bound \cup {key \in Store : key[2] \in {host.origin : host \in ConfiguredHosts} \cup {Default}}

\* resolver_credential: a registry request carries no credential of a
\* provider; another carries the one for its host, or, at an official host of
\* the provider, the default one.
Carries(r, u) ==
  LET provider == ProviderOf[r.name]
  IN  /\ resolve \notin {"token", "manifest"}
      /\ \/ <<provider, OriginOf(u)>> \in Credentials
         \/ /\ <<provider, OriginOf(u)>> \in Official
            /\ <<provider, Default>> \in Credentials

\* A registry is asked for a manifest by type, Docker Hub with its token.
HeadersOf(r) ==
  IF resolve # "manifest" THEN <<>>
  ELSE IF KindOf[r.name] = "image" THEN <<"accept", "authorization">>
  ELSE <<"accept">>

Ask(r) ==
  LET u == UrlOf[KindOf[r.name]][resolve]
  IN  /\ resolve \in RequestStages
      /\ IsNext(r)
      /\ BeginFetch(u, Carries(r, u), HeadersOf(r))
      /\ UNCHANGED <<remote, diskVars, resolve, modeVars, readVars, todo,
                     fetchedVars, resultVars, resolve_exit>>

\* What the provider is asked for.  The tag of a task is the main branch of
\* the tasks' repository, whatever the version.
Target(r) == IF r.at = Tag THEN remote[r.name] ELSE r.at

\* A slip: the archive is asked for by reference too.
HostedAnswer_ByTag(r) ==
  CASE resolve = "commit" -> [fetched EXCEPT !.revision = Target(r)]
    [] resolve = "archive" -> [fetched EXCEPT !.content = Target(r)]
    [] resolve \in {"source", "alternative"} ->
         [fetched EXCEPT !.summary = fetched.revision]

\* A lookup is by reference, an archive and a file are asked for by commit.
HostedAnswer(r) ==
  CASE resolve = "commit" -> [fetched EXCEPT !.revision = Target(r)]
    [] resolve = "archive" -> [fetched EXCEPT !.content = fetched.revision]
    [] resolve \in {"source", "alternative"} ->
         [fetched EXCEPT !.summary = fetched.revision]

\* The version found is the one asked for, its source is asked for by its id.
OrbAnswer(r) ==
  IF resolve = "versions" THEN [fetched EXCEPT !.revision = Target(r)]
  ELSE [fetched EXCEPT !.content = fetched.revision,
                       !.summary = fetched.revision]

\* A manifest is all there is of an image; its digest is the revision.
ImageAnswer(r) ==
  IF resolve = "token" THEN fetched
  ELSE [revision |-> Target(r), content |-> Target(r), summary |-> Tag]

DirectAnswer(r) ==
  [revision |-> Target(r), content |-> Target(r), summary |-> Target(r)]

\* What the server's answer says, at the moment it answers.
Answer(r) ==
  CASE resolve \in {"commit", "archive", "source", "alternative"} ->
         HostedAnswer(r)
    [] resolve \in {"versions", "contents"} -> OrbAnswer(r)
    [] resolve \in {"token", "manifest"} -> ImageAnswer(r)
    [] resolve = "direct" -> DirectAnswer(r)

ServerAnswers(r) ==
  /\ resolve \in RequestStages
  /\ IsNext(r)
  /\ AnswerAccepted
  /\ fetched' = Answer(r)
  /\ UNCHANGED <<remote, diskVars, resolve, modeVars, readVars, todo, current,
                 resultVars, resolve_exit>>

ExchangeStep ==
  /\ FetchStep
  /\ UNCHANGED <<remote, diskVars, resolve, modeVars, readVars, todo,
                 fetchedVars, resultVars, resolve_exit>>

Following(r) ==
  CASE resolve = "commit" -> "archive"
    [] resolve = "archive" ->
         IF KindOf[r.name] = "repository" THEN "merge" ELSE "source"
    [] resolve = "versions" -> "contents"
    [] resolve = "token" -> "manifest"
    [] OTHER -> "merge"

GotAnswer(r) ==
  /\ resolve \in RequestStages
  /\ IsNext(r)
  /\ exchange = "ok"
  /\ EndFetch
  /\ resolve' = Following(r)
  /\ UNCHANGED <<remote, diskVars, modeVars, readVars, todo, fetchedVars,
                 resultVars, resolve_exit>>

\* The semantic source is looked for under its names, and done without.
NoSource(r) ==
  /\ resolve \in {"source", "alternative"}
  /\ IsNext(r)
  /\ exchange = "failed"
  /\ EndFetch
  /\ resolve' = IF resolve = "source" /\ KindOf[r.name] = "action"
                THEN "alternative" ELSE "merge"
  /\ UNCHANGED <<remote, diskVars, modeVars, readVars, todo, fetchedVars,
                 resultVars, resolve_exit>>

Fails(r) ==
  /\ errors' = errors \cup {r}
  /\ unresolved' = unresolved \cup {r}
  /\ Resolved(r)
  /\ fetched' = NoEntry
  /\ resolve' = "dependency"
  /\ UNCHANGED current

FetchFails(r) ==
  /\ resolve \in RequestStages \ {"source", "alternative"}
  /\ IsNext(r)
  /\ exchange = "failed"
  /\ EndFetch
  /\ Fails(r)
  /\ UNCHANGED <<remote, diskVars, modeVars, readVars, resolve_exit>>

RefuseReference(r) ==
  /\ resolve = "dependency"
  /\ IsNext(r)
  /\ KindOf[r.name] # "local"
  /\ ~InLock(r)
  /\ network
  /\ Refused(r)
  /\ Fails(r)
  /\ UNCHANGED <<remote, diskVars, fetchVars, modeVars, readVars,
                 resolve_exit>>

\* lock_fetched: the entry replaces the one of the same reference.
LockFetched(r) ==
  /\ resolve = "merge"
  /\ IsNext(r)
  /\ r.name \in Allowed
  /\ current' = [current EXCEPT ![r] = fetched]
  /\ fetched' = NoEntry
  /\ Resolved(r)
  /\ resolve' = "dependency"
  /\ UNCHANGED <<remote, diskVars, fetchVars, modeVars, readVars, resultVars,
                 resolve_exit>>

LockRefused(r) ==
  /\ resolve = "merge"
  /\ IsNext(r)
  /\ r.name \notin Allowed
  /\ Fails(r)
  /\ UNCHANGED <<remote, diskVars, fetchVars, modeVars, readVars,
                 resolve_exit>>

-----------------------------------------------------------------------------
(***************************************************************************)
(* command_resolve ends: the lock is written when the network was used and *)
(* no fetch failed.                                                        *)
(***************************************************************************)

AllDone == resolve = "dependency" /\ \A r \in References : todo[r] = 0

\* EXIT_CODE_PASS and EXIT_CODE_INCOMPLETE.
ExitCode == IF errors = {} /\ unresolved = {} THEN 0 ELSE 3

\* What the process held in memory is gone with it.
Forget ==
  /\ todo' = [r \in References |-> 0]
  /\ current' = EmptyLock /\ fetched' = NoEntry
  /\ errors' = {} /\ unresolved' = {}

EndWith(code) ==
  /\ resolve' = "ended"
  /\ resolve_exit' = code
  /\ Forget
  /\ UNCHANGED <<remote, fetchVars, modeVars, readVars>>

KeepLock ==
  /\ AllDone
  /\ ~(network /\ errors = {})
  /\ EndWith(ExitCode)
  /\ UNCHANGED diskVars

\* A slip: the lock itself is opened for writing, and truncated.
CreateLock_InPlace ==
  /\ AllDone
  /\ network /\ errors = {}
  /\ disk' = [disk EXCEPT ![LockPath] = EmptyLock]
  /\ temporary' = [temporary EXCEPT !["resolve"] =
                     [state |-> "empty", path |-> LockPath]]
  /\ resolve' = "write"
  /\ UNCHANGED <<remote, fetchVars, modeVars, readVars, todo, fetchedVars,
                 resultVars, resolve_exit>>

CreateLock ==
  /\ AllDone
  /\ network /\ errors = {}
  /\ CreateTemporary("resolve", LockPath)
  /\ resolve' = "write"
  /\ UNCHANGED <<remote, fetchVars, modeVars, readVars, todo, fetchedVars,
                 resultVars, resolve_exit>>

WriteLock ==
  /\ resolve = "write"
  /\ FillTemporary("resolve", current)
  /\ UNCHANGED <<remote, fetchVars, resolve, modeVars, readVars, todo,
                 fetchedVars, resultVars, resolve_exit>>

ReplaceLock ==
  /\ resolve = "write"
  /\ RenameTemporary("resolve")
  /\ EndWith(ExitCode)

\* CliError::invalid.
LockWriteFails ==
  /\ resolve = "write"
  /\ WriteFails("resolve")
  /\ EndWith(2)

\* The process is killed, anywhere.
ResolveKilled ==
  /\ resolve \notin {"idle", "ended"}
  /\ resolve' = "idle"
  /\ Abort
  /\ Abandoned("resolve")
  /\ Forget
  /\ unread' = {} /\ wanted' = {}
  /\ UNCHANGED <<remote, modeVars, resolve_exit>>

ResolveStep ==
  \/ \E f \in Files : ReadSource(f)
  \/ ReadLock
  \/ \E r \in References :
       \/ SkipLocal(r) \/ ReuseEntry(r) \/ StayOffline(r)
       \/ StartFetching(r) \/ RefuseReference(r)
       \/ Ask(r) \/ ServerAnswers(r) \/ GotAnswer(r) \/ NoSource(r)
       \/ FetchFails(r) \/ LockFetched(r) \/ LockRefused(r)
  \/ ExchangeStep
  \/ KeepLock
  \/ CreateLock \/ WriteLock \/ ReplaceLock \/ LockWriteFails
=============================================================================
