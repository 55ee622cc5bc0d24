# workflow-verifier: models, checks and proofs

`workflow-verifier` analyses CI workflows (GitHub Actions, GitLab CI, Azure
Pipelines, CircleCI).  It is a Rust command line program (`src/src`) with a
language server, a dependency resolver that writes a lock file, a fixer that
pins references, and a sandbox that plans the steps of a job and runs them
through native helper programs (`src/helpers`).

Two kinds of things in it are hard to test.  Around the analysis there are
threads, processes, clocks and files: the language server's two threads, the
readers around every child process, redirects that carry credentials, a lock
and workflow files replaced while an editor is at work, three operating
systems' ways to contain a step.  The analysis itself is a pure function whose
inputs are too many to write tests for: a fixed point over a graph that four
front ends build, twelve rules whose conclusions contradict each other's
defaults, conditions joined along every path, caches that must never show.
Both are modelled here.

Paths below are relative to `src/` of the repository, and some are shortened:
`lsp.rs` is `src/application/lsp.rs`, `frontend`, `verifier`, `engine`,
`application`, `runner_protocol` and `helper_runtime` are the `mod.rs` of that
directory of `src/`, and `helpers/…` is the directory of that name.

- [Inventory](#inventory)
- [Modules](#modules)
- [State and actions against the code](#state-and-actions-against-the-code)
- [Runs](#runs)
- [Disagreements found](#disagreements-found)
- [Proofs](#proofs)
- [What is abstracted](#what-is-abstracted)
- [Not modelled](#not-modelled)
- [Plan](#plan)

## Inventory

| component | state it keeps | operations | interacts with | what makes it correct |
|---|---|---|---|---|
| request cancellation registry (`lsp.rs:22-92`) | active tokens, early cancellations, a bounded history of completed ids, a queue in step with it | start, cancel, finish | both LSP threads, under a mutex | an early cancellation is kept until its request starts, a late one is dropped; set and queue of the history agree |
| observed documents (`lsp.rs:94-202`) | versions, closed uris, tracked analyses and their tokens | observe, is_current, is_closed, start/track/finish_analysis | both LSP threads, under a mutex | an analysis of anything but the newest observed version is cancelled or never published |
| language server (`lsp.rs:204-1058`) | documents, the channel, the job under way, `shutdown` | a reader thread that observes, cancels and sends; a serving thread that receives, handles and writes | registry, observed documents, analysis engine | every request answered once and from the texts of its turn; diagnostics whole, current, and those of the last version once the server is idle |
| process runner of the helpers (`helper_runtime:883-1001`) | a counter shared by two reader threads, a flag, the captured bytes | spawn, read, poll, terminate, join | child, its descendants, their pipes | the two streams together within the limit; kept bytes are the first ones; a kill is reported; it returns |
| process supervisor of the command line (`application:656-785`) | captured bytes per stream, a shared flag | write the input, poll, kill, join | the helper process | the same per stream; a missing exit code is explained |
| sandbox run (`application:404-670`, `helper_runtime/native.rs`, `runner_protocol`, `sandbox/audit.rs`) | the plan and its source digest; the helper's private tree, step, chain of evidence; two clocks | capture, plan, launch, verify, copy, run each step, report, validate, audit, exit | supervisor, helper, editor of the source tree | steps see the source that was analysed; exit 0 only after every step succeeded; evidence is accepted when it is whole, and no damaged one is; an audit agrees with the run; it ends |
| platform adapters (`helpers/windows`, `helpers/linux`, `helpers/macos`, `helpers/vm-agent`) | controls installed so far, the process, its descendants, its output; the machine and the response file | prepare, launch, contain, run, terminate, observe | process runner, kernel or hypervisor | no instruction of a workload before every control is in force, none after it was answered for; the answer is the workload's |
| sandbox planning (`sandbox/planner.rs`, `sandbox/runner_plan.rs`) and the helpers' refusals (`runner_protocol:2043-2143`) | truth of every node reached, the queue of a walk, the plan | select, close, walk, order, make steps, validate | composed graph, helpers | a node has the truth of its best chain of conditions; a complete plan is the job DAG; what cannot be contained does not start |
| HTTPS client (`network.rs`) | redirect state: url, visited, count; credential and headers; a connection | get, resolve, check the addresses, connect directly or through a proxy, read the answer, redirect | resolver transport, DNS, proxies, servers | credentials and headers never leave the origin asked; no request goes to a special-purpose address or outside the profile; a bounded number of requests; a body is whole or refused |
| resolver (`application:2158-2293`, `product/resolver.rs`, `resolver_transport.rs`) | old lock, entries so far, the dependency and request under way | analyse, reuse, fetch, summarise, write | HTTPS client, lock file, workflow sources, registries | an entry is a snapshot of one revision; exit 0 means everything is in the lock; no entry is lost |
| lock and file replacement (`product/lockfile.rs`, `application:3105-3143`) | the lock, a temporary file | read, create, write, sync, rename | resolver, fixer | the old content or the new one, at every moment |
| fixer (`product/fixer.rs`, `application:2036-2103`) | proposed edits per file | propose, write file by file | lock, workflow files, editor | after exit 0 every fixed reference is pinned to what the lock says |
| analysis engine (`engine`) | parse and lowering caches and the dependency index of a session | analyse, cancel between stages, affected_sources, close, reset | LSP, check, resolve | a session answers what a fresh analysis answers; the index is the program's reachability |
| discovery and linking (`engine:1263-1378`, `product/local_linker.rs`) | a work list of paths | load, refer, resolve | front ends, engine | what is not read could not have been bound |
| front ends (`frontend`, 5186 lines) | none | lower each of four providers to a graph | abstract values, graph | the graph says of orders, conditions, privileges and calls what the document says, or says that it does not know |
| verifier (`verifier`) | values of the nodes, a queue | solve, search, dominate, twelve rules | graph | the least fixed point; what is Proved holds of the documents |
| configuration, policy, suppressions, gate (`product/config.rs`, `product/policy.rs`, `engine:560-660`) | none | find, trust, combine, search, decide | engine, command line | nothing a repository carries weakens the gate; an expired suppression does not suppress |
| YAML syntax, reports, foundation, credential stores, VM frames | none or a connection | parsing, rendering, platform calls | engine, helpers | not modelled, see below |

How they call one another: the LSP threads share the registry and the observed
documents and are joined by an unbounded channel; the serving thread calls a
session of the engine, `check`, `resolve` and `sandbox plan` a fresh one; the
engine parses, links, lowers, composes, solves and judges; the planner works
on the composed graph.  `sandbox run` starts a helper through the process
supervisor; the helper validates the plan again, copies the source and runs
each step through its platform's adapter, and the evidence comes back over its
output.  `resolve` fetches over the HTTPS client and replaces the lock; `fix`
reads the lock and replaces workflow files.  `PROJECT.json` lists every
component and every hazard at its line.

The behaviours that are hard:

* *Order of the two LSP threads.*  A message is observed by the reader before
  it is queued, so the server works on texts older than what is known; whatever
  it is doing may be cancelled between any two of its steps.
* *Ids and versions over time.*  Early, timely and late cancellations of ids
  that may be reused, against a history of bounded length; versions of
  documents that are closed and opened again.
* *Processes that do not end as asked.*  A child that leaves descendants which
  hold its pipes, exits while it is being killed, joins its process group late,
  or fills a pipe nobody reads.
* *Containment in many steps.*  A dozen platform calls, each of which may fail,
  or a broker that may die between any two of them, before the first
  instruction of a workload.
* *Two limits for one thing.*  The supervisor's and the helper's wall clocks;
  the controller's and the guest's; output limits counted by two threads.
* *A world that changes between two looks at it.*  The tag of a dependency
  between two requests, the source tree between digest and copy, a workflow
  file between proposal and write, a document between two requests that share
  a cache.
* *Failure in the middle.*  A fetch, a write, a step, a rename; a command that
  dies with a temporary file on disk.
* *Graphs with cycles.*  Work lists that must end, searches with a visited
  set, dominance, values joined along many paths; a rule that takes silence
  for proof.

## Modules

| module | models | composed from |
|---|---|---|
| `RequestCancellations` | the registry; one action per method | |
| `ObservedDocuments` | the observed documents; one operator per method | |
| `LspSession` | what a client is promised: an abstract, sequential session | |
| `LspServer` | both threads, the channel and every handler; the refinement mapping to `LspSession` at its end | instances of the three above |
| `ProcessTree` | processes, pipes and platform termination as the two runners use them | |
| `RunCommand`, `SuperviseProcess` | `run_command` of the helpers, `supervise_process` of the command line | `ProcessTree` |
| `Supervisors` | one of the two at work | both |
| `SandboxRun` | `sandbox run`, the helper, its steps, its evidence, the editor and time | `RunnerProtocol` |
| `ContainedStep` | what a platform adapter promises for one step | |
| `WindowsStep`, `LinuxStep`, `VmStep` | the three adapters; `VmStep` has the controller, the shim, the machine and the agent in it | |
| `NativeStep` | one step through whichever adapter was built, and that each implements `ContainedStep` | the three, `ContainedStep` |
| `SecureFetch` | `SecureHttpClient::get_with_headers`: URLs, redirect state, DNS answers, addresses, proxy, headers, framing of answers | |
| `ResolveCommand` | references, revisions, what `Lockfile` keeps; `atomic_write`; `command_resolve` with its fetches | `SecureFetch` |
| `PinWorkspace` | `command_fix`, and a workspace in which it and `resolve` run, tags move, an editor saves and processes die | `ResolveCommand` |
| `WorkflowGraph` | the product domain (value, trust, secrecy), the intermediate graph and the verifier's questions to it | |
| `Lowering` | what the four front ends share | `WorkflowGraph` |
| `GithubLowering`, `GitlabLowering`, `AzureLowering`, `CircleciLowering` | one front end each | `Lowering` |
| `Frontends` | programs of documents, and their composition | the four |
| `Dataflow` | `Dataflow::solve` | |
| `VerifierRules` | the twelve rules | `Lowering` |
| `Policy` | configuration, policy, suppressions, gate | `VerifierRules` |
| `Verifier` | an analysis from documents to exit code, one queued node at a time | `Dataflow`, `Policy`, `Frontends` |
| `RunnerProtocol` | what crosses the boundary to a helper and back: what each side asks of a plan, the chain of evidence, its validation, its audit | |
| `ScenarioPlanner` | from a scenario to a plan, and to the helper that takes or refuses it | `Frontends`, `RunnerProtocol` |
| `WorkspaceSources` | references, candidate paths, discovery, linking | |
| `AnalysisSession` | the engine's session under the language server, and `rename` | `WorkspaceSources` |
| `Corpus` | small documents of the four providers for the runs | `Frontends` |
| `GraphProofs` | lemmas about loops, recursion, closures and folds, which every recursive function here is an instance of, and what the searches of `WorkflowGraph` find | |
| `…Proofs` | the theorems about the module of that name; those of `RequestCancellations` are in `LspServerProofs`, those of `SecureFetch` and `ResolveCommand` in `PinWorkspaceProofs`, those of `Dataflow` in `VerifierProofs`, those of `SandboxRun` and `ScenarioPlanner` in `SandboxProofs` | |
| `MC…` | small instances | |

## State and actions against the code

**`RequestCancellations`.** `active`, `pending`, `completed`,
`completedOrder` are the fields of `CancellationState` (`lsp.rs:33`);
`cancelled` is the set of tokens whose flag is raised.  `Start`, `Cancel` and
`Finish` are the methods, each under one lock.  A token is named by its
request's id.

**`ObservedDocuments`.** `versions`, `closed`, `tracked` are the fields of
`ObservedDocumentState`; `ObserveText` and `ObserveClose` are the branches of
`observe`, the other operators are the methods of the same names.

**`LspServer`.** The reader has a `Read…` action for each message it treats
apart (it observes, or cancels, under the lock), then `ReaderSend`.  The
serving thread's `stage` is its program counter: `HandleText`, `HandleClose`,
`HandleRequest`, … start a handler; an analysis is `TrackNext`/`PublishStart`,
then `Analyse` in up to `MaxRounds` rounds, between which its token is looked
at; `RequestAnalysed` and `PublishAnalysed` end it.  `Ill` are the texts with
syntax problems, which are listed without an analysis, and `Refused` the sets of
texts for which an analysis is in error, whichever document's fault it is:
`Server::diagnostics` then publishes an empty list (`Listed`, `Report`), and a
request goes on with nothing.  `Publish` writes diagnostics, `Decide` is the last look at the token in `Server::request`,
`Respond` unregisters and answers.  `opened`, `status`, `asked` and `shown`
are what the client has and sees.  The method `"garble"` is a change that
`did_change` cannot apply (`IgnoreChange`).

**`ProcessTree`, `RunCommand`, `SuperviseProcess`.** `alive`, `held`, the
pipes and the group a process belongs to.  `Termination` is how the platform
kills (the child alone or its group); `JoinsLate` is the Linux step that joins
its cgroup after it was spawned.  There is a reader thread per stream and the
caller, with one action between any two accesses to what is shared: reading,
adding to the counter, keeping the clipped chunk; looking for the exit, at the
flag, at the clock; terminating, waiting, joining.

**`SandboxRun`.** `Plan`, `Launch`, `StartClock`, `Look`, `Terminate` and
`Check` are the command line's steps, `ReadPlan`, `Verify` to `Finish` and `Fail`
the helper's.  The clock starts once the plan is written, which for a plan larger
than the pipe (`InputFits`) is when the helper has read it, and the write fails
when the helper went away (`WriteFails`).  `Terminate` kills the helper; a native
step may run on, since only the helper's process group is killed with it.  The tree is walked one file at a time (`ReadFile`), and `Edit`
changes any file at any time; `StepReads` is a step looking at the tree it was
given, which for the OCI backend is the live one.  `EndStep` is any ending of a
step, `Finish` the one reading of the scratch tree and the closing records,
`Tick` advances both clocks.  `evidence` is the sequence of recorded bodies;
`Printed` is the document the helper prints of it, `Accepted` what the command
line makes of that.

**`RunnerProtocol`** has no state.  A plan on the wire is a record of what its
validation looks at; `Validated` is what both ends check, `NativeMain` and
`OciMain` what a helper process does with a plan and its arguments.
`EventChain` is the chain `Evidence::append` builds, where a digest is the list of
all it was computed from; `Valid`, `Parses` and `ValidForPlan` are the three
validations of a document, `AuditReasons` what speaks against a run in
`SandboxAudit::evaluate`.

**`WindowsStep`** (`helpers/windows/src/platform.rs`).  `Preparation` is the
sequence of platform calls of `prepare`, `Prepare` the next of them, `Refuse`
the failure of any; `Create`, `Assign`, `Inspect` and `Resume` are the stages of
`run_process` up to the first instruction of the workload; `WaitObject` and
`WaitTimeout` are the two ways a wait returns, with what is noted at each.  The
output file and its position are shared by the helper and whatever inherited
the handle (`Write`).

**`LinuxStep`** (`helpers/linux/src`).  `installed` is the sequence of controls
in force; `BrokerInstalls` and `ChildInstalls` put the next one of `BrokerSetup`
and `ChildSetup` in force, `Fork`, `Exec` and `Attest` are the broker's way to
the readiness file, and `BrokerFails` is any error on it, which ends in exit
code 126.  `KillBroker`, `KillCgroup` and `Terminate` are the helper's polling
loop, `Drop` the clean-up.

**`VmStep`** (`helpers/macos`, `helpers/vm-agent`).  `controller`, `shim`, `guest` and
`workload` are four program counters, `response` is the file between guest and
host, `hostClock` and `guestClock` run separately.  `AgentFails` and `PowerLost`
end the guest anywhere.

**`NativeStep`** chooses the adapter in its initial state and maps each to
`ContainedStep`: `secured` to its complete list of controls, `workload` to what
runs of it.

**`SecureFetch`.** `BeginFetch` builds the redirect state; `Connect` takes a DNS
answer and what a server or a proxy opens with, checks every address against
the special-purpose blocks (by arithmetic on IPv4 numbers, as the code does) and
sends the request; `FollowRedirect`, `AnswerRefused` and `AnswerAccepted` are what
the loop does with an answer.  A URL is a record of scheme, host, port and path
class; an answer has a status, its announced lengths, its transfer coding and
what arrived before the connection ended.  `home` is the URL asked, `url` where
the chain is, `visited` what the redirect state has seen; `sent` records each
request with what went along and the address it went to, `received` each body
that was accepted.

**`ResolveCommand`.** A file is replaced by `CreateTemporary`, `FillTemporary`,
`RenameTemporary`, and `WriteFails`, which removes the temporary file; a writer
that dies leaves it behind (`Abandoned`).  `ReadSource` and `ReadLock` collect the inputs of the
analysis, one file at a time.  The dependencies are then taken in order: each is
skipped (`SkipLocal`), kept (`ReuseEntry`), left unresolved (`StayOffline`) or
fetched by the sequence of requests its kind calls for (`StartFetching`, and for
each request an exchange of `SecureFetch` and `GotAnswer`), and then locked or
refused by the allowlist (`LockFetched`, `LockRefused`).  `CreateLock`,
`WriteLock` and `ReplaceLock` are the steps of the write; `KeepLock` is the end
that writes nothing.  `MoveTag` publishes a new revision under a tag whenever it
likes, also between two requests of one fetch.

**`PinWorkspace`** has `command_fix`: `FixReadSource` and `FixReadLock`, then
`Propose` or `CombineFails`, then the files one by one (`FixCreate`, `FixWrite`,
`FixReplace`).  What a file becomes is computed from the text and the lock the
command read, which it keeps until it ends.  A text is the sequence of the
places where a reference or its text occurs, each with its role: the `use` of it, the `other`
thing that happens to have the same text, such as the step's name, or a
`composed` reference, which the frontend assembles and no scalar spells.
`IsFound` is `find_scalar`, which goes by text alone and takes the first scalar;
GitHub's frontend keeps a dependency for every occurrence (`PerOccurrence`), so
that two uses make two proposals for that one scalar, and the others keep one
for all.  The command runs beside `resolve` over one disk, with an editor that
saves (`Edit`), and `ResolveKilled` and `FixKilled` at any point.

**Lowerings.** A document is a record of the fields the code reads, a field
that may be absent a sequence of at most one member; a reference in an
expression is one of the few names the code's tables tell apart, a condition
the set of valuations that satisfy it.  Every front end is a function from a
document to a graph, built by operators named for the functions of
`frontend` that they translate (`AddGate`, `AddCommand`, `LinkDependencies`,
`AddNeeds`, …).  A node is known by its place in the text, and `Finalize`
replaces places by dense identifiers in the same order, as `IrBuilder` does.
`Frontends` composes the graphs of a program as `compose_programs` does: a
call resolved to another document becomes an edge into it.

**`Verifier`.** `Init` lowers and composes a program and fills the work list,
`Solve` pops one queued node (`Dataflow!Propagate`), `RunRules` runs the rules
once the list is empty, and the last action judges one request: configuration,
policy, suppressions, gate, exit code.  `VerifierRules` has an operator per
rule, named for its function.

**`ScenarioPlanner`.** `Refuse` or `Select` a job with its closure, `VisitNode` for
each popped node of the planner's work list, `EndWalk`, `Emit` for each node
put in order, `Build` the plan with its reasons, and `RunPlan`, where it meets the
helper of the scenario's backend in `RunnerProtocol`.

**`AnalysisSession`.** `Begin`, `ParseSource` and `LowerSource` for each source,
`Link`, `Assemble`, `Verify`, `Answer` are the phases of `analyze`; `Cancel` raises
the token at any time, and `Stop` is the return at the next phase that looks at
it.  `parse_cache`, `lower_cache` and `reverse_dependencies` are the fields of that
name; `Edit`, `Close` and `Reset` are what the server does with a changed, a closed
document and changed files on disk.  `StartRename` and
`Restage` start the two analyses of a rename.  `Load` in `WorkspaceSources` is
what the command line reads instead.

## Runs

A cfg gives constants only.  Deadlock is not checked: sessions are bounded,
commands end, plans are done; where something must go on, a liveness property
says so.

| run | instance | what it shows |
|---|---|---|
| `lsp_safety` | 2 documents of one workspace, the first version of each with a syntax problem, for which the analysis of the other is in error, 1 id used again and again, versions 1–2, 3 messages in flight, 2 rounds per analysis, history of 1 | over every interleaving of the threads: the registry's invariant; a live publication is current; what is published or answered is whole and from the texts of its turn; requests are neither lost nor doubled, and cancelled only for a reason the client gave; an idle server displays of every document what `Server::diagnostics` makes of the last versions |
| `lsp_promise` | 2 documents, fresh ids, garbled changes, unknown calls, shutdown | the server refines `LspSession!FairSpec`; a cancellation registered before the last look at the token is honoured |
| `supervisors` | a process and 1 descendant; the helper's: pipes of 2 bytes, 2 bytes per stream against a combined limit of 2, late joining, a termination that may fail; the command line's: 3 bytes per stream against 1, input of 2 through a pipe of 1 | what is observed is exactly what was written up to the limit, an excess and a kill are reported, and the call returns unless a process that survived holds a pipe |
| `sandbox_run` | native, 2 files × 2 contents, 2 steps, a plan larger than the pipe, limit of 2 ticks, 1 path that steps write or delete | steps see the analysed source; a verdict is earned; evidence is accepted unless redaction has changed it, and none that has lost, doubled, moved, changed or cut off a record is; an audit agrees with the run; the command ends, and leaves a native step running only behind a helper it killed |
| `containment` | each adapter for one step: trees of 2 entries, output limit 1 of at most 3 bytes, clocks of 2 ticks | each adapter implements `ContainedStep` whatever fails or is killed when; answers are exact; Linux and macOS return |
| `pin_workspace` | 5 names (an action whose tag moves and whose step has its text for a name; a GitLab image that stands in a file twice and whose source is not, or no longer, allowed; a local file; an Azure repository, which no scalar names; an orb), 2 workflow files, 2 revisions, 4 URLs of 2 origins, 2 redirects, 1 edit | secrets stay at their origin, requests in the profile and at public addresses, fetches are bounded; a body that is hashed is whole; entries are snapshots of one revision, exit 0 of resolve means everything is locked, exit 0 of fix means it is pinned as far as the search by text reaches, and nothing else is changed; no step loses a lock entry |
| `verifier` | some 600 programs of the four providers and requests of every kind | the work list empties into the least fixed point; no cycle is missed; what taint reaches is seen by rule and policy; what is Proved holds of the documents; no configuration an analysed repository carries weakens the gate; a strict pass saw everything; suppressions expire |
| `planning` | programs whose jobs need, gate and call one another, across files and in cycles, for two events, and requests of every kind for one program | every node has the truth of its best walk; order follows edges and keeps levels, so the steps of a job stay in line; a complete plan of a GitHub job is the DAG its document describes; only work that can be contained starts; every scenario comes to a plan or a refusal |
| `analysis` | 2 GitHub workflows, 2 actions (one with both file names) and the workspace's own, used as `./`; an Azure pipeline with 3 templates, one of them reached by `../`; a step with a title and an id, an action with steps outside the program, a `needs` that dangles; 2 edits, a rename of `a` to `b` | a session answers as a fresh analyzer after any edits, closes, resets and cancellations; the dependency index is reachability, over templates of templates too; a granted rename makes no two jobs or untitled steps of the program's documents one, and who waits for whom stays; what the command line leaves unread does not matter, where references are spelled out from the top down |
| `fix_repeated`, `gitlab_rules`, `planning_scope` | | violations, see below |

**Why the bounds are enough.**  LSP: with two versions a document has an older
and a newer text; two documents of a workspace make publication and requests
depend on a sibling; three messages in flight hold an edit, a request and its
cancellation at once; two rounds give a look at the token in the middle of an
analysis; a second use of one id finds it in a history of one.  There is a single
id, so that nothing is ever evicted in the runs: that queue and set forget
together rests on the theorem `HistoryStaysInStep`.  The two LSP runs divide the messages, since
what a garbled change, an unknown call or a shutdown adds is independent of
reused ids.  Processes: one descendant suffices to hold a pipe after the child;
a limit that both streams together can pass, and one of them alone cannot,
makes the race of the counter visible.  Sandbox: two files let a walk see one
before and one after an edit, two steps let a plan fail in the middle, two
ticks separate the clocks' readings.  Containment: two entries tell a
directory from what is in it; three bytes let a write pass the limit and
another follow while the job is being terminated.  Workspace: two origins
allow a redirect chain to leave and come back, two revisions make a torn
snapshot possible, and the five names are a dependency that is locked, one
that is refused, one that needs no network, and two with other sequences of
requests; as scalars, one whose text something else has before it, one that
stands twice where the frontend keeps one, and one that no scalar spells.  Verifier and planner: the corpus varies, around one small document
per provider, each thing a rule, a gate or the planner asks about (trust of
the trigger and of each reference, permissions, scripts that log, quote or
share secrets, orders and cycles, needs, matrices, environments, templates,
orbs and commands with parameters, calls that are local, external, locked or
unresolved), and combines those that meet in one rule; calls go through up to
three documents and round a cycle.  Analysis: two edits let a document change
and change back, which is what a cache keyed by content must survive.

**Symmetry** is used over documents in `lsp_safety` only, which checks no
liveness.

**Fairness.**  `LspServer!FairSpec` asks weak fairness of `ReaderSend` (a
thread that has read a message sends it) and of `Serving` (a thread that can
proceed does): the operating system schedules both.  The client owes nothing.
`SupervisorsSpec` asks it of each reader thread, of the caller and of the
clock, and of the helper reading its input, as those in `helpers/` do; nothing of the
child's exit or of descendants, so what is promised is a return *unless* a
process that survived holds a pipe.  `SandboxRun` asks it of the command line
and of the clock, and of the helper only that it reads its input, since no clock
runs before it has (`application:707`); nothing of its steps or the editor.  `NativeSpec`
asks it of Linux's helper, its broker and its deadline, and of macOS's
controller and clock; a workload and a machine may hang for ever.  `Verifier`
asks it of `Solve` and `ScenarioPlanner` of its one thread, which nothing blocks.
`PinWorkspace` and `AnalysisSession` have no liveness: a server may keep a fetch
waiting up to a timeout that no model bounds, and a session does nothing unless
asked.

## Disagreements found

Each of the first three has a run, and an entry under `findings`.

1. **An action used twice in a file cannot be pinned** (`product/fixer.rs:175`,
   `fix_repeated`).  Both edits are made for the same first scalar; they
   overlap, and `fix` exits 4 with nothing changed.
2. **GitLab rules after the first are dropped** (`frontend:2548`,
   `gitlab_rules`).  The gate is the first rule with an `if`; later rules and
   every `when` are ignored, so AUTH-001 is Proved of a privileged job that a
   second rule admits anywhere.
3. **A condition above the gate before the job is not evaluated**
   (`sandbox/planner.rs:155`, `planning_scope`).  A GitLab job that is manual and has a
   rule, or an Azure job whose stage has a condition, is planned, completely,
   for an event that the rule or the condition denies.

The models also contain these; TLC shows them when the property they contradict
is asked of the instance named.

* *LSP.*  A document reopened at a lower version stays without diagnostics
  (`lsp.rs:142`; `didClose` keeps the entry in `versions`; versions that start
  again after a close).  A cancellation that precedes the reuse of a completed id
  is dropped as late (`lsp.rs:70`); one whose request never starts stays pending
  and cancels the next request of that id (`lsp.rs:71`).  A close does not publish
  siblings again (`lsp.rs:402`); the channel is unbounded (`lsp.rs:996`).  One
  document with a syntax error fails the analysis of its neighbours, which is
  published as an empty list, as if nothing had been found (`lsp.rs:526-534`,
  `lsp.rs:482-485`); `QuietIsSettled` allows an empty list for exactly that
  reason.
* *Processes.*  The process runner waits for pipes, not for its limit: after
  the polling loop the readers are joined, and a descendant that outlives an
  exited child keeps a pipe open (`helper_runtime:983`).  When termination
  fails, the error is returned and threads and child are left
  (`helper_runtime:974`); the supervisor writes the input before it looks at a
  clock (`application:707`).
* *Sandbox.*  The OCI helper checks the digest and then mounts the live tree
  (`helpers/oci/src/lib.rs:406`, `Backend = "oci"`).  A step at its limit may be
  reported as a helper that died, since the supervisor's limit is the same and
  starts earlier (`application:532`).  The evidence's outcome is not compared
  with its events: with `outputLimitExceeded` or `timedOut` and code 0 an audit is
  Verified though only a prefix of the steps ran (`runner_protocol:804`), and a
  deletion counts as a read there (`sandbox/audit.rs:70`).  Redaction can change
  the recorded argv of a step, whose evidence is then refused, after the run.  A
  step under OCI that itself exits with 125 is taken for the engine's failure
  (`helpers/oci/src/lib.rs:179`).  Temporary
  trees and cgroups stay behind when a helper is killed.  The kill reaches the
  helper's process group only, and that it failed is not looked at: a native step
  that left the group runs on after the command has exited
  (`application:768-785`).
* *Planner.*  `needs` leads from job to job, not from a job's last step, and the
  order is level by level (`frontend:1454-1477`, `sandbox/planner.rs:242-281`):
  the first command of a job may come before a later command of the job it needs,
  against the job DAG of `docs/threat-model.md:16-17`.  `OrderFollowsEdges`
  promises no more than the code keeps.  A gated job's own gate takes over its `needs` edges, so
  `job_closure` drops its prerequisites (`sandbox/planner.rs:124`); the entry
  point must be the alphabetically first source; the command line passes no
  helper digest, so plans for the native backends are always incomplete; caches,
  artifacts and deployments never make a plan incomplete, CircleCI's built-in
  steps and locked external calls are dropped silently; a GitLab `extends` makes
  every plan incomplete; `oci:<other engine>` makes a complete plan that the
  helper refuses.
* *Resolver and fixer.*  Two concurrent runs lose each other's entries
  (`application:2226`); reused entries are not held against the allowlist again
  (`product/resolver.rs:97`); a failed fetch of a semantic source means no
  summary, silently; Azure tasks are always resolved as branch `main`.  A save
  between proposal and write is overwritten, and a failure leaves some files
  written (`application:2097`).  The first scalar with the text of a locked reference is
  rewritten whatever it is, a step's name before its `uses` for example, and the
  use stays as it was (`product/fixer.rs:71`, `product/fixer.rs:293-307`); a
  composed reference has no scalar and is passed over in silence
  (`application:2072-2081`); of a provider whose references are deduplicated
  (all but GitHub) only the first use is pinned.  All three exit 0, and are what
  `FixPinsWhenPassed` exempts (`OutOfReach`).  The directory is not synced after a rename.
* *Discovery and linking.*  The loader goes by what a file's text spells, and misses
  `uses: ./` of a root `action.yml`, an action of the document's own directory, and
  templates on a path that climbs or stands still, such as `../` (`engine:1359-1400`),
  where `docs/compatibility.md:20-21` says that static commands read the files that
  can affect their result.  `LoadedIsEnough` excludes these references, and the
  instance has a `./` and a `../`.  The engine's entry points include nested pipelines, the loader's only root ones; `discover` skips `.hg`, `target`,
  `vendor` and others; the parse cache's key has no budget in it (`engine:438`);
  `affected_sources` ignores references that are unresolved or overridden by the
  lock.
* *LSP rename.*  A step with both a name and an id is known to the graph by its
  name (`frontend:2020-2028`), so renaming its unreferenced id to an existing id
  is granted; so is any name in an open document outside the program, such as an
  action that no open workflow uses, which is renamed without a comparison.  The
  instance does both; `RenameIsFaithful` says which names it does not compare.
  `definition` resolves from the workspace's root, the linker from the caller's
  directory.
* *Front ends.*  `${NAME}` in a script is not seen as a reference
  (`frontend:3041-3075`); no cycle search finds recursive CircleCI commands; a
  CircleCI approval never dominates as a gate; environments of GitHub workflows
  and jobs, and values of GitLab variables, are not lowered; GitLab stages are
  chained in alphabetical order.
* *Policy.*  Suppressed policy diagnostics still fail the gate (`engine:641-646`);
  only the command line checks expiry (the engine passes no date).
  `docs/rules.md:13-15` calls an expired suppression a finding, the command line
  refuses the configuration that has it (exit of invalid input); both stop the
  run.


## Proofs

`tlapm` checks these for every value of the constants.  The assumptions are
the named `ASSUME`s of the modules, which TLC evaluates in every run: types of
the parameters, distinct names for ids and documents, at least one file, step
and unit of each limit; in `PinWorkspace`, that the lock a workspace starts
with holds snapshots; in `SecureFetch`, that configured prefixes are the ones
`normalize_prefix` lets in and that a DNS answer that is not empty has a first
address; in `Dataflow`, that the nodes are finitely many and the values a join
semilattice, which TLC verifies for the values that the `verifier` run
uses; in `ScenarioPlanner`, that a program's graph has
finitely many nodes and edges between its nodes (`Plannable`), that a scenario's backend
is one there is, and that no exclusion is the empty word; in `AnalysisSession`, that `PathOrder` is a sequence and has every document of
the client; in `Verifier`, that the semilattice is the domain's values with
`join_assign`, that every program of the instance has only nodes, edges and
attributes of those, finitely many, that no option names more than one file, that expiry dates
are triples of numbers and that the clock shows a year of four digits
(`LastDay`, 9999-12-31, after which `valid_date` and the order of the texts
no longer go with the calendar).

| theorem | argument |
|---|---|
| `RegistryTypeOK`, `HistoryStaysInStep`, `RunningNeverCompleted`, `EarlyCancellationRetained`, `CancellationNeverUndone` | the invariant adds to the types that the queue has no repetition and holds exactly the completed ids; without it eviction could remove an id from the set and keep it in the queue |
| `RegistryStaysSound` | the registry's invariant is carried into the server: every step of either thread is a step of the registry or leaves it alone |
| `ServerTypeOK`, `NothingLeaksBetweenJobs`, `NoStalePublicationRunsOn`, `ResultsAreWhole` | `IInv` ties the registries to the program counter: an idle server tracks nothing and has no active token, what is tracked belongs to the job under way.  That is what makes `LivePublicationIsCurrent` inductive: an observed change reaches the tokens that are tracked, so every live one has to be |
| `PublicationsAreWhole`, `NothingPartialIsSent` | from `FreshVersions` (each text of a document has a greater version than the last).  `PInv` adds that no message or document is ahead of the observed version, that a raised token means a superseded or closed version, and that an analysis is cut short only by a raised token |
| `EveryRequestIsAccountedFor`, `CancellationIsHonoured` | from `FreshIds` and, for the first, no garbled change.  Both follow `Sent`, the line of messages that are read and not yet taken up.  `Conserved`: a waiting request is in the line once or is the job.  `AInv`: handling what is before a message brings its document to the version the message was sent about (`Shows`), so no change is refused and every request meets its text.  `CInv`: a cancellation that was sent is in `pending` until its request runs and raises its token from then on, and a raised token of a request has been asked for or has a newer text behind it.  With reused ids the last fails: a late cancellation of an evicted id is taken for its next use |
| `WhatIsShownIsCurrent` | from `FreshVersions` and no garbled change.  `QInv`, on top of `PInv` and `AInv`: a document is displayed in full, is about to be published by the job, or has a message on its way (`ShownOrDue`); a job passes over only documents with a message on its way (`NonePassedOver`), because one without is as its client shows it and so current |
| `ServerKeepsSession` | from `FreshIds` and `FreshVersions`; garbled changes are allowed.  `LspSession` is seen through `Displayed` (the version of what the client displays) and `Excused` (the waiting requests that may be refused: withdrawn, or with the news of a document behind them in the line).  `Forward` says that of each document the version displayed, the one held and those on their way only grow, and none is ahead of the newest.  Then each step is taken on its own: reading is the client's step and excuses exactly those a change overtakes, taking up a message changes nobody's excuse, a publication moves a display forward, a refusal has its reason in the line |
| `RunTypeOK`, `CombinedLimitHolds`, `ObservationIsExact`, `KillsAreReported`, `EverySupervisionIsExact` | `RInv` accounts for every byte: what was written is in a pipe, in a thread's hands or in the counter (`BytesCounted`), and what both threads have kept or are about to keep is exactly the lesser of counter and limit (`BytesKept`), so their shares of the limit never overlap.  For the command line's supervisor `CInv` says it per stream: what is kept and what is in the pipe is what was written, until the thread cuts; a thread stops at the end of its stream or past its limit, so a pipe closed early means the flag |
| `SandboxTypeOK`, `NativeStepsSeePlannedSource`, `VerdictsAreEarned` | `TreesAgree` says which of the planned tree, the helper's digest and its private copy are equal at which stage; `EndingsMatchStage` which endings a stage stands for |
| `EvidenceIsAccepted` | `EvidenceShape` is the exact sequence of records at each stage of the helper: two attestations, a start and an exit per step (`StartedSteps`, `Exited`), the four closing ones.  From it `WhereTheyAre` has the places of every kind, and counting them (`TwiceCounts`) what `validate_for_plan` asks (`RecordsAreThePlans`).  The chain is a matter of sequences (`LinkedOn`, `ChainFields`): an event out of place has the wrong number (`OutOfPlace`), an edited one the wrong digest (`WrongBody`), and a document cut short lacks the final record, which is its last (`Shortened`) |
| `NativeStepInvariant`, `EveryAnswerIsExact`, `EveryAdapterContains` | one invariant per platform: how far the adapter is says which prefix of the controls is in force, who runs, and what has been counted of the output.  With it every step of an adapter maps to a step of `ContainedStep` or a stutter, which is the refinement |
| `FetchInvariant`, `SecretsNeverLeave`, `FetchesAreBounded`, `RequestsGoOutside`, `FetchesAreConfined` | proved for `SecureFetch!FetchNext` (a secret is held only at home; the visited URLs are counted by the redirects; an address is checked in the step that sends to it) and carried to the workspace: every step of `PinWorkspace` is a step of the fetch or leaves it alone (`WorkspaceStepIsFetchStep`).  That the code's masks and comparisons are the registries' blocks is a lemma of arithmetic (`AllowedV4IsGlobal`) |
| `BodiesAreWhole` | only an answer that is accepted ends a fetch well, so this is about `decode_http1`, for bodies at the limit and beyond, whatever the limit.  `decode_chunked` recurs over what is left of the wire (`ChunksAreDecoded`, by `RecursionExists`); on a wire that was cut off or runs on, a chunk is read whole or the body is refused (`ReadChunk`), and only the empty chunk ends one (`ReadLast`).  Under a length the cut that has it is the whole wire (`CutsOf`), and a header that contradicts the frame is a second one of its name or refused |
| `LockInvariant`, `LockedEntriesAreSnapshots`, `NoEntryIsLost` | `LockInv` has, for each request of a fetch, what is already known about the revision (`FetchedInv`), that both the lock on disk and the one in memory hold snapshots, that the one in memory keeps what was read (`KeepsInv`), and that the temporary file does too (`TemporaryInv`), since a rename makes it the lock |
| `PassedRunsAreLocked` | `PassInv`: while nothing is unresolved, every reference that was read is still to be done or settled in the lock in memory (`DoneIsSettled`); that lock is the one on disk as long as the network is off (`OfflineChangesNothing`); and what a lookup answered is no older than the run (`AnswerIsFresh`), since tags only move forward |
| `PassedFixesArePinned` | of every provider, for texts with scalars of every role.  `FixInv`: an undisturbed file is as it was read, or, once written, as proposed (`WrittenAsProposed`).  Of the scalars with the text of a reference one is found (`SomeScalarIsFound`); where each occurrence has its own proposal, two uses make two for the same scalar and overlap (`TwoUsesOverlap`); so if no two overlap, each scalar that is found is pinned, and a use that is not is out of the search's reach.  What fails instead of passing is the run `fix_repeated` |
| `RepositoryNeverWeakens` | `VerdictAnswers`: the verdict stays the answer to its request on results that no longer change.  The rest is about one decision.  Without the tree the configuration is the same one or the built-in one, and then the one it replaces had passed `validate_repository` (`ApartOrBuiltIn`); such a configuration shows no fewer diagnostics than the built-in one, its persona fails no less (`GateIsWeakest`), and its policy only adds to what fails, so `UntrustedIsStricter` |
| `SuppressionsAlwaysExpire` | from the same invariant.  The days before a year and a month have closed forms (`DaysBeforeIs`, `DayIs`); valid dates come in the order of their days, whichever part they differ in (`BeforeCountsDays`); and `utc_date_from_days`, era by era, year by year and month by month, yields for every day a valid date that is that day (`DateIsOfItsDay`) |
| `SessionStaysTransparent` | `SInv`: the parse cache holds under every key what parsing that text under that path yields (`ParsesAreTrue`), the lowering cache what lowering a parsed text yields (`LoweringsAreTrue`), so nothing depends on when, or for which earlier request, an entry was made.  Within a request what is compiled and what is still to do are together the roots (`RootsAreTaken`), each compiled from the text in force; so after linking the program is the stateless one (`ProgramIsLinked`).  The least path of a set exists by well-foundedness |
| `WalkIsBest` | for any program, cycles included.  `WalkInv` counts what the queue holds as seen.  `Sound`: for each level of truth, what is seen lies in every set that holds the starts and is closed under the walk's rule; `Thorough`: everything that follows in one step from what has been found is found or queued.  When the queue is empty the two say that what was found is the least closed set, which is what `Reached` is (`ReachedIsLeast`, from `ClosureIsLeast`), so no order of visits overstates or loses a truth |
| `OrderIsKept` | `OrderInv`: what is emitted is emitted once, and, unless a node waits for itself, stands behind all it waits for (`Ordered`); what is ready is emitted with its level (`Eager`), so that levels come whole (`Leveled`), which is what keeps the steps of one job in line, and says nothing about the commands of two jobs.  A batch that is forced because nothing is ready is what a cycle makes: following unmet edges backwards within a finite remainder comes back to where it was |
| `ContainedWork` | `AnswerInv` ties the stage to what exists: before the launch a plan that is not refused has the steps of the walk and asks on the wire what its scenario asks (`Ready4Launch`); then each check of the plan's builder is compared with the helper's own, backend by backend |
| `SolverReachesFixpoint`, `SolverInventsNothing` | `DInv`: the queue has every node once at most, and every edge whose source is not queued is absorbed by its target (`Absorbed`), every node keeps its own attributes (`KeepsOwn`).  An empty queue then leaves no edge open.  `Least` is kept because a join of two values below a solution is below it |
| `PathIsReach`, `TaintAlwaysSeen` | A search is a function that calls itself last; `LoopExists` says that there is such a function, ending or not, and `GrowthEnds` that one that only adds to a set, out of a finite one, ends with the least set that is closed under its step: that is `Spread` (`SpreadIsLeast`).  For the breadth-first search the length of the queue and the targets not yet seen together fall by one with every step, and each node that was seen is the end of a waiting path or has all its successors seen (`Searching`).  `TaintInv` then adds to `DInv` that every untrusted value was brought along the edges by an untrusted attribute; the other way round the nodes with untrusted values are closed under the edges once the queue is empty (`TaintIsReach`).  Joining, and so joining all attributes of a node, keeps a taint and makes none (`JoinAllTaint`).  Both walks of the policy follow a superset of the rules' edges |

Only model-checked:

* All liveness, which the prover cannot do: the liveness half of
  `ImplementsSession`, `CallsReturn`, `EndsQuietly`, `AdaptersReturn`,
  `WorkListEmpties`, `PlanIsReached`.
* What relates a verdict or a plan to the documents, across the folds by which a
  front end builds its graph: `ProvedIsSafe`, `AuthorizationProvedIsGated`,
  `CyclesAreReported`, `StrictPassSawAll` and `CompleteIsTheDag`.  The places the
  lowerings give their nodes are distinct for documents of the instance's size
  only, so a proof for every document would be one about another numbering.
* What goes through the recursion over documents and paths: `AffectedIsReach`,
  `RenameIsFaithful` and `LoadedIsEnough`.  The cases in which the code does less
  than a reader of it expects are in the statements of the last two, and in the
  instance; which template is linked for which provider is a matter of the whole
  chain that reaches it (`UsedAs`), not of its path.

Induction theorems that take an operator cannot be used; a recursive *function*
can be reasoned about all the same.  `DaysBefore` has a closed form, and a set
that has zero and is closed under successor has every number (`Upwards`, from
the well-foundedness of `<`).  A function that calls itself last needs none
(`LoopExists`); one that only adds to a set is the least closed set
(`ClosureIsLeast`); one whose arguments grow smaller exists (`RecursionExists`),
and so does a fold over a finite set (`FoldExists`).

## What is abstracted

* Ids, texts, digests and credentials are atoms, compared for equality.
  A digest stands for its content: no collisions.
* Steps that touch nothing shared are merged: the client's write and the
  reader's decoding; `recv` and the start of a handler; `finish_analysis` and
  `is_current`; `start_analysis` and the first `track_analysis`.  Each pair is
  under one lock or has nothing observable in between that is not also
  observable before or after it.
* State local to a call is cleared when the call ends.
* *LSP.*  The contents of hovers, completions, code actions and edits and the
  cache of semantic tokens are left out; that the session's caches do not show
  is the business of `AnalysisSession`.
* *Processes.*  Failures to spawn and errors of `read`, `try_wait` and `wait`
  are left out; a termination may fail.
* *Sandbox.*  In `SandboxRun` planning, supervision and the containment of a
  step are one action each with the outcomes their own modules find.  One body
  of evidence stands for the records of one loop; that a secret was masked in
  an output is left out; what the steps changed is chosen when the run ends.
  What a Landlock rule, a seccomp filter, an access list or a hypervisor lets
  through is theirs.
* *Network.*  TLS authenticates the server and notices a cut connection; sizes
  are a few bytes; hosts and paths are segments.  The parsing of a URL from text
  and certificate chains are left out.
* *Front ends and verifier.*  A document is its structure, not its text: YAML,
  the grammar of expressions and conditions and the lexing of scripts are left
  out, and so are provenance, witnesses and messages.  A condition is a set of
  valuations of a few atoms (the planner's "the event is a push" is one of
  them), which is what a decision diagram of `domain/condition.rs` denotes.
  Reasons for incompleteness are one.
  The nonempty attributes of a call stand for a lock digest.  Images and other
  dependencies without a call are not in the documents, so a strict failure
  through an unresolved one of these is left out, and `StrictPassSawAll` is about
  calls of GitHub steps; that the build knows its commit, which a strict pass
  needs too, is the constant `SourceCommit`.  `CompleteIsTheDag` compares what
  is planned and says nothing of its order.
* *Policy.*  Selectors by provider or path, per-path suppressions and TOML are
  left out.  A policy's own markers for a script's effects are shorter than the
  verifier's; scripts that only one of the two recognises are left out.  A date is its three numbers, whose texts have fixed widths; a sign
  in the text of one (`2026-+5-01`, which `str::parse::<u32>` takes and which
  sorts before every digit) is left out.
* *Analysis session.*  Configuration, lock and budget are the built-in ones, as
  the language server's are; path components are compared whole where the
  loader searches for substrings.  The server's `logical_identity` puts an
  action outside `.github` in another workspace, hence the instance's paths.
* *Planner.*  Steps are "posix" or not supported.  CircleCI scenarios are not in
  the instance.

## Not modelled

* The YAML parser (`syntax/yaml.rs`): pure, without state or order, and its
  correctness is a round trip over texts, which the repository's own corpus
  tests; TLC would enumerate strings.
* Reports, SARIF, graphs, semantic diff, dependency summaries' text and the
  other renderings: formatting of a finished analysis.
* Foundation (spans, digests, JSON, budgets), SHA-256 and the framing between
  controller and agent: conversions, represented by atoms and equality.
* Credential stores: calls to the platform's key store.
* `explain`, `graph`, `diff`, `doctor`, `rules`, `completion`, `auth`, `init`:
  one output each from their inputs, no state.
* The parsing of a scenario and the manifest of a source tree, temporary
  directories and their clean-up, and the OCI client's own failures.
* Two concurrent runs of `resolve`: nothing in the code serialises them, and
  the hazard stays listed without a property.
* The earlier OCaml implementation, with which the Rust crate is compared.

## Plan

In order of what is most worth knowing next.

1. The temporary trees of `helper_runtime` with crashes and restarts: what
   remains on disk after a helper that was killed, and whether a later run can
   be disturbed by it.
2. The manifest of the source tree (`sandbox/source_manifest.rs`): that the
   exclusions and symbolic links of planner and helper agree.
3. Scenario parsing and the selectors of policies; URL parsing.
