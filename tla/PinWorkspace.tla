----------------------------- MODULE PinWorkspace -----------------------------
(***************************************************************************)
(* One workspace in which `resolve` keeps the lock and `fix` pins the      *)
(* workflow files by it, while somebody edits the files, tags move at the  *)
(* providers and either command may be killed between any two of its       *)
(* steps.  The commands meet in the file system only.                      *)
(*                                                                         *)
(* The `fix` command (application::command_fix, product/fixer.rs) reads    *)
(* the workflow files and the lock, proposes to pin every locked           *)
(* dependency, verifies the result in memory, and with --apply replaces    *)
(* the files one after the other.  An edit is the position of a scalar and *)
(* what it becomes.  The rewritten text always compiles.                   *)
(***************************************************************************)
EXTENDS ResolveCommand

VARIABLES
  fix,          \* where the command is
  apply,        \* --apply
  unseen,       \* workflow files not yet read
  source,       \* for each file the text that was read
  lock,         \* the lock that was read
  changes,      \* the changed files still to be written
  fix_exit,     \* the exit code
  undisturbed   \* history: nobody else has written since the files were read

inputVars == <<apply, unseen, source, lock>>
fixVars == <<fix, inputVars, changes, fix_exit, undisturbed>>

FixInit ==
  /\ fix = "idle" /\ fix_exit = 0
  /\ apply = FALSE
  /\ unseen = {}
  /\ source = [f \in Files |-> <<>>]
  /\ lock = EmptyLock
  /\ changes = {}
  /\ undisturbed = FALSE

-----------------------------------------------------------------------------
FixStart(a) ==
  /\ fix = "idle"
  /\ fix' = "sources"
  /\ apply' = a
  /\ unseen' = Files
  /\ undisturbed' = TRUE
  /\ UNCHANGED <<diskVars, source, lock, changes, fix_exit>>

FixReadSource(f) ==
  /\ fix = "sources"
  /\ f \in unseen /\ \A g \in unseen : f <= g
  /\ unseen' = unseen \ {f}
  /\ source' = [source EXCEPT ![f] = disk[f]]
  /\ UNCHANGED <<diskVars, fix, apply, lock, changes, fix_exit, undisturbed>>

FixReadLock ==
  /\ fix = "sources"
  /\ unseen = {}
  /\ lock' = disk[LockPath]
  /\ fix' = "propose"
  /\ UNCHANGED <<diskVars, apply, unseen, source, changes, fix_exit,
                 undisturbed>>

-----------------------------------------------------------------------------
(***************************************************************************)
(* FixProposal: pin_dependency, combine, apply_verified.                   *)
(***************************************************************************)

Locked(text) == {r \in Used(text) : lock[r] # NoEntry}

\* The scalars find_scalar takes for the reference, whatever they are for.
Scalars(text, r) ==
  {i \in DOMAIN text : text[i].role # "composed" /\ text[i].reference = r}

\* find_scalar returns the first one.
IsFound(text, i) ==
  /\ i \in Scalars(text, text[i].reference)
  /\ \A j \in Scalars(text, text[i].reference) : i <= j

\* The locked references pin_dependency has a proposal for; of the others the
\* command says nothing.
Proposals(text) == {r \in Locked(text) : Scalars(text, r) # {}}

\* A slip: proposals are combined without looking at one another.
Overlaps_Never(text) == FALSE

\* Two proposals of one file edit the same scalar: combine refuses them all.
Overlaps(text) == \E r \in Proposals(text) : Dependencies(text, r) > 1

\* `name@tag` becomes `name@revision`.
Pinned(mention) ==
  [mention EXCEPT !.reference.at = lock[mention.reference].revision]

After(text) ==
  [i \in DOMAIN text |->
     IF text[i].reference \in Proposals(text) /\ IsFound(text, i)
     THEN Pinned(text[i]) ELSE text[i]]

Proposed == {f \in Files : Proposals(source[f]) # {}}

Ends(code) ==
  /\ fix' = "ended"
  /\ fix_exit' = code

\* CliError::internal, before anything is written.
CombineFails ==
  /\ fix = "propose"
  /\ \E f \in Proposed : Overlaps(source[f])
  /\ Ends(4)
  /\ UNCHANGED <<diskVars, inputVars, changes, undisturbed>>

Propose ==
  /\ fix = "propose"
  /\ \A f \in Proposed : ~Overlaps(source[f])
  /\ changes' = Proposed
  /\ fix' = "write"
  /\ UNCHANGED <<diskVars, inputVars, fix_exit, undisturbed>>

FixDone ==
  /\ fix = "write"
  /\ changes = {} \/ ~apply
  /\ Ends(0)
  /\ UNCHANGED <<diskVars, inputVars, changes, undisturbed>>

\* The changed files are written in order.
FixCreate(f) ==
  /\ fix = "write"
  /\ apply
  /\ f \in changes /\ \A g \in changes : f <= g
  /\ CreateTemporary("fix", f)
  /\ UNCHANGED fixVars

FixWrite ==
  /\ fix = "write"
  /\ FillTemporary("fix", After(source[temporary["fix"].path]))
  /\ UNCHANGED fixVars

FixReplace ==
  /\ fix = "write"
  /\ RenameTemporary("fix")
  /\ changes' = changes \ {temporary["fix"].path}
  /\ UNCHANGED <<fix, inputVars, fix_exit, undisturbed>>

\* The files before this one stay changed.
FixWriteFails ==
  /\ fix = "write"
  /\ apply /\ changes # {}
  /\ WriteFails("fix")
  /\ Ends(2)
  /\ UNCHANGED <<inputVars, changes, undisturbed>>

FixKilled ==
  /\ fix \notin {"idle", "ended"}
  /\ fix' = "killed"
  /\ Abandoned("fix")
  /\ unseen' = {} /\ changes' = {}
  /\ source' = [f \in Files |-> <<>>] /\ lock' = EmptyLock
  /\ UNCHANGED <<apply, fix_exit, undisturbed>>

FixStep ==
  \/ \E f \in Files : FixReadSource(f) \/ FixCreate(f)
  \/ FixReadLock
  \/ CombineFails \/ Propose \/ FixDone
  \/ FixWrite \/ FixReplace \/ FixWriteFails

-----------------------------------------------------------------------------
(***************************************************************************)
(* The workspace.                                                          *)
(***************************************************************************)
CONSTANTS
  Moving,      \* the names whose tags move
  StartTexts,  \* what the files contain at first
  StartLocks,  \* what earlier runs of `resolve` may have left
  Drafts,      \* the texts the editor may save
  MaxEdits     \* how often it does

\* An entry of which every part is of the revision it records, and that is the
\* pinned one where the reference is pinned.
Snapshot(r, entry) ==
  /\ entry.content = entry.revision
  /\ entry.summary \in {Tag, entry.revision}
  /\ r.at # Tag => entry.revision \in {Tag, r.at}

ASSUME WorkspaceAssumption ==
  /\ Moving \subseteq Names
  /\ \A start \in StartLocks :
       start \in Locks /\ \A r \in References : Snapshot(r, start[r])
  /\ StartTexts \subseteq [Files -> Texts]
  /\ Drafts \subseteq Texts
  /\ MaxEdits \in Nat

VARIABLE edits      \* how often the editor has saved

vars == <<remote, diskVars, resolveVars, fixVars, edits>>

Init ==
  /\ \E texts \in StartTexts, start \in StartLocks :
       disk = [p \in {LockPath} \cup Files |->
                 IF p = LockPath THEN start ELSE texts[p]]
  /\ temporary = [w \in {"resolve", "fix"} |-> NoFile]
  /\ ResolveInit
  /\ FixInit
  /\ edits = 0

Edit(f, text) ==
  /\ edits < MaxEdits
  /\ disk[f] # text
  /\ disk' = [disk EXCEPT ![f] = text]
  /\ edits' = edits + 1
  /\ undisturbed' = FALSE
  /\ UNCHANGED <<remote, temporary, resolveVars, fix, inputVars, changes,
                 fix_exit>>

Resolving(action) == action /\ UNCHANGED <<fixVars, edits>>
Fixing(action) == action /\ UNCHANGED <<remote, resolveVars, edits>>

Next ==
  \/ \E n \in Moving : Resolving(MoveTag(n))
  \/ \E u, n \in BOOLEAN : Resolving(ResolveStart(u, n))
  \/ Resolving(ResolveStep)
  \/ Resolving(ResolveKilled)
  \/ \E a \in BOOLEAN : Fixing(FixStart(a))
  \/ Fixing(FixStep)
  \/ Fixing(FixKilled)
  \/ \E f \in Files, text \in Drafts : Edit(f, text)

Spec == Init /\ [][Next]_vars

-----------------------------------------------------------------------------
TypeOK ==
  /\ FetchTypeOK
  /\ remote \in [Names -> Revisions]
  /\ disk[LockPath] \in Locks
  /\ \A f \in Files : disk[f] \in Texts
  /\ resolve \in RequestStages \cup
       {"idle", "sources", "dependency", "merge", "write", "ended"}
  /\ current \in Locks /\ fetched.revision \in {Tag} \cup Revisions
  /\ errors \subseteq unresolved
  /\ fix \in {"idle", "sources", "propose", "write", "ended", "killed"}
  /\ lock \in Locks /\ changes \subseteq Files
  /\ \A f \in Files : source[f] \in Texts
  /\ resolve \in RequestStages \/ exchange = "idle"

\* resolver_transport.rs fetches a dependency by several requests, between
\* which its tag may move: an entry of the lock, its digest and its summary are
\* nevertheless of one and the same revision.
EntriesAreSnapshots ==
  \A r \in References : Snapshot(r, disk[LockPath][r])

\* command_resolve and resolve_dependencies: exit 0 says that every reference
\* the run read, local ones apart, is in the lock on disk, and after --update
\* at a revision its tag had at the start of the run or later.
PassMeansLocked ==
  resolve = "ended" /\ resolve_exit = 0 =>
    \A r \in wanted :
      \/ KindOf[r.name] = "local"
      \/ /\ disk[LockPath][r] # NoEntry
         /\ update /\ r.at = Tag =>
              disk[LockPath][r].revision >= before[r.name]

\* command_resolve and atomic_write: whatever fails, and whenever the command
\* is killed, the lock never loses the entry of a reference it had.
LockNeverForgets ==
  [][\A r \in References :
       disk[LockPath][r] # NoEntry => disk'[LockPath][r] # NoEntry]_vars

\* The search by text does not reach a use that no scalar spells, nor one that
\* is not the first scalar with its text: where that one is no use, or where
\* the frontend keeps one dependency for all uses.
OutOfReach(text, i) ==
  LET r == text[i].reference
  IN  \/ text[i].role = "composed"
      \/ \E j \in Scalars(text, r) \ {i} :
           /\ IsFound(text, j)
           /\ text[j].role = "other" \/ ~PerOccurrence(r)

\* A text in which every use of a locked reference stands at its locked
\* revision, unless it is out of reach, and nothing is new but, for a locked
\* reference the text uses, the first scalar that has its text.
FullyPinned(text, after) ==
  /\ DOMAIN after = DOMAIN text
  /\ \A i \in DOMAIN text :
       LET r == text[i].reference
       IN  /\ i \in Uses(text) /\ lock[r] # NoEntry =>
                after[i] = Pinned(text[i]) \/ OutOfReach(text, i)
           /\ after[i] # text[i] =>
                /\ after[i] = Pinned(text[i])
                /\ r \in Locked(text) /\ IsFound(text, i)

\* command_fix: after `fix --apply` has exited 0, and nobody else has written
\* since it started, every file is the one it read with its locked references
\* pinned, as far as the search by text reaches.  In a GitHub workflow none is
\* left as it was for being used twice.
FixPinsWhenPassed ==
  fix = "ended" /\ fix_exit = 0 /\ apply /\ undisturbed =>
    \A f \in Files : FullyPinned(source[f], disk[f])

\* The same of every `fix --apply` whose writes do not fail.
FixPins ==
  fix = "ended" /\ fix_exit # 2 /\ apply /\ undisturbed =>
    \A f \in Files : FullyPinned(source[f], disk[f])
=============================================================================
