--------------------------- MODULE AnalysisSession ---------------------------
(***************************************************************************)
(* The analyses of the language server: the open documents of a workspace, *)
(* the session that keeps parsed and lowered documents between requests,   *)
(* and one analysis at a time, which looks at its cancellation token       *)
(* between its phases (engine/mod.rs, Server::diagnostics and analysis).   *)
(* A rename is two of them: of the documents as they are, and as they would*)
(* be (Server::rename).  Configuration, lock and budget are the built-in   *)
(* ones in every request.                                                  *)
(***************************************************************************)
EXTENDS WorkspaceSources

CONSTANTS
    PathOrder,      \* the logical paths of the workspace, sorted
    Texts(_),       \* the texts a document may have
    Opened,         \* what may be open when the session starts
    Renames,        \* what a rename may ask for: a word and its new name
    MaxEdits        \* bound on the edits of a behaviour

ASSUME WorkspaceAssumption ==
    /\ PathOrder \in Seq(ToSet(PathOrder))
    /\ \A opened \in Opened : DOMAIN opened \subseteq ToSet(PathOrder)

VARIABLES
    documents,      \* path -> text, of the open documents
    parse_cache,    \* key -> parsed document
    lower_cache,    \* key -> compilation
    reverse_dependencies,  \* pairs of a local target and the source that uses it
    pc,             \* the phase of the analysis under way
    requested,      \* the document whose diagnostics are computed
    rename,         \* the rename that asks for them, if one does
    sources,        \* the texts that were given to the analysis
    todo,           \* the paths compile_sources has not come to, which it takes in order
    compilations,   \* what it compiled, and what they were linked with
    cancelled,      \* the token
    answer,         \* what the last request came to
    edits

sessionVars == <<parse_cache, lower_cache, reverse_dependencies>>
runVars == <<pc, requested, rename, sources, todo, compilations, cancelled>>
vars == <<documents, sessionVars, runVars, answer, edits>>

Paths == ToSet(PathOrder)
Empty == [k \in {} |-> k]
Put(key, value, kept) ==
    [k \in {key} \cup DOMAIN kept |-> IF k = key THEN value ELSE kept[k]]
First(S) == PathOrder[CHOOSE i \in DOMAIN PathOrder :
                          PathOrder[i] \in S /\ \A k \in 1 .. i - 1 : PathOrder[k] \notin S]
Open == DOMAIN documents

-----------------------------------------------------------------------------
(* The caches.                                                             *)
ParseKey(path, text) == <<path, text>>
LowerKey_PathOnly(path, text) == <<ProviderOf(path), path>>
LowerKey(path, text) == <<ProviderOf(path), path, text>>

CachedParse(cache, path, text) ==
    IF ParseKey(path, text) \in DOMAIN cache THEN cache[ParseKey(path, text)]
    ELSE Parsed(path, text)
WithParsed(cache, path, text) ==
    Put(ParseKey(path, text), CachedParse(cache, path, text), cache)

WithAll(cache, texts, paths) ==
    [key \in DOMAIN cache \cup {ParseKey(p, texts[p]) : p \in paths} |->
        IF key \in DOMAIN cache THEN cache[key] ELSE Parsed(key[1], key[2])]

-----------------------------------------------------------------------------
(* Server::analysis_with_replacements: the requested document as it is and *)
(* the others that parse without an invalid region.                        *)
Included(document) == HasRoot(document) /\ ~HasInvalidRegions(document)
Analyse(path, texts, cache) ==
    /\ parse_cache' = WithAll(cache, texts, Open \ {path})
    /\ sources' = [p \in {path} \cup {q \in Open : Included(Parsed(q, texts[q]))} |-> texts[p]]
    /\ todo' = Roots(sources')
    /\ pc' = "begin"
    /\ answer' = <<>>
    /\ compilations' = {}

Answered(kind, found) == [path |-> requested, kind |-> kind, compilations |-> found]
Refuse(path, kind) ==
    /\ answer' = [path |-> path, kind |-> kind, compilations |-> {}]
    /\ sources' = Empty /\ compilations' = {} /\ todo' = {}
    /\ pc' = "idle"

Idle == pc = "idle"
NoRename == [word |-> "", name |-> "", before |-> <<>>]

Request(path) ==
    /\ Idle /\ path \in Open
    /\ requested' = path
    /\ rename' = NoRename
    /\ cancelled' = FALSE
    /\ LET own == WithParsed(parse_cache, path, documents[path])
       IN  IF HasProblems(own[ParseKey(path, documents[path])])
           THEN Refuse(path, "syntax") /\ parse_cache' = own
           ELSE Analyse(path, documents, own)
    /\ UNCHANGED <<documents, lower_cache, reverse_dependencies, edits>>

-----------------------------------------------------------------------------
(* Server::rename.  A word may be renamed when every line that has it, in  *)
(* any open document, declares it or is an execution-order reference.      *)
Lines(word) ==
    UNION {{documents[p].lines[i] : i \in {k \in DOMAIN documents[p].lines :
                                            documents[p].lines[k].word = word}} : p \in Open}
RenameAllowed(word) ==
    /\ \E line \in Lines(word) : Declares(line)
    /\ \A line \in Lines(word) : Declares(line) \/ line.form = "needs"

Replaced(text, word, name) ==
    [text EXCEPT !.lines = [i \in DOMAIN text.lines |->
        IF text.lines[i].word = word THEN [text.lines[i] EXCEPT !.word = name]
        ELSE text.lines[i]]]
Staged == [p \in Open |-> Replaced(documents[p], rename.word, rename.name)]

StartRename(path, word, name) ==
    /\ Idle /\ path \in Open
    /\ \E i \in DOMAIN documents[path].lines : documents[path].lines[i].word = word
    /\ name # word
    /\ requested' = path
    /\ cancelled' = FALSE
    /\ IF RenameAllowed(word)
       THEN /\ rename' = [word |-> word, name |-> name, before |-> <<>>]
            /\ Analyse(path, documents, parse_cache)
       ELSE /\ rename' = NoRename
            /\ Refuse(path, "refused")
            /\ UNCHANGED parse_cache
    /\ UNCHANGED <<documents, lower_cache, reverse_dependencies, edits>>

(* analysis_projection: the nodes and edges of the program, with a name in *)
(* place of every identity, and with the new name read as the old one.     *)
(* A titled step is known by its title; a command keeps its text too; a    *)
(* reference to a job that is not there is no edge (link_dependencies).    *)
Owner(lines, i) ==
    LET jobs == {k \in 1 .. i : lines[k].form = "job"}
    IN  IF jobs = {} THEN "" ELSE lines[CHOOSE k \in jobs : \A l \in jobs : l <= k].word
Read(word, reading) == IF word = reading.of THEN reading.as ELSE word
Element(lines, i, reading) ==
    LET line == lines[i]
        word == Read(line.word, reading)
        owner == Read(Owner(lines, i), reading)
    IN  CASE line.form = "job" -> <<"job", word>>
          [] line.form = "step" -> <<"step", word, owner>>
          [] line.form = "titled" -> <<"step", "", owner>>
          [] line.form = "needs" -> <<"needs", word, owner>>
          [] OTHER -> <<"command", word, line.word>>
InGraph(lines, i) ==
    lines[i].form = "needs" =>
        \E k \in DOMAIN lines : lines[k].form = "job" /\ lines[k].word = lines[i].word
Places(program) ==
    UNION {{<<c, i>> : i \in {k \in DOMAIN c.lines : InGraph(c.lines, k)}} : c \in program}
Projection(program, reading) ==
    LET at(x) == Element(x[1].lines, x[2], reading)
    IN  [e \in {at(x) : x \in Places(program)} |->
            Cardinality({x \in Places(program) : at(x) = e})]
AsWritten == [of |-> "", as |-> ""]
ReadBack == [of |-> rename.name, as |-> rename.word]
SameProgram_BothRead(before, after) ==
    Projection(before, ReadBack) = Projection(after, ReadBack)
SameProgram(before, after) ==
    Projection(before, AsWritten) = Projection(after, ReadBack)

(* Every document that changes still parses, with the problems it had.     *)
Reparses ==
    \A p \in Open : Staged[p] # documents[p] =>
        /\ HasRoot(Parsed(p, Staged[p])) /\ ~HasInvalidRegions(Parsed(p, Staged[p]))
        /\ Problems(Staged[p]) = Problems(documents[p])

Renaming == rename.word # ""
(* The first of the two analyses has ended.                                *)
Restage ==
    /\ pc = "restage"
    /\ IF cancelled \/ ~Reparses
       THEN Refuse(requested, "refused") /\ UNCHANGED <<parse_cache, rename>>
       ELSE /\ rename' = [rename EXCEPT !.before = <<compilations>>]
            /\ Analyse(requested, Staged, parse_cache)
    /\ UNCHANGED <<documents, lower_cache, reverse_dependencies, requested, cancelled, edits>>

-----------------------------------------------------------------------------
Checkpoints == {"begin", "parse", "lower", "assemble", "verify", "answer"}

Give(kind, found) ==
    /\ pc' = "idle"
    /\ answer' = Answered(kind, found)

(* check_cancelled.                                                        *)
Stop ==
    /\ pc \in Checkpoints /\ cancelled
    /\ Give("cancelled", {})
    /\ UNCHANGED <<documents, sessionVars, requested, rename, sources, todo, compilations,
                   cancelled, edits>>

Proceed(phase) == pc = phase /\ ~cancelled

NextSource(left) == IF left = {} THEN "link" ELSE "parse"

Begin ==
    /\ Proceed("begin")
    /\ pc' = NextSource(todo)
    /\ UNCHANGED <<documents, sessionVars, requested, rename, sources, todo, compilations,
                   cancelled, answer, edits>>

ParseSource ==
    /\ Proceed("parse")
    /\ parse_cache' = WithParsed(parse_cache, First(todo), sources[First(todo)])
    /\ pc' = "lower"
    /\ UNCHANGED <<documents, lower_cache, reverse_dependencies, requested, rename, sources, todo,
                   compilations, cancelled, answer, edits>>

LowerSource ==
    LET path == First(todo)
        key == LowerKey(path, sources[path])
        document == CachedParse(parse_cache, path, sources[path])
        compilation == IF key \in DOMAIN lower_cache THEN lower_cache[key]
                       ELSE Compiled(ProviderOf(path), path, document)
    IN  /\ Proceed("lower")
        /\ IF key \notin DOMAIN lower_cache /\ Refused(document)
           THEN Give("error", {}) /\ UNCHANGED <<lower_cache, todo, compilations>>
           ELSE /\ lower_cache' = Put(key, compilation, lower_cache)
                /\ compilations' = compilations \cup {compilation}
                /\ todo' = todo \ {path}
                /\ pc' = NextSource(todo')
                /\ UNCHANGED answer
        /\ UNCHANGED <<documents, parse_cache, reverse_dependencies, requested, rename, sources,
                       cancelled, edits>>

Link ==
    /\ pc = "link"
    /\ LET linked == LinkLocal(sources, compilations)
       IN  IF linked.failed
           THEN Give("error", {}) /\ UNCHANGED compilations
           ELSE /\ compilations' = linked.compilations
                /\ pc' = "assemble"
                /\ UNCHANGED answer
    /\ UNCHANGED <<documents, sessionVars, requested, rename, sources, todo, cancelled, edits>>

(* replace_dependency_index: a resolved reference is kept under its target,*)
(* an unresolved one under its own words, which name no source.            *)
IndexOf_Owner(S) == UNION {{<<c.path, r[2]>> : r \in c.resolved} : c \in S}
IndexOf(S) == UNION {{<<r[2], c.path>> : r \in c.resolved} : c \in S}

Assemble ==
    /\ Proceed("assemble")
    /\ reverse_dependencies' = IndexOf(compilations)
    /\ pc' = "verify"
    /\ UNCHANGED <<documents, parse_cache, lower_cache, requested, rename, sources, todo,
                   compilations, cancelled, answer, edits>>

Verify ==
    /\ Proceed("verify")
    /\ pc' = "answer"
    /\ UNCHANGED <<documents, sessionVars, requested, rename, sources, todo, compilations,
                   cancelled, answer, edits>>

Answer ==
    /\ Proceed("answer")
    /\ IF Renaming /\ rename.before = <<>>
       THEN pc' = "restage" /\ UNCHANGED answer
       ELSE Give(IF ~Renaming THEN "outcome"
                 ELSE IF SameProgram(rename.before[1], compilations) THEN "renamed"
                 ELSE "refused", compilations)
    /\ UNCHANGED <<documents, sessionVars, requested, rename, sources, todo, compilations,
                   cancelled, edits>>

(* The reading thread, which marks the token of what was overtaken.        *)
Cancel ==
    /\ ~Idle /\ ~cancelled
    /\ cancelled' = TRUE
    /\ UNCHANGED <<documents, sessionVars, pc, requested, rename, sources, todo, compilations,
                   answer, edits>>

(* did_open and did_change, and did_close; what was answered before is the *)
(* client's.                                                               *)
Forget ==
    /\ sources' = Empty /\ todo' = {} /\ compilations' = {} /\ answer' = <<>>
    /\ requested' = Head(PathOrder) /\ rename' = NoRename /\ cancelled' = FALSE
    /\ edits' = edits + 1
    /\ UNCHANGED pc
Edit(path, text) ==
    /\ Idle /\ edits < MaxEdits
    /\ path \in Open => documents[path] # text
    /\ documents' = Put(path, text, documents)
    /\ Forget
    /\ UNCHANGED sessionVars
Close(path) ==
    /\ Idle /\ edits < MaxEdits /\ path \in Open
    /\ documents' = [p \in Open \ {path} |-> documents[p]]
    /\ Forget
    /\ UNCHANGED sessionVars

(* workspace/didChangeWatchedFiles: a session of its own.                  *)
Reset ==
    /\ Idle /\ edits < MaxEdits
    /\ parse_cache' = Empty /\ lower_cache' = Empty /\ reverse_dependencies' = {}
    /\ Forget
    /\ UNCHANGED documents

Init ==
    /\ documents \in Opened
    /\ parse_cache = Empty /\ lower_cache = Empty /\ reverse_dependencies = {}
    /\ pc = "idle" /\ requested = Head(PathOrder) /\ rename = NoRename
    /\ sources = Empty /\ todo = {} /\ compilations = {}
    /\ cancelled = FALSE /\ answer = <<>> /\ edits = 0

Analysis == Restage \/ Begin \/ ParseSource \/ LowerSource \/ Link \/ Assemble \/ Verify \/ Answer \/ Stop

Next ==
    \/ Analysis \/ Cancel \/ Reset
    \/ \E path \in Paths, r \in Renames : StartRename(path, r[1], r[2])
    \/ \E path \in Paths :
        Request(path) \/ Close(path) \/ \E text \in Texts(path) : Edit(path, text)

Spec == Init /\ [][Next]_vars

-----------------------------------------------------------------------------
(* AffectedSources: what a change of a source is a reason to analyse again.*)
Affected(index, changed) ==
    LET affected[S \in SUBSET (changed \cup {e[2] : e \in index})] ==
            LET more == S \cup {e[2] : e \in {x \in index : x[1] \in S}}
            IN  IF more = S THEN S ELSE affected[more]
    IN  affected[changed]

(* The analysis of the same sources by an Analyzer, which keeps nothing.   *)
Stateless ==
    LET linked == LinkLocal(sources, CompiledRoots(sources))
    IN  IF (\E p \in Roots(sources) : Refused(Parsed(p, sources[p]))) \/ linked.failed
        THEN Answered("error", {}) ELSE Answered("outcome", linked.compilations)

(* The references that lead from one source of the program to another: a   *)
(* source is read for the provider of the root that it was reached from.   *)
UsedAs(provider) ==
    UNION {{<<p, q>> : q \in UNION {LocalCandidates(p, d) \cap DOMAIN sources :
                                     d \in Collected(provider, sources[p].items)}} :
              p \in DOMAIN sources}
ReachedAs(provider) ==
    LET reached[S \in SUBSET DOMAIN sources] ==
            LET more == S \cup {e[2] : e \in {x \in UsedAs(provider) : x[1] \in S}}
            IN  IF more = S THEN S ELSE reached[more]
    IN  reached[{p \in Roots(sources) : ProviderOf(p) = provider}]
Relevant == UNION {ReachedAs(v) : v \in Providers}
Uses == UNION {{e \in UsedAs(v) : e[1] \in ReachedAs(v)} : v \in Providers}
Reaching(targets) ==
    LET reaching[S \in SUBSET (targets \cup DOMAIN sources)] ==
            LET more == S \cup {e[1] : e \in {x \in Uses : x[2] \in S}}
            IN  IF more = S THEN S ELSE reaching[more]
    IN  reaching[targets]

Said(kind) == answer # <<>> /\ answer.kind = kind

(* Whatever the session has parsed, lowered and forgotten before, and      *)
(* whatever was cancelled half way, an analysis that ends says what a      *)
(* fresh Analyzer would say of the same texts.                             *)
SessionIsTransparent ==
    /\ Said("outcome") \/ (Said("error") /\ ~Renaming) => answer = Stateless
    /\ Said("renamed") => answer.compilations = Stateless.compilations

(* After an outcome the index knows, for every source the program is made  *)
(* of, exactly the sources of the program that reach it by references, over*)
(* any number of actions in between and round any cycle.                   *)
AffectedIsReach ==
    Said("outcome") \/ Said("renamed") =>
        \A p \in Relevant :
            Affected(reverse_dependencies, {p}) = {p} \cup (Reaching({p}) \cap Relevant)

(* The names that jobs and steps of a document are known by, and which of  *)
(* its lines make a job wait for which job.                                *)
Named(lines) ==
    {lines[i].word : i \in {k \in DOMAIN lines : lines[k].form \in {"job", "step"}}}
Order(lines) ==
    {x \in (DOMAIN lines) \X (DOMAIN lines) :
        /\ lines[x[1]].form = "needs" /\ lines[x[2]].form = "job"
        /\ lines[x[1]].word = lines[x[2]].word}
ProgramPaths == {c.path : c \in compilations}

(* A rename that is granted gives no job or untitled step of a document the*)
(* name of another of it, and the jobs that wait for one another are those *)
(* that did.  Two kinds of names are not compared: the id of a step that   *)
(* has a title as well, which the program knows by its title alone, and    *)
(* those of a document that is open and not part of the program, such as an*)
(* action that no open workflow uses.                                      *)
RenameIsFaithful ==
    Said("renamed") =>
        \A p \in Open \cap ProgramPaths :
            LET before == documents[p].lines
            IN  /\ rename.word \in Named(before) => rename.name \notin Named(before)
                /\ Order(Staged[p].lines) = Order(before)

(* A reference that spells its target from the top down.  Not so `./`, the *)
(* action of the workspace itself, nor that of the document's own          *)
(* directory, nor a path that climbs or stands still on its way.           *)
Downward(words) ==
    IsSuffix(Normal(words), words) /\ Len(words) <= Len(Normal(words)) + 1
SpelledOut(path, d) ==
    /\ Downward(d.words)
    /\ d.kind = "action" => Normal(d.words) \notin {<<>>, Parent(path)}

(* The command line reads enough: what it left unread of the same files    *)
(* changes nothing of what its references are bound to, when all that its  *)
(* linking reaches spells its references out.                              *)
LoadedIsEnough ==
    LET loaded == Load(documents)
        every == [p \in Discovered(Open) |-> documents[p]]
        roots == CompiledRoots(loaded)
        whole == LinkLocal(every, roots)
        found == LinkLocal(loaded, roots)
    IN  /\ Idle
        /\ \A c \in found.compilations : \A d \in c.dependencies : SpelledOut(c.path, d)
        => found = whole
=============================================================================
