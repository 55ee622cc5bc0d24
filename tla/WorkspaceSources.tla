-------------------------- MODULE WorkspaceSources --------------------------
(***************************************************************************)
(* What a document refers to: the references a front end collects          *)
(* (collect_dependencies in frontend/mod.rs) and the paths of the          *)
(* workspace that one of them may stand for (product/local_linker.rs).     *)
(* A path is the sequence of its names; what a document writes is the      *)
(* sequence that `split('/')` makes of it, with "." and ".." and with ""   *)
(* in front of an absolute one.                                            *)
(***************************************************************************)
EXTENDS Naturals, Sequences, FiniteSets, SequencesExt

CONSTANTS
    YamlNames,   \* the file names with the extension yml or yaml
    Excluded     \* the source exclusions of a trusted configuration

IsYaml(path) == path # <<>> /\ Last(path) \in YamlNames
Parent(path) == IF path = <<>> THEN <<>> ELSE Front(path)
ActionFiles == {"action.yml", "action.yaml"}

(* An entry of a document that makes a reference: the key it is under, the *)
(* words written there, and what follows an "@": nothing, "self" or an     *)
(* alias or revision.                                                      *)
Item(key, words) == [key |-> key, words |-> words, at |-> "none"]

GithubKinds == [uses |-> "action", docker |-> "image"]
GitlabKinds ==
    [include |-> "include", remote |-> "include", local |-> "include",
     component |-> "component", template |-> "library", project |-> "repository",
     trigger |-> "include", image |-> "image"]
AzureKinds == [task |-> "task", template |-> "template", repository |-> "repository"]
CircleciKinds == [orb |-> "orb", image |-> "image"]
Providers == {"github", "gitlab", "azure", "circleci", "none"}
KindsOf(provider) ==
    CASE provider = "github" -> GithubKinds
      [] provider = "gitlab" -> GitlabKinds
      [] provider = "azure" -> AzureKinds
      [] OTHER -> CircleciKinds

Collected(provider, items) ==
    LET kinds == KindsOf(provider)
    IN  {[kind |-> kinds[i.key], words |-> i.words, at |-> i.at] :
            i \in {x \in items : x.key \in DOMAIN kinds}}

-----------------------------------------------------------------------------
(* normalize_relative: no path of the workspace begins with "..".          *)
Outside == <<"..">>
Descend(stack, word) ==
    IF stack = Outside THEN Outside
    ELSE IF word \in {"", "."} THEN stack
    ELSE IF word = ".." THEN IF stack = <<>> THEN Outside ELSE Front(stack)
    ELSE Append(stack, word)
Normal(words) == FoldLeft(Descend, <<>>, words)

(* local_candidates: an action is looked for from the root of the          *)
(* workspace, a file or in a directory; an include from the root too; a    *)
(* template from its caller's directory unless it is absolute.             *)
Spelled(caller, d) ==
    CASE d.kind = "action" /\ Head(d.words) \in {".", ".."} ->
             IF IsYaml(d.words) THEN <<d.words>>
             ELSE <<d.words \o <<"action.yml">>, d.words \o <<"action.yaml">>>>
      [] d.kind = "include" /\ d.at = "none"
           /\ (IsYaml(d.words) \/ Head(d.words) \in {"", ".", ".."}) -> <<d.words>>
      [] d.kind = "template" /\ d.at \in {"none", "self"} ->
             <<IF Head(d.words) = "" THEN d.words ELSE Parent(caller) \o d.words>>
      [] OTHER -> <<>>

LocalCandidates(caller, d) ==
    LET spelled == Spelled(caller, d)
    IN  {Normal(spelled[i]) : i \in DOMAIN spelled}
Escapes(caller, d) == Outside \in LocalCandidates(caller, d)

-----------------------------------------------------------------------------
(***************************************************************************)
(* One source compiled, and link_local: the sources that compiled ones     *)
(* refer to in the snapshot are compiled too, and every local reference is *)
(* bound to the content of its target (product/local_linker.rs).           *)
(* A text is its shape to the YAML parser, the entries that make a         *)
(* reference, the lines that declare or mention a name, and whether the    *)
(* rules find something in it.                                             *)
(***************************************************************************)
(* What the parser makes of a text: "clean", a "region" it could not read,  *)
(* an "unmarked" syntax problem that leaves no such region (a flow entry   *)
(* without its colon, a malformed block scalar header), a "repeated" key,  *)
(* or "empty", no content at all.                                          *)
Declares(line) == line.form \in {"job", "step", "titled"}
(* Two jobs of one name are a repeated key.                                *)
Problems(text) ==
    {<<kind, "">> : kind \in {text.shape} \ {"clean", "empty"}}
      \cup {<<"repeated", text.lines[i].word>> : i \in
               {k \in DOMAIN text.lines : \E l \in DOMAIN text.lines :
                    l < k /\ text.lines[l] = text.lines[k] /\ text.lines[k].form = "job"}}
Parsed(path, text) == [file |-> path, text |-> text]
HasProblems(document) == Problems(document.text) # {}
HasInvalidRegions(document) == document.text.shape = "region"
HasRoot(document) == document.text.shape # "empty"

(* compile_parsed: what syntax problems a frontend refuses to lower.       *)
Refused(document) == ~HasRoot(document) \/ document.text.shape \in {"region", "unmarked"}
Compiled(provider, path, document) ==
    [provider |-> provider, path |-> path,
     dependencies |-> Collected(provider, document.text.items), resolved |-> {},
     lines |-> document.text.lines, finding |-> document.text.finding]

Failed == [failed |-> TRUE, compilations |-> {}]
Linked(compilations) == [failed |-> FALSE, compilations |-> compilations]

Matches(sources, caller, d) == LocalCandidates(caller, d) \cap DOMAIN sources
Target(sources, caller, d) == CHOOSE c \in Matches(sources, caller, d) : TRUE

(* The targets that a compilation's references name and the snapshot has.  *)
TargetsOf(sources, c) == UNION {Matches(sources, c.path, d) : d \in c.dependencies}
Unlinkable(sources, c) ==
    \E d \in c.dependencies :
        Escapes(c.path, d) \/ Cardinality(Matches(sources, c.path, d)) > 1

(* The work list: each compilation in turn brings in the targets that were *)
(* not compiled for its provider before, compiled from their sources.      *)
Follow(sources, roots) ==
    LET known == roots \cup UNION {{Compiled(v, p, Parsed(p, sources[p])) : v \in Providers} :
                                      p \in DOMAIN sources}
        follow[list \in Seq(known), index \in Nat] ==
            IF index > Len(list) THEN Linked(ToSet(list))
            ELSE LET provider == list[index].provider
                     seen == {c.path : c \in {x \in ToSet(list) : x.provider = provider}}
                     new == TargetsOf(sources, list[index]) \ seen
                     added == {Compiled(provider, t, Parsed(t, sources[t])) : t \in new}
                 IN  IF \/ Unlinkable(sources, list[index])
                        \/ \E t \in new : Refused(Parsed(t, sources[t]))
                     THEN Failed
                     ELSE follow[list \o SetToSeq(added), index + 1]
    IN  follow[SetToSeq(roots), 1]

ApplyResolutions(sources, c) ==
    [c EXCEPT !.resolved =
        {<<d, Target(sources, c.path, d), sources[Target(sources, c.path, d)]>> :
            d \in {x \in c.dependencies : Matches(sources, c.path, x) # {}}}]

LinkLocal(sources, roots) ==
    LET followed == Follow(sources, roots)
    IN  [followed EXCEPT !.compilations =
            {ApplyResolutions(sources, c) : c \in followed.compilations}]

-----------------------------------------------------------------------------
(***************************************************************************)
(* WorkspaceLoader::load (engine/mod.rs), for the command line: of all the *)
(* files of a directory only those are read that a provider starts from or *)
(* that a file read before seems to mention, going by its text alone; and  *)
(* what the analysis of a set of sources starts from.                      *)
(***************************************************************************)
PipelineFiles ==
    {<<".gitlab-ci.yml">>, <<"azure-pipelines.yml">>, <<"azure-pipelines.yaml">>,
     <<".circleci", "config.yml">>, <<".circleci", "config.yaml">>}
InWorkflows(path) == IsPrefix(<<".github", "workflows">>, path) /\ Len(path) > 2
EntrypointPath(path) == (InWorkflows(path) /\ IsYaml(path)) \/ path \in PipelineFiles

(* detect and entrypoint: a provider knows its files by their end, but a   *)
(* workflow stands in that directory itself.                               *)
EndsLike(path, file) == IsSuffix(file, path)
ProviderOf(path) ==
    IF InWorkflows(path) \/ Last(path) \in ActionFiles THEN "github"
    ELSE IF EndsLike(path, <<".gitlab-ci.yml">>) THEN "gitlab"
    ELSE IF \E file \in PipelineFiles : Len(file) = 1 /\ EndsLike(path, file) THEN "azure"
    ELSE IF \E file \in PipelineFiles : EndsLike(path, file) THEN "circleci"
    ELSE "none"
Entrypoint(path) ==
    IF ProviderOf(path) = "github" THEN InWorkflows(path) /\ IsYaml(path) /\ Len(path) = 3
    ELSE ProviderOf(path) # "none"

SkippedDirectories == {".git", ".hg", ".svn", "target", "_build", "node_modules", "vendor"}
Discovered(files) ==
    {p \in files : /\ IsYaml(p)
                   /\ ToSet(Parent(p)) \cap SkippedDirectories = {}
                   /\ ~\E prefix \in Excluded : IsPrefix(prefix, p)}

(* source_references_candidate: a file is mentioned by its path, by its    *)
(* path from the mentioning file's directory, or, if it is an action's, by *)
(* its directory.                                                          *)
Spells(words, path) ==
    \E i \in 0 .. Len(words) - Len(path) : SubSeq(words, i + 1, i + Len(path)) = path
Relative(owner, candidate) ==
    IF IsPrefix(Parent(owner), candidate)
    THEN SubSeq(candidate, Len(Parent(owner)) + 1, Len(candidate)) ELSE candidate
Mentions_FullPath(owner, text, candidate) ==
    \E item \in text.items : Spells(item.words, candidate)
Mentions(owner, text, candidate) ==
    LET relative == Relative(owner, candidate)
        directory == {Parent(p) : p \in {q \in {relative} :
                                           Len(q) > 1 /\ Last(q) \in ActionFiles}}
    IN  \E item \in text.items, spelling \in {candidate, relative} \cup directory :
            Spells(item.words, spelling)

Closure(files, candidates, entrypoints) ==
    LET closure[loaded \in SUBSET candidates] ==
            LET more == {c \in candidates \ loaded :
                            \E p \in loaded : Mentions(p, files[p], c)}
            IN  IF more = {} THEN loaded ELSE closure[loaded \cup more]
    IN  closure[entrypoints]

Load(files) ==
    LET candidates == Discovered(DOMAIN files)
        loaded == Closure(files, candidates, {p \in candidates : EntrypointPath(p)})
    IN  [p \in loaded |-> files[p]]

Roots(sources) == {p \in DOMAIN sources : Entrypoint(p)}
CompiledRoots(sources) ==
    {Compiled(ProviderOf(p), p, Parsed(p, sources[p])) : p \in Roots(sources)}
==============================================================================
