------------------------ MODULE AnalysisSessionProofs ------------------------
(***************************************************************************)
(* What is proved of the engine's session for every workspace, whatever is *)
(* edited, requested, renamed and cancelled.                               *)
(***************************************************************************)
EXTENDS AnalysisSession, WellFoundedInduction, TLAPS

-----------------------------------------------------------------------------
(* What the caches hold is what parsing and lowering would give.           *)
ParsesAreTrue ==
    \A path, text : CachedParse(parse_cache, path, text) = Parsed(path, text)
Own(path) == Compiled(ProviderOf(path), path, Parsed(path, sources[path]))
LoweringsAreTrue ==
    \A path, text : LowerKey(path, text) \in DOMAIN lower_cache =>
        /\ lower_cache[LowerKey(path, text)] =
             Compiled(ProviderOf(path), path, Parsed(path, text))
        /\ ~Refused(Parsed(path, text))

KnownPaths == DOMAIN documents \subseteq Paths /\ DOMAIN sources \subseteq Paths
RequestKnown == pc # "idle" => requested \in Paths

(* What was compiled and what is to be are the roots of the analysis.      *)
RootsAreTaken ==
    pc \in {"begin", "parse", "lower", "link"} =>
        /\ todo \subseteq Roots(sources)
        /\ compilations \cup {Own(p) : p \in todo} = CompiledRoots(sources)
        /\ \A p \in Roots(sources) \ todo : ~Refused(Parsed(p, sources[p]))
        /\ pc = "link" => todo = {}
        /\ pc \in {"parse", "lower"} => todo # {}

ProgramIsLinked ==
    pc \in {"assemble", "verify", "answer"} => Answered("outcome", compilations) = Stateless

AnswerIsTrue ==
    /\ Said("outcome") \/ Said("error") => answer = Stateless
    /\ Said("renamed") => answer.compilations = Stateless.compilations

SInv ==
    /\ ParsesAreTrue
    /\ LoweringsAreTrue
    /\ KnownPaths
    /\ RootsAreTaken
    /\ ProgramIsLinked
    /\ AnswerIsTrue
    /\ RequestKnown

-----------------------------------------------------------------------------
LEMMA FirstIsIn ==
    ASSUME NEW S, S \subseteq Paths, S # {}
    PROVE  First(S) \in S
<1> DEFINE T == {i \in DOMAIN PathOrder : PathOrder[i] \in S}
           R == OpToRel(<, Nat)
<1>1. DOMAIN PathOrder \subseteq Nat
  BY WorkspaceAssumption
<1>2. T # {} /\ T \subseteq Nat
  BY <1>1 DEF Paths, ToSet
<1>3. PICK x \in T : \A y \in T : ~(<<y, x>> \in R)
  BY <1>2, WFMin, NatLessThanWellFounded, Zenon
<1>4. \A k \in 1 .. x - 1 : PathOrder[k] \notin S
  <2> SUFFICES ASSUME NEW k \in 1 .. x - 1, PathOrder[k] \in S PROVE FALSE
    OBVIOUS
  <2>1. x \in DOMAIN PathOrder /\ x \in Nat /\ DOMAIN PathOrder = 1 .. Len(PathOrder)
    BY <1>2, WorkspaceAssumption
  <2>2. k \in T /\ k \in Nat /\ k < x
    BY <2>1, WorkspaceAssumption
  <2>3. <<k, x>> \in R
    BY <2>1, <2>2 DEF OpToRel
  <2> QED BY <1>3, <2>2, <2>3
<1> QED BY <1>3, <1>4 DEF First

LEMMA ParsedIsKept ==
    ASSUME NEW cache, \A path, text : CachedParse(cache, path, text) = Parsed(path, text),
           NEW path, NEW text
    PROVE  \A p, t : CachedParse(WithParsed(cache, path, text), p, t) = Parsed(p, t)
<1> SUFFICES ASSUME NEW p, NEW t
             PROVE  CachedParse(WithParsed(cache, path, text), p, t) = Parsed(p, t)
  OBVIOUS
<1>1. ParseKey(p, t) = ParseKey(path, text) => p = path /\ t = text
  BY DEF ParseKey
<1> QED BY <1>1 DEF WithParsed, Put, CachedParse

LEMMA AllAreKept ==
    ASSUME NEW cache, \A path, text : CachedParse(cache, path, text) = Parsed(path, text),
           NEW texts, NEW paths
    PROVE  \A p, t : CachedParse(WithAll(cache, texts, paths), p, t) = Parsed(p, t)
<1> SUFFICES ASSUME NEW p, NEW t
             PROVE  CachedParse(WithAll(cache, texts, paths), p, t) = Parsed(p, t)
  OBVIOUS
<1>1. ParseKey(p, t)[1] = p /\ ParseKey(p, t)[2] = t
  BY DEF ParseKey
<1> QED BY <1>1 DEF WithAll, CachedParse

-----------------------------------------------------------------------------
(* What a step that starts an analysis leads to.                           *)
LEMMA AnalysisStarts ==
    ASSUME NEW path \in Paths, NEW texts, NEW cache,
           \A p, t : CachedParse(cache, p, t) = Parsed(p, t),
           Open \subseteq Paths,
           Analyse(path, texts, cache)
    PROVE  /\ ParsesAreTrue' /\ DOMAIN sources' \subseteq Paths
           /\ RootsAreTaken' /\ ProgramIsLinked' /\ AnswerIsTrue'
<1>1. ParsesAreTrue'
  BY AllAreKept DEF Analyse, ParsesAreTrue
<1>2. DOMAIN sources' \subseteq Paths
  BY DEF Analyse
<1>3. RootsAreTaken'
  BY DEF Analyse, RootsAreTaken, CompiledRoots, Own
<1>4. ProgramIsLinked' /\ AnswerIsTrue'
  BY DEF Analyse, ProgramIsLinked, AnswerIsTrue, Said
<1> QED BY <1>1, <1>2, <1>3, <1>4

(* What a step that refuses at once leads to.                              *)
LEMMA RefusalEnds ==
    ASSUME NEW path, NEW kind \in {"syntax", "refused"}, Refuse(path, kind)
    PROVE  /\ DOMAIN sources' \subseteq Paths
           /\ RootsAreTaken' /\ ProgramIsLinked' /\ AnswerIsTrue' /\ RequestKnown'
BY DEF Refuse, Empty, RootsAreTaken, ProgramIsLinked, AnswerIsTrue, Said, RequestKnown

(* What a step that leaves the analysis alone keeps.                       *)
LEMMA NothingElse ==
    ASSUME SInv, UNCHANGED <<documents, parse_cache, lower_cache, sources>>
    PROVE  ParsesAreTrue' /\ LoweringsAreTrue' /\ KnownPaths'
BY DEF SInv, ParsesAreTrue, LoweringsAreTrue, KnownPaths

LEMMA SameRequest ==
    ASSUME SInv, pc # "idle" \/ pc' = "idle", UNCHANGED requested
    PROVE  RequestKnown'
BY DEF SInv, RequestKnown

LEMMA SameAnswer ==
    ASSUME SInv, UNCHANGED <<requested, sources, answer>>
    PROVE  AnswerIsTrue'
BY DEF SInv, AnswerIsTrue, Said, Stateless, Answered

(* A source is parsed, or found parsed; nothing else happens.              *)
LEMMA ParseStep ==
    ASSUME SInv, ParseSource
    PROVE  SInv'
<1>1. ParsesAreTrue'
  BY ParsedIsKept DEF ParseSource, SInv, ParsesAreTrue
<1>2. LoweringsAreTrue' /\ KnownPaths'
  BY DEF ParseSource, SInv, LoweringsAreTrue, KnownPaths
<1>3. RootsAreTaken'
  BY DEF ParseSource, Proceed, SInv, RootsAreTaken, Own
<1>4. ProgramIsLinked'
  BY DEF ParseSource, ProgramIsLinked
<1>5. AnswerIsTrue'
  BY SameAnswer DEF ParseSource
<1>6. RequestKnown'
  BY SameRequest DEF ParseSource, Proceed
<1> QED BY <1>1, <1>2, <1>3, <1>4, <1>5, <1>6 DEF SInv

(* A source is lowered, found lowered, or refused.                         *)
LEMMA LowerStep ==
    ASSUME SInv, LowerSource
    PROVE  SInv'
<1> DEFINE path == First(todo)
           key == LowerKey(path, sources[path])
           document == CachedParse(parse_cache, path, sources[path])
           compilation == IF key \in DOMAIN lower_cache THEN lower_cache[key]
                          ELSE Compiled(ProviderOf(path), path, document)
<1>1. /\ pc = "lower" /\ ~cancelled
      /\ UNCHANGED <<documents, parse_cache, reverse_dependencies, requested, rename, sources,
                     cancelled, edits>>
  BY DEF LowerSource, Proceed
<1>2. /\ todo \subseteq Roots(sources) /\ todo # {}
      /\ compilations \cup {Own(p) : p \in todo} = CompiledRoots(sources)
      /\ \A p \in Roots(sources) \ todo : ~Refused(Parsed(p, sources[p]))
  BY <1>1 DEF SInv, RootsAreTaken
<1>3. path \in todo /\ path \in Roots(sources)
  <2>1. todo \subseteq Paths
    BY <1>2 DEF SInv, KnownPaths, Roots
  <2> QED BY <1>2, <2>1, FirstIsIn
<1>4. document = Parsed(path, sources[path])
  BY DEF SInv, ParsesAreTrue
<1>5. ParsesAreTrue' /\ KnownPaths' /\ RequestKnown'
  <2>1. RequestKnown'
    BY <1>1, SameRequest
  <2> QED BY <1>1, <2>1 DEF SInv, ParsesAreTrue, KnownPaths
<1>6. CASE key \notin DOMAIN lower_cache /\ Refused(document)
  <2>1. Give("error", {}) /\ UNCHANGED <<lower_cache, todo, compilations>>
    BY <1>6 DEF LowerSource
  <2>2. Stateless = Answered("error", {})
    BY <1>3, <1>4, <1>6 DEF Stateless
  <2>3. answer' = Stateless' /\ answer'.kind = "error"
    BY <1>1, <2>1, <2>2 DEF Give, Stateless, Answered
  <2>4. AnswerIsTrue'
    BY <2>3 DEF AnswerIsTrue, Said
  <2>5. LoweringsAreTrue'
    BY <2>1 DEF SInv, LoweringsAreTrue
  <2>6. RootsAreTaken' /\ ProgramIsLinked'
    BY <2>1 DEF Give, RootsAreTaken, ProgramIsLinked
  <2> QED BY <1>5, <2>4, <2>5, <2>6 DEF SInv
<1>7. CASE ~(key \notin DOMAIN lower_cache /\ Refused(document))
  <2>1. /\ lower_cache' = Put(key, compilation, lower_cache)
        /\ compilations' = compilations \cup {compilation}
        /\ todo' = todo \ {path}
        /\ pc' = NextSource(todo')
        /\ UNCHANGED answer
    BY <1>7 DEF LowerSource
  <2>2. compilation = Own(path) /\ ~Refused(Parsed(path, sources[path]))
    BY <1>4, <1>7 DEF SInv, LoweringsAreTrue, Own
  <2> HIDE DEF compilation, document, path
  <2>3. LoweringsAreTrue'
    <3> SUFFICES ASSUME NEW p, NEW t, LowerKey(p, t) \in DOMAIN lower_cache'
                 PROVE  /\ lower_cache'[LowerKey(p, t)] = Compiled(ProviderOf(p), p, Parsed(p, t))
                        /\ ~Refused(Parsed(p, t))
      BY DEF LoweringsAreTrue
    <3>1. CASE LowerKey(p, t) = key
      <4>1. p = path /\ t = sources[path]
        BY <3>1 DEF LowerKey
      <4>2. lower_cache'[key] = compilation
        BY <2>1 DEF Put
      <4> QED BY <2>2, <3>1, <4>1, <4>2 DEF Own
    <3>2. CASE LowerKey(p, t) # key
      <4> HIDE DEF key
      <4>1. LowerKey(p, t) \in DOMAIN lower_cache
            /\ lower_cache'[LowerKey(p, t)] = lower_cache[LowerKey(p, t)]
        BY <2>1, <3>2 DEF Put
      <4> QED BY <4>1 DEF SInv, LoweringsAreTrue
    <3> QED BY <3>1, <3>2
  <2>4. pc' = (IF todo' = {} THEN "link" ELSE "parse")
    BY <2>1 DEF NextSource
  <2>5. RootsAreTaken'
    <3>1. \A p : Own(p)' = Own(p)
      BY <1>1 DEF Own
    <3>2. compilations' \cup {Own(p) : p \in todo'} = CompiledRoots(sources)
      BY <1>2, <1>3, <2>1, <2>2
    <3>3. todo' \subseteq Roots(sources)
          /\ \A p \in Roots(sources) \ todo' : ~Refused(Parsed(p, sources[p]))
      BY <1>2, <2>1, <2>2
    <3> QED BY <1>1, <2>4, <3>1, <3>2, <3>3 DEF RootsAreTaken
  <2>6. ProgramIsLinked'
    BY <2>4 DEF ProgramIsLinked
  <2>7. AnswerIsTrue'
    BY <1>1, <2>1, SameAnswer
  <2> QED BY <1>5, <2>3, <2>5, <2>6, <2>7 DEF SInv
<1> QED BY <1>6, <1>7

(* What was compiled is linked: with it the analysis is the stateless one. *)
LEMMA LinkStep ==
    ASSUME SInv, Link
    PROVE  SInv'
<1>1. pc = "link" /\ UNCHANGED <<documents, sessionVars, requested, rename, sources, todo,
                                 cancelled, edits>>
  BY DEF Link
<1>2. compilations = CompiledRoots(sources)
      /\ \A p \in Roots(sources) : ~Refused(Parsed(p, sources[p]))
  BY <1>1 DEF SInv, RootsAreTaken
<1>3. ParsesAreTrue' /\ LoweringsAreTrue' /\ KnownPaths' /\ RequestKnown'
  BY <1>1, NothingElse, SameRequest DEF sessionVars
<1> DEFINE linked == LinkLocal(sources, CompiledRoots(sources))
<1>4. CASE linked.failed
  <2>1. Give("error", {})
    BY <1>2, <1>4 DEF Link
  <2>2. Stateless = Answered("error", {})
    BY <1>4 DEF Stateless
  <2>3. answer' = Stateless' /\ answer'.kind = "error"
    BY <1>1, <2>1, <2>2 DEF Give, Stateless, Answered
  <2>4. AnswerIsTrue'
    BY <2>3 DEF AnswerIsTrue, Said
  <2>5. RootsAreTaken' /\ ProgramIsLinked'
    BY <2>1 DEF Give, RootsAreTaken, ProgramIsLinked
  <2> QED BY <1>3, <2>4, <2>5 DEF SInv
<1>5. CASE ~linked.failed
  <2>1. compilations' = linked.compilations /\ pc' = "assemble" /\ UNCHANGED answer
    BY <1>2, <1>5 DEF Link
  <2>2. Stateless = Answered("outcome", linked.compilations)
    BY <1>2, <1>5 DEF Stateless
  <2>3. ProgramIsLinked'
    BY <1>1, <2>1, <2>2 DEF ProgramIsLinked, Stateless, Answered
  <2>4. RootsAreTaken'
    BY <2>1 DEF RootsAreTaken
  <2>5. AnswerIsTrue'
    BY <1>1, <2>1, SameAnswer
  <2> QED BY <1>3, <2>3, <2>4, <2>5 DEF SInv
<1> QED BY <1>4, <1>5

(* The answer is what was linked.                                          *)
LEMMA AnswerStep ==
    ASSUME SInv, Answer
    PROVE  SInv'
<1>1. pc = "answer" /\ UNCHANGED <<documents, sessionVars, requested, rename, sources, todo,
                                   compilations, cancelled, edits>>
  BY DEF Answer, Proceed
<1>2. Answered("outcome", compilations) = Stateless
  BY <1>1 DEF SInv, ProgramIsLinked
<1>3. ParsesAreTrue' /\ LoweringsAreTrue' /\ KnownPaths' /\ RequestKnown'
  BY <1>1, NothingElse, SameRequest DEF sessionVars
<1>4. CASE pc' = "restage" /\ UNCHANGED answer
  <2>1. AnswerIsTrue'
    BY <1>1, <1>4, SameAnswer
  <2> QED BY <1>3, <1>4, <2>1 DEF SInv, RootsAreTaken, ProgramIsLinked
<1>5. ASSUME NEW kind \in {"outcome", "renamed", "refused"}, Give(kind, compilations)
      PROVE  SInv'
  <2>1. pc' = "idle" /\ answer' = Answered(kind, compilations)
    BY <1>5 DEF Give
  <2>2. Stateless' = Stateless
    BY <1>1 DEF Stateless, Answered
  <2>3. /\ answer'.kind = kind
        /\ answer'.compilations = Stateless'.compilations
        /\ kind = "outcome" => answer' = Stateless'
    BY <1>2, <2>1, <2>2 DEF Answered
  <2>4. AnswerIsTrue'
    BY <2>3 DEF AnswerIsTrue, Said
  <2> QED BY <1>3, <2>1, <2>4 DEF SInv, RootsAreTaken, ProgramIsLinked
<1> QED BY <1>4, <1>5 DEF Answer

(* The steps that only move on, and those that end an analysis.            *)
LEMMA QuietStep ==
    ASSUME SInv, Begin \/ Assemble \/ Verify \/ Stop \/ Cancel
    PROVE  SInv'
<1>1. UNCHANGED <<documents, parse_cache, lower_cache, requested, rename, sources, todo,
                  compilations>>
  BY DEF Begin, Assemble, Verify, Stop, Cancel, sessionVars
<1>2. ParsesAreTrue' /\ LoweringsAreTrue' /\ KnownPaths' /\ RequestKnown'
  <2>1. pc # "idle"
    BY DEF Begin, Assemble, Verify, Stop, Cancel, Proceed, Checkpoints, Idle
  <2> QED BY <1>1, <2>1, NothingElse, SameRequest
<1>3. Stateless' = Stateless /\ \A p : Own(p)' = Own(p)
  BY <1>1 DEF Stateless, Answered, Own
<1>4. CASE Stop
  <2>1. pc' = "idle" /\ answer' = Answered("cancelled", {})
    BY <1>4 DEF Stop, Give
  <2>2. AnswerIsTrue'
    BY <2>1 DEF AnswerIsTrue, Said, Answered
  <2> QED BY <1>2, <2>1, <2>2 DEF SInv, RootsAreTaken, ProgramIsLinked
<1>5. CASE Begin \/ Assemble \/ Verify \/ Cancel
  <2>1. UNCHANGED answer
    BY <1>5 DEF Begin, Assemble, Verify, Cancel
  <2>2. AnswerIsTrue'
    BY <1>1, <2>1, SameAnswer
  <2>3. RootsAreTaken'
    BY <1>1, <1>3, <1>5
       DEF Begin, Assemble, Verify, Cancel, Proceed, NextSource, SInv, RootsAreTaken
  <2>4. ProgramIsLinked'
    <3>1. Answered("outcome", compilations)' = Answered("outcome", compilations)
      BY <1>1 DEF Answered
    <3> QED BY <1>3, <1>5, <3>1
            DEF Begin, Assemble, Verify, Cancel, Proceed, NextSource, SInv, ProgramIsLinked
  <2> QED BY <1>2, <2>2, <2>3, <2>4 DEF SInv
<1> QED BY <1>4, <1>5

(* The requests: an analysis starts or is refused.                         *)
LEMMA RequestStep ==
    ASSUME SInv, NEW path \in Paths, Request(path)
    PROVE  SInv'
<1> DEFINE own == WithParsed(parse_cache, path, documents[path])
<1>1. requested' = path /\ UNCHANGED <<documents, lower_cache, reverse_dependencies, edits>>
  BY DEF Request
<1>2. \A p, t : CachedParse(own, p, t) = Parsed(p, t)
  BY ParsedIsKept DEF SInv, ParsesAreTrue
<1>3. LoweringsAreTrue' /\ Open \subseteq Paths /\ DOMAIN documents' \subseteq Paths /\ RequestKnown'
  BY <1>1 DEF SInv, LoweringsAreTrue, KnownPaths, Open, RequestKnown
<1>4. CASE Refuse(path, "syntax") /\ parse_cache' = own
  <2>1. ParsesAreTrue'
    BY <1>2, <1>4 DEF ParsesAreTrue
  <2> QED BY <1>3, <1>4, <2>1, RefusalEnds DEF SInv, KnownPaths
<1>5. CASE Analyse(path, documents, own)
  <2> HIDE DEF own
  <2> QED BY <1>2, <1>3, <1>5, AnalysisStarts DEF SInv, KnownPaths
<1> QED BY <1>4, <1>5 DEF Request

LEMMA RenameStep ==
    ASSUME SInv, NEW path \in Paths, NEW word, NEW name, StartRename(path, word, name)
    PROVE  SInv'
<1>1. requested' = path /\ UNCHANGED <<documents, lower_cache, reverse_dependencies, edits>>
  BY DEF StartRename
<1>2. \A p, t : CachedParse(parse_cache, p, t) = Parsed(p, t)
  BY DEF SInv, ParsesAreTrue
<1>3. LoweringsAreTrue' /\ Open \subseteq Paths /\ DOMAIN documents' \subseteq Paths /\ RequestKnown'
  BY <1>1 DEF SInv, LoweringsAreTrue, KnownPaths, Open, RequestKnown
<1>4. CASE Refuse(path, "refused") /\ UNCHANGED parse_cache
  <2>1. ParsesAreTrue'
    BY <1>2, <1>4 DEF ParsesAreTrue
  <2> QED BY <1>3, <1>4, <2>1, RefusalEnds DEF SInv, KnownPaths
<1>5. CASE Analyse(path, documents, parse_cache)
  BY <1>2, <1>3, <1>5, AnalysisStarts DEF SInv, KnownPaths
<1> QED BY <1>4, <1>5 DEF StartRename

LEMMA RestageStep ==
    ASSUME SInv, Restage
    PROVE  SInv'
<1>1. pc = "restage"
      /\ UNCHANGED <<documents, lower_cache, reverse_dependencies, requested, cancelled, edits>>
  BY DEF Restage
<1>2. \A p, t : CachedParse(parse_cache, p, t) = Parsed(p, t)
  BY DEF SInv, ParsesAreTrue
<1>3. requested \in Paths /\ requested' \in Paths
  BY <1>1 DEF SInv, RequestKnown
<1>4. /\ LoweringsAreTrue' /\ Open \subseteq Paths /\ DOMAIN documents' \subseteq Paths
      /\ RequestKnown'
  BY <1>1, <1>3 DEF SInv, LoweringsAreTrue, KnownPaths, Open, RequestKnown
<1>5. CASE Refuse(requested, "refused") /\ UNCHANGED parse_cache
  <2>1. ParsesAreTrue'
    BY <1>2, <1>5 DEF ParsesAreTrue
  <2> QED BY <1>4, <1>5, <2>1, RefusalEnds DEF SInv, KnownPaths
<1>6. CASE Analyse(requested, Staged, parse_cache)
  BY <1>2, <1>3, <1>4, <1>6, AnalysisStarts DEF SInv, KnownPaths
<1> QED BY <1>5, <1>6 DEF Restage

(* An edit clears what was answered; the caches know other keys only.      *)
LEMMA EditStep ==
    ASSUME SInv, Idle, Forget, DOMAIN documents' \subseteq Paths,
           UNCHANGED sessionVars \/ (parse_cache' = Empty /\ lower_cache' = Empty)
    PROVE  SInv'
<1>1. ParsesAreTrue'
  <2>1. CASE UNCHANGED sessionVars
    BY <2>1 DEF sessionVars, SInv, ParsesAreTrue
  <2>2. CASE parse_cache' = Empty
    BY <2>2 DEF Empty, ParsesAreTrue, CachedParse
  <2> QED BY <2>1, <2>2
<1>2. LoweringsAreTrue'
  <2>1. CASE UNCHANGED sessionVars
    BY <2>1 DEF sessionVars, SInv, LoweringsAreTrue
  <2>2. CASE lower_cache' = Empty
    BY <2>2 DEF Empty, LoweringsAreTrue
  <2> QED BY <2>1, <2>2
<1>3. pc' = "idle" /\ DOMAIN sources' = {} /\ answer' = <<>>
  BY DEF Idle, Forget, Empty
<1>4. KnownPaths' /\ RootsAreTaken' /\ ProgramIsLinked' /\ AnswerIsTrue' /\ RequestKnown'
  BY <1>3 DEF KnownPaths, RootsAreTaken, ProgramIsLinked, AnswerIsTrue, Said, RequestKnown
<1> QED BY <1>1, <1>2, <1>4 DEF SInv

LEMMA SInvHolds == Spec => []SInv
<1>1. Init => SInv
  BY WorkspaceAssumption
     DEF Init, SInv, ParsesAreTrue, LoweringsAreTrue, KnownPaths, RootsAreTaken, ProgramIsLinked,
         AnswerIsTrue, RequestKnown, Said, CachedParse, Empty, Paths
<1>2. SInv /\ [Next]_vars => SInv'
  <2> SUFFICES ASSUME SInv, [Next]_vars PROVE SInv'
    OBVIOUS
  <2>1. CASE Restage
    BY <2>1, RestageStep
  <2>2. CASE Begin \/ Assemble \/ Verify \/ Stop \/ Cancel
    BY <2>2, QuietStep
  <2>3. CASE ParseSource
    BY <2>3, ParseStep
  <2>4. CASE LowerSource
    BY <2>4, LowerStep
  <2>5. CASE Link
    BY <2>5, LinkStep
  <2>6. CASE Answer
    BY <2>6, AnswerStep
  <2>7. CASE Reset
    <3>1. DOMAIN documents' \subseteq Paths
      BY <2>7 DEF Reset, SInv, KnownPaths
    <3> QED BY <2>7, <3>1, EditStep DEF Reset
  <2>8. ASSUME NEW path \in Paths, NEW word, NEW name, StartRename(path, word, name)
        PROVE  SInv'
    BY <2>8, RenameStep
  <2>9. ASSUME NEW path \in Paths, Request(path)
        PROVE  SInv'
    BY <2>9, RequestStep
  <2>10. ASSUME NEW path \in Paths, Close(path)
         PROVE  SInv'
    <3>1. DOMAIN documents' \subseteq Paths
      BY <2>10 DEF Close, SInv, KnownPaths, Open
    <3> QED BY <2>10, <3>1, EditStep DEF Close
  <2>11. ASSUME NEW path \in Paths, NEW text, Edit(path, text)
         PROVE  SInv'
    <3>1. DOMAIN documents' \subseteq Paths
      BY <2>11 DEF Edit, Put, SInv, KnownPaths
    <3> QED BY <2>11, <3>1, EditStep DEF Edit
  <2>12. CASE UNCHANGED vars
    BY <2>12 DEF vars, sessionVars, runVars, SInv, ParsesAreTrue, LoweringsAreTrue, KnownPaths,
                 RootsAreTaken, ProgramIsLinked, AnswerIsTrue, RequestKnown, Said, Own, Stateless,
                 Answered
  <2> QED BY <2>1, <2>2, <2>3, <2>4, <2>5, <2>6, <2>7, <2>8, <2>9, <2>10, <2>11, <2>12
          DEF Next, Analysis
<1> QED BY <1>1, <1>2, PTL DEF Spec

(* Whatever AnalysisSession has cached, of whatever texts and under        *)
(* whichever cancelled analyses, an analysis that ends says what the       *)
(* stateless Analyzer says of the same sources: for every workspace, every *)
(* text and any number of edits, requests and renames.                     *)
THEOREM SessionStaysTransparent == Spec => []SessionIsTransparent
<1>1. SInv => SessionIsTransparent
  BY DEF SInv, AnswerIsTrue, SessionIsTransparent
<1> QED BY <1>1, SInvHolds, PTL
==============================================================================
