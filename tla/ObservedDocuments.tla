-------------------------- MODULE ObservedDocuments --------------------------
(***************************************************************************)
(* What the reader thread has seen of the client's documents, shared with  *)
(* the serving thread (application/lsp.rs, ObservedDocuments).             *)
(*                                                                         *)
(* The reader thread calls ObserveText and ObserveClose the moment a       *)
(* notification arrives, before it is queued for the serving thread; the   *)
(* serving thread registers the analyses it runs so that the reader can    *)
(* cancel the ones a newer version or a close has made useless.  Each      *)
(* operation holds the mutex throughout and is one atomic step.            *)
(*                                                                         *)
(* `tracked` is the map from (uri, version) to the token of the analysis   *)
(* running on it, kept as a set of entries with at most one per key.       *)
(***************************************************************************)
EXTENDS Naturals

CONSTANTS Uris, Ids, MaxVersion

VARIABLES
  versions,    \* per uri, the newest version observed, or NoVersion
  closed,      \* uris whose didClose was observed and not followed by an open
  tracked,     \* the analyses under way
  cancelled    \* tokens whose flag is raised

observedVars == <<versions, closed, tracked, cancelled>>

Versions == 1 .. MaxVersion
NoVersion == 0        \* the map has no entry for the uri

\* A request's token is named by its id, a publication's by its document.
Tokens == Ids \cup Uris

Entry == [uri : Uris, version : Versions, token : Tokens]

\* Slips a maintainer could make here; no specification uses them.
ObserveText_CancelsNothing(uri, version) ==
  /\ versions' = [versions EXCEPT ![uri] = version]
  /\ closed' = closed \ {uri}
  /\ UNCHANGED <<tracked, cancelled>>

\* ObservedDocuments::observe on didOpen and didChange.  The recorded version
\* never goes down, and analyses of any other version are cancelled.
ObserveText(uri, version) ==
  LET newest == IF version >= versions[uri] THEN version ELSE versions[uri]
  IN  /\ versions' = [versions EXCEPT ![uri] = newest]
      /\ closed' = closed \ {uri}
      /\ cancelled' = cancelled \cup
           {e.token : e \in {f \in tracked : f.uri = uri /\ f.version # newest}}
      /\ UNCHANGED tracked

\* ObservedDocuments::observe on didClose.  The recorded version stays.
ObserveClose(uri) ==
  /\ closed' = closed \cup {uri}
  /\ cancelled' = cancelled \cup {e.token : e \in {f \in tracked : f.uri = uri}}
  /\ UNCHANGED <<versions, tracked>>

IsCurrent(uri, version) == uri \notin closed /\ versions[uri] = version

IsClosed(uri) == uri \in closed

Without(uri, version) ==
  {e \in tracked : ~(e.uri = uri /\ e.version = version)}

\* ObservedDocuments::track_analysis: unconditional, replaces the key's entry.
TrackAnalysis(uri, version, token) ==
  /\ tracked' = Without(uri, version)
                  \cup {[uri |-> uri, version |-> version, token |-> token]}
  /\ UNCHANGED <<versions, closed, cancelled>>

\* ObservedDocuments::start_analysis when it returns a token: a fresh one,
\* and only for the version that is current.
StartAnalysis(uri, version, token) ==
  /\ IsCurrent(uri, version)
  /\ tracked' = Without(uri, version)
                  \cup {[uri |-> uri, version |-> version, token |-> token]}
  /\ cancelled' = cancelled \ {token}
  /\ UNCHANGED <<versions, closed>>

\* ObservedDocuments::finish_analysis.
FinishAnalysis(uri, version) ==
  /\ tracked' = Without(uri, version)
  /\ UNCHANGED <<versions, closed, cancelled>>
=============================================================================
