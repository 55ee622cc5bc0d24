---------------------------- MODULE MCPinWorkspace ----------------------------
(***************************************************************************)
(* An action (1) whose step has its text for a name, a GitLab image (2)    *)
(* that stands in the file twice and whose source is not, or no longer,    *)
(* among the allowed ones, and a file of the workspace (3) in one          *)
(* workspace; an Azure repository (4), which no scalar names, and an orb   *)
(* (5), by exact version and by range, in another.  The editor saves a     *)
(* workflow that uses the action twice.  The resolver's hosts have two     *)
(* URLs, another trusted host one, and a fourth is not trusted.  The lock  *)
(* is new, or has entries for the action, the image and the repository.    *)
(***************************************************************************)
EXTENDS PinWorkspace

MCKindOf == <<"action", "image", "local", "repository", "orb">>
MCProviderOf == <<"github", "gitlab", "gitlab", "azure", "circleci">>

\* The same host serves both, the files at a prefix that is not its own.
UrlAt(host, path) ==
  [scheme |-> "https", host |-> host, port |-> 443, path |-> path,
   named |-> TRUE, plain |-> TRUE]
Api == UrlAt("home", <<"repos", "api">>)
FilesUrl == UrlAt("home", <<"archive">>)
Mirror == UrlAt("mirror", <<"files">>)
Stray == UrlAt("mirror", <<"other">>)
MCUrls == {Api, FilesUrl, Mirror, Stray}
Home == <<"home", 443>>
MCOfficialHosts == {[origin |-> Home, prefixes |-> {<<"repos">>}]}
MCConfiguredHosts ==
  {[origin |-> Home, prefixes |-> {}],
   [origin |-> <<"mirror", 443>>, prefixes |-> {<<"files">>}]}

\* Two addresses of the Internet, of which the older protocol's is taken; one
\* that has a private address with it, and none.
Address4 == <<93, 184, 216, 34>>
Address6 == <<9734, 10240, 544, 1, 584, 6291, 9672, 6470>>
MCDnsAnswers ==
  {{Address4, Address6}, {<<10, 0, 0, 1>>, Address6}, {}}
MCUrlOf == [kind \in Kinds |-> [stage \in RequestStages |->
              IF stage \in {"commit", "versions", "token"} THEN Api
              ELSE FilesUrl]]

\* The action's requests carry the default credential of an official host,
\* the orb's the one stored for a configured host, the repository's none.
MCOfficial == {<<"github", Home>>, <<"azure", Home>>}
MCBound == {<<"github", Default>>}
MCStore == {<<"circleci", Home>>, <<"azure", <<"mirror", 443>> >>}

At(n) == [name |-> n, at |-> Tag]
Mention(r, role) == [reference |-> r, role |-> role]
Use(n) == Mention(At(n), "use")
MCStartTexts ==
  {<< <<Mention(At(1), "other"), Use(1)>>, <<Use(2), Use(2), Use(3)>> >>,
   << <<Mention(At(4), "composed")>>,
      <<Mention([name |-> 5, at |-> 1], "use"), Use(5)>> >>}
MCDrafts == {<<Use(1), Use(1)>>}
Repeating == {<< <<Use(1), Use(1)>> >>}
NoDrafts == {}
FirstEntry == [revision |-> 1, content |-> 1, summary |-> Tag]
MCStartLocks ==
  {EmptyLock,
   [r \in References |-> IF r \in {At(1), At(2), At(4)} THEN FirstEntry
                         ELSE NoEntry]}
=============================================================================
