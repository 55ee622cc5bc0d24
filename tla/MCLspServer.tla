----------------------------- MODULE MCLspServer -----------------------------
(***************************************************************************)
(* Small sessions of the language server: two workflow files of one        *)
(* workspace.  Each .cfg picks the messages the client sends and the       *)
(* habits (fresh ids, fresh versions) it keeps.  The first version of      *)
(* either document has a syntax problem, for which the analysis of the     *)
(* other one is in error.                                                  *)
(***************************************************************************)
EXTENDS LspServer, TLC

MCWorkspaceOf == [u \in Uris |-> "workspace"]
MCIll == {<<u, 1>> : u \in Uris}
MCRefused ==
  {r \in Uris \X [Uris -> 0 .. MaxVersion] :
     \E w \in Uris \ {r[1]} : <<w, r[2][w]>> \in MCIll}
MCSymmetry == Permutations(Uris) \cup Permutations(Ids)
=============================================================================
