------------------------------- MODULE Frontends -------------------------------
(***************************************************************************)
(* A program of workflow documents, each a pair of a provider and a        *)
(* document, and the one graph it is composed to.                          *)
(***************************************************************************)
EXTENDS Lowering

GH == INSTANCE GithubLowering
GL == INSTANCE GitlabLowering
AZ == INSTANCE AzureLowering
CC == INSTANCE CircleciLowering

Lower(source) ==
    CASE source[1] = "github" -> GH!LowerGithub(source[2])
      [] source[1] = "gitlab" -> GL!LowerGitlab(source[2])
      [] source[1] = "azure" -> AZ!LowerAzure(source[2])
      [] OTHER -> CC!LowerCircleci(source[2])
Problems(source) ==
    CASE source[1] = "github" -> GH!GithubProblems(source[2])
      [] source[1] = "gitlab" -> GL!GitlabProblems(source[2])
      [] source[1] = "azure" -> AZ!AzureProblems(source[2])
      [] OTHER -> CC!CircleciProblems(source[2])

GraphOf(p) == Finalize(Compose([s \in DOMAIN p |-> Lower(p[s])]))
=============================================================================
