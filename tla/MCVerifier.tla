------------------------------ MODULE MCVerifier ------------------------------
(***************************************************************************)
(* The instance on which the verifier is model-checked.                    *)
(***************************************************************************)
EXTENDS Verifier, Corpus

(* The values that the attributes of the corpus can be joined to.          *)
Seeds == {Default, WorkflowText, UnknownAbstract("dynamic"), UnknownAbstract("external"),
          StringConstant("text", Untrusted, Public), StringConstant("manual", Trusted, Public)}
           \cup {ReferenceValue(p, r) : p \in {"github", "circleci"}, r \in ReferenceNames}
RECURSIVE Closure(_)
Closure(S) == LET more == S \cup {JoinAssign(a, b) : a, b \in S}
              IN  IF more = S THEN S ELSE Closure(more)
Values == Closure(Seeds)
Numbers == 1..60

Rules(id, kind, mode, predicates) ==
    [id |-> id, kind |-> kind, mode |-> mode, predicates |-> predicates,
     severity |-> "warning", maximum |-> 1]
File(inside, persona, rules, suppressions) ==
    <<[inside |-> inside, persona |-> persona, rules |-> rules, suppressions |-> suppressions]>>
Suppress(rule, date) == [rule |-> rule, expiry |-> date]
Plainly == [policy |-> <<>>, config |-> <<>>, automatic |-> <<>>, trusts |-> FALSE,
            asked |-> <<>>, strict |-> FALSE, today |-> 0]
By(policy, today) == [Plainly EXCEPT !.policy = policy, !.today = today]
Ungated == Rules("ungated", "forbid", "all", {<<"gated", FALSE>>, <<"kind", "command">>})
OneCommand == Rules("one", "limit", "any", {<<"kind", "command">>, <<"effect", "network_request">>})
SomePinned == Rules("pinned", "require", "all", {<<"mutability", "immutable">>})
Harmless == Rules("harmless", "forbid_path", "none", {<<"trust", "trusted">>, <<"capability", "network">>})
Weak == File(TRUE, "gate", {}, {Suppress("injection", <<2024, 10, 4>>)})
MCRequests ==
    {[Plainly EXCEPT !.asked = asked, !.strict = strict] :
        asked \in {<<>>, <<"audit">>}, strict \in BOOLEAN}
    \cup {[Plainly EXCEPT !.automatic = File(TRUE, persona, rules, suppressions),
                          !.strict = TRUE, !.today = 20000] :
             persona \in {"audit", "gate", "paranoid"}, rules \in {{}, {SomePinned}},
             suppressions \in {{}, {Suppress("injection", <<2024, 10, 4>>)}}}
    \cup {[Plainly EXCEPT !.policy = policy, !.config = config, !.automatic = Weak,
                          !.trusts = trusts] :
             policy \in {<<>>, Weak, File(FALSE, "paranoid", {}, {})},
             config \in {<<>>, File(FALSE, "gate", {SomePinned}, {})}, trusts \in BOOLEAN}
    \cup {By(File(FALSE, "gate", {Ungated, OneCommand, Harmless}, {Suppress("ungated", date)}), today) :
             date \in {<<2024, 2, 29>>, <<2023, 2, 29>>}, today \in {19781, 19782, 19783}}
    \cup {By(File(FALSE, "gate", {}, {Suppress("secret", <<year, 12, 31>>)}), today) :
             year \in {1999, 2000}, today \in {10956, 10957, 11322, 11323}}
=============================================================================
