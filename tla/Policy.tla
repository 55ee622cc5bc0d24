-------------------------------- MODULE Policy --------------------------------
(***************************************************************************)
(* What a configuration adds to an analysis: its policy rules, which ask   *)
(* the graph questions of their own (product/policy.rs), its suppressions  *)
(* with their expiry, what the configuration a repository brings along may *)
(* not do (product/config.rs), and the decision of the gate (engine/mod.rs).*)
(* Selectors by provider and by path, and a suppression for one path, are  *)
(* left out: a node of the composed graph keeps no path here.              *)
(***************************************************************************)
EXTENDS VerifierRules

CONSTANT SourceCommit   \* whether the build knows the commit it was made from

JoinAll(parts) == FoldSet(LAMBDA v, joined : JoinAssign(joined, v), Default, parts)
JoinedValue(node) == JoinAll(node.attributes)

-----------------------------------------------------------------------------
(* The graph of the policy: every kind of edge but grants.                 *)
\* Slips a maintainer could make, here and below: a kind of edge forgotten, a day
\* lost, a check dropped.
PolicyKinds_StoresOnly == {"control", "call", "read", "write", "persist"}
PolicyKinds == {"control", "call", "data", "read", "write", "persist"}

PolicyDominates(g, dominator, n) ==
    \/ dominator = n
    \/ LET entry == IF g.entrypoints = {} THEN {m \in NodesOf(g) : Incoming(g, m) = {}}
                    ELSE g.entrypoints
       IN  n \notin Spread(g, PolicyKinds, {dominator}, entry \ {dominator})
GateDominates(g, n) == \E gate \in OfKind(g, {"gate"}) : PolicyDominates(g, gate, n)

Mutability(node) ==
    IF node.kind # "call" THEN "unknown" ELSE CallClass(node)

(* Of what a script does the policy knows the requests and the changes of  *)
(* the repository only.                                                    *)
PolicyEffects(node) ==
    node.effects \cup
      (IF node.kind # "command" THEN {}
       ELSE {"command_execution"} \cup
              (ScriptOf(node).effects \cap {"network_request", "repository_change"}))

PredicateMatches(g, n, predicate) ==
    LET node == g.node[n]
        value == predicate[2]
    IN  CASE predicate[1] = "kind" -> node.kind = value
          [] predicate[1] = "trust" -> JoinedValue(node).trust.label = value
          [] predicate[1] = "effect" -> value \in PolicyEffects(node)
          [] predicate[1] = "capability" -> value \in node.caps
          [] predicate[1] = "mutability" -> Mutability(node) = value
          [] OTHER -> GateDominates(g, n) = value

SelectorMatches(g, n, rule) ==
    LET matches(p) == PredicateMatches(g, n, p)
    IN  CASE rule.mode = "all" -> \A p \in rule.predicates : matches(p)
          [] rule.mode = "any" -> \E p \in rule.predicates : matches(p)
          [] OTHER -> \A p \in rule.predicates : ~matches(p)

(* The shortest of the paths from what is untrusted of itself.             *)
UntrustedPaths(g, sink) ==
    {ShortestPath(g, s, sink, PolicyKinds) :
        s \in {n \in NodesOf(g) : IsUntrusted(JoinedValue(g.node[n]))}} \ {<<>>}

(* What a rule finds, as the nodes it points at; 0 when it misses one.     *)
Found(g, rule) ==
    LET matches == {n \in NodesOf(g) : SelectorMatches(g, n, rule)}
    IN  CASE rule.kind = "forbid" -> matches
          [] rule.kind = "require" -> IF matches = {} THEN {0} ELSE {}
          [] rule.kind = "limit" -> Range(SubSeq(Ascending(matches), rule.maximum + 1,
                                                 Cardinality(matches)))
          [] OTHER -> {n \in matches : UntrustedPaths(g, n) # {}}
EvaluatePolicy(g, rules) ==
    UNION {[rule : {rule.id}, severity : {rule.severity}, node : Found(g, rule)] : rule \in rules}

-----------------------------------------------------------------------------
(* Days are counted from 1970-01-01; a date is a year, a month and a day.  *)
DateOf(days_since_epoch) ==
    LET days == days_since_epoch + 719468
        era == days \div 146097
        day_of_era == days - era * 146097
        year_of_era == (day_of_era - day_of_era \div 1460 + day_of_era \div 36524
                          - day_of_era \div 146096) \div 365
        day_of_year == day_of_era - (365 * year_of_era + year_of_era \div 4
                                       - year_of_era \div 100)
        month_prime == (5 * day_of_year + 2) \div 153
        month == month_prime + (IF month_prime < 10 THEN 3 ELSE -9)
    IN  <<year_of_era + era * 400 + (IF month <= 2 THEN 1 ELSE 0), month,
          day_of_year - (153 * month_prime + 2) \div 5 + 1>>

IsLeap(year) == year % 400 = 0 \/ (year % 4 = 0 /\ year % 100 # 0)
DaysIn(year, month) ==
    CASE month \in {1, 3, 5, 7, 8, 10, 12} -> 31
      [] month \in {4, 6, 9, 11} -> 30
      [] month = 2 -> IF IsLeap(year) THEN 29 ELSE 28
      [] OTHER -> 0
ValidDate(date) == date[1] >= 1970 /\ date[3] \in 1..DaysIn(date[1], date[2])

(* The order of the texts is that of the dates, which have fixed widths.   *)
Before(a, b) ==
    \/ a[1] < b[1]
    \/ a[1] = b[1] /\ (a[2] < b[2] \/ (a[2] = b[2] /\ a[3] < b[3]))

Expired_OnTheDay(suppression, today) == ~Before(DateOf(today), suppression.expiry)
Expired(suppression, today) == Before(suppression.expiry, DateOf(today))

-----------------------------------------------------------------------------
BuiltIn == [trust |-> "built-in", persona |-> "gate", rules |-> {}, suppressions |-> {}]

(* load_config_from_snapshot: the file that --policy or else --config      *)
(* names, or else the one at the root of the tree.  A policy must lie      *)
(* outside the tree; only it, or any file by the flag, is trusted.         *)
Given(request) ==
    IF request.policy # <<>> THEN request.policy
    ELSE IF request.config # <<>> THEN request.config ELSE request.automatic
PolicyOutside(request) == \A i \in DOMAIN request.policy : ~request.policy[i].inside
TrustOf(request) ==
    IF request.policy # <<>> \/ request.trusts THEN "trusted" ELSE "repository"
Contradictory(request) == request.policy # <<>> /\ request.config # <<>>
ConfigOf(request) ==
    IF Given(request) = <<>> THEN BuiltIn
    ELSE LET file == Given(request)[1]
         IN  [trust |-> TrustOf(request), persona |-> file.persona,
              rules |-> file.rules, suppressions |-> file.suppressions]

(* validate_repository; what else it refuses concerns other components.    *)
RepositoryMay_Suppress(config) == config.persona # "audit"
RepositoryMay(config) == config.persona # "audit" /\ config.suppressions = {}

Accepted(config, today) ==
    /\ \A s \in config.suppressions : ValidDate(s.expiry) /\ ~Expired(s, today)
    /\ config.trust = "repository" => RepositoryMay(config)

(* A policy finding fails the gate even when it is suppressed, for the     *)
(* suppressions are applied to what is shown after it was counted.         *)
Diagnostics(config, g, properties, problems) ==
    LET of(rules) == {[rule |-> r, severity |-> Severity[r], node |-> 0] : r \in rules}
        verified == of({r \in DOMAIN Severity : properties[r].state = "Violated"})
        refused == {[rule |-> p, severity |-> "error", node |-> 0] : p \in problems}
        suppressed == {s.rule : s \in config.suppressions}
    IN  {d \in verified \cup refused \cup EvaluatePolicy(g, config.rules) :
            d.rule \notin suppressed}

OutcomeShouldFail(persona, diagnostics, properties) ==
    CASE persona = "audit" -> FALSE
      [] persona = "gate" -> \E d \in diagnostics : d.severity \in {"critical", "error"}
      [] OTHER -> \/ diagnostics # {}
                  \/ \E r \in DOMAIN Severity : properties[r].state = "Unknown"

(* The exit of check: the persona that was asked for, or else the          *)
(* configuration's, decides; strict asks for a complete analysis too, by a *)
(* build whose sources are known.  A dependency that is not resolved is a  *)
(* node here that says so.                                                 *)
Gate(config, asked, strict, g, result, problems) ==
    LET persona == IF asked = <<>> THEN config.persona ELSE asked[1]
        policy_failure == persona # "audit" /\ EvaluatePolicy(g, config.rules) # {}
        shown == Diagnostics(config, g, result.properties, problems)
    IN  IF OutcomeShouldFail(persona, shown, result.properties) \/ policy_failure
        THEN "finding"
        ELSE IF strict /\ ~(result.complete /\ SourceCommit) THEN "incomplete" ELSE "pass"
=============================================================================
