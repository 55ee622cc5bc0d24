---------------------------- MODULE WorkflowGraph ----------------------------
(***************************************************************************)
(* The domain of the verifier: the abstract values that flow through a     *)
(* workflow (domain/abstract_value.rs), the intermediate graph they flow   *)
(* in (domain/ir.rs) and what the rules ask of it (verifier/mod.rs,        *)
(* GraphIndex).                                                            *)
(***************************************************************************)
EXTENDS Integers, Sequences, FiniteSets, SequencesExt, FiniteSetsExt

(***************************************************************************)
(* A value, the trust it deserves and the secrecy it carries.  Only the    *)
(* values the front ends build are represented: strings are sets of        *)
(* constants, texts being atoms, or Top; an affix, a pattern, a list or an *)
(* object never leaves a front end with a trust other than Trusted.        *)
(* Provenance, which no rule reads, is left out.                           *)
(***************************************************************************)
CONSTANT StringLimit   \* the constants a string value may list (8 in the code)
ASSUME StringLimitAssumption == StringLimit \in Nat \ {0}

Incompatible == "incompatible value join"

ValueOf(kind, alternatives) == [kind |-> kind, of |-> alternatives]
BottomValue == ValueOf("bottom", {})
Constants(texts) == ValueOf("constants", texts)
TopString == ValueOf("top", {})
UnknownValue(reasons) == ValueOf("unknown", reasons)

IsString(v) == v.kind \in {"constants", "top"}

JoinStrings(v, w) ==
    IF v.kind = "top" \/ w.kind = "top"
       \/ Cardinality(v.of \cup w.of) > StringLimit
    THEN TopString
    ELSE Constants(v.of \cup w.of)

(* Two kinds that do not match become Unknown, for a reason of its own.    *)
JoinValue(v, w) ==
    IF v.kind = w.kind /\ v.kind \in {"null", "boolean", "number"}
    THEN ValueOf(v.kind, v.of \cup w.of)
    ELSE IF IsString(v) /\ IsString(w)
    THEN JoinStrings(v, w)
    ELSE IF v.kind = "unknown" /\ w.kind = "unknown"
    THEN UnknownValue(v.of \cup w.of)
    ELSE UnknownValue((UNION {u.of : u \in {x \in {v, w} : x.kind = "unknown"}})
                        \cup {Incompatible})

-----------------------------------------------------------------------------
(* Trust and secrecy are chains in which Unknown, with its reasons, lies   *)
(* just below the worst: a value known to be bad stays bad.                *)
Level(label, reasons) == [label |-> label, reasons |-> reasons]
Trusted == Level("trusted", {})
Untrusted == Level("untrusted", {})
Public == Level("public", {})
Secret == Level("secret", {})
UnknownLevel(reasons) == Level("unknown", reasons)

TrustRank == [trusted |-> 0, mixed |-> 1, unknown |-> 2, untrusted |-> 3]
SecrecyRank == [public |-> 0, sensitive |-> 1, unknown |-> 2, secret |-> 3]

JoinLevel(rank, a, b) ==
    IF rank[a.label] > rank[b.label] THEN a
    ELSE IF rank[a.label] < rank[b.label] THEN b
    ELSE Level(a.label, a.reasons \cup b.reasons)

JoinTrust(a, b) == JoinLevel(TrustRank, a, b)
JoinSecrecy(a, b) == JoinLevel(SecrecyRank, a, b)

-----------------------------------------------------------------------------
Abstract(value, trust, secrecy) ==
    [value |-> value, trust |-> trust, secrecy |-> secrecy]

Default == Abstract(BottomValue, Trusted, Public)
StringConstant(text, trust, secrecy) == Abstract(Constants({text}), trust, secrecy)
UnknownAbstract(reason) ==
    Abstract(UnknownValue({reason}), UnknownLevel({reason}), UnknownLevel({reason}))

(* A bottom value is replaced, trust and all, by what it is joined with.   *)
JoinAssign(a, b) ==
    IF a.value = BottomValue THEN b
    ELSE IF b.value = BottomValue THEN a
    ELSE Abstract(JoinValue(a.value, b.value), JoinTrust(a.trust, b.trust),
                  JoinSecrecy(a.secrecy, b.secrecy))

IsUntrusted(a) == a.trust.label = "untrusted"
IsSecret(a) == a.secrecy.label = "secret"

(* Why the rules may not conclude anything from a value.                   *)
Reasons(a) ==
    (IF a.value.kind = "unknown" THEN a.value.of ELSE {})
      \cup a.trust.reasons \cup a.secrecy.reasons

-----------------------------------------------------------------------------
(***************************************************************************)
(* The graph.  Nodes are numbered by their place in the text: a front end  *)
(* gives each a position, and Finalize, as the code does, replaces the     *)
(* positions by dense identifiers in the same order.                       *)
(***************************************************************************)

(* A condition is the set of the valuations that satisfy it, a valuation   *)
(* being the set of atoms it makes true: what a reduced decision diagram   *)
(* denotes, with equality for equality.                                    *)
CONSTANT Atom
Valuations == SUBSET Atom
AtomCondition(a) == {v \in Valuations : a \in v}
Implies(c, d) == c \subseteq d
AtomsOf(c) == {a \in Atom : \E v \in c : (v \cup {a} \in c) # (v \ {a} \in c)}

PhaseRank == [source |-> 0, compile |-> 1, plan |-> 2, run |-> 3, post |-> 4]

Ascending(numbers) ==
    [i \in 1..Cardinality(numbers) |->
        CHOOSE x \in numbers : Cardinality({y \in numbers : y < x}) = i - 1]

NoScript == <<>>
Simple(at, kind, phase) ==
    [at |-> at, kind |-> kind, phase |-> phase, name |-> <<>>, attributes |-> {},
     caps |-> {}, effects |-> {}, unknown |-> {}, guard |-> Valuations,
     target |-> {}, script |-> NoScript]

EmptyGraph == [nodes |-> {}, edges |-> {}, entrypoints |-> {}]
AddNode(g, n) == [g EXCEPT !.nodes = @ \cup {n}]
Edge(kind, from, to, label) == [kind |-> kind, from |-> from, to |-> to, label |-> label]
AddEdge(g, kind, from, to) ==
    [g EXCEPT !.edges = IF from = to THEN @ ELSE @ \cup {Edge(kind, from, to, "none")}]
AddControl(g, from, to) == AddEdge(g, "control", from, to)
AddCall(g, from, to) == AddEdge(AddControl(g, from, to), "call", from, to)

(* A gate takes over every control edge into its owner, labels and all,    *)
(* and its owner's place among the entry points.                           *)
InsertGate(g, owner, gate) ==
    LET redirected(e) == IF e.kind = "control" /\ e.to = owner
                         THEN [e EXCEPT !.to = gate.at] ELSE e
    IN  [nodes |-> g.nodes \cup {gate},
         edges |-> {redirected(e) : e \in g.edges}
                     \cup {Edge("control", gate.at, owner, "gate")},
         entrypoints |-> {IF x = owner THEN gate.at ELSE x : x \in g.entrypoints}]

Finalize(g) ==
    LET places == {n.at : n \in g.nodes}
        id[p \in places] == Cardinality({q \in places : q <= p})
    IN  [node |-> [i \in 1..Cardinality(places) |-> CHOOSE n \in g.nodes : id[n.at] = i],
         edges |-> {[e EXCEPT !.from = id[@], !.to = id[e.to]] : e \in g.edges},
         entrypoints |-> {id[p] : p \in g.entrypoints}]

-----------------------------------------------------------------------------
(* Several sources make one program (compose_program_owned): fragments are *)
(* linked in source order; a call whose target is another source of the    *)
(* program is joined to the target's entry points and loses its reason to  *)
(* be unknown; and a resource that one source writes feeds the resources   *)
(* of that name that another reads.                                        *)
SourceWidth == 1000000
Shifted(g, source) ==
    LET base == source * SourceWidth
    IN  [nodes |-> {[n EXCEPT !.at = @ + base] : n \in g.nodes},
         edges |-> {[e EXCEPT !.from = @ + base, !.to = @ + base] : e \in g.edges},
         entrypoints |-> {x + base : x \in g.entrypoints}]
SourceOf(place) == place \div SourceWidth

LocalTargets(fragments, call) ==
    {s \in call.target \cap DOMAIN fragments : s # SourceOf(call.at)}

CrossSourceEdges(nodes, edges) ==
    LET resources == {n \in nodes : n.kind = "resource"}
        writers == {n \in resources : \E e \in edges : e.to = n.at /\ e.kind \in {"write", "persist"}}
        readers == {n \in resources : \E e \in edges : e.from = n.at /\ e.kind \in {"read", "data"}}
    IN  {Edge("persist", pair[1].at, pair[2].at, "none") :
           pair \in {p \in writers \X readers : /\ p[1].name = p[2].name
                                                /\ SourceOf(p[1].at) # SourceOf(p[2].at)}}

Compose(graphs) ==
    LET fragments == [s \in DOMAIN graphs |-> Shifted(graphs[s], s)]
        all == UNION {fragments[s].nodes : s \in DOMAIN fragments}
        calls == {n \in all : n.kind = "call" /\ LocalTargets(fragments, n) # {}}
        local == UNION {{Edge(k, c.at, x, "local-unit") :
                           k \in {"call", "control"},
                           x \in UNION {fragments[s].entrypoints : s \in LocalTargets(fragments, c)}} :
                          c \in calls}
        edges == local \cup UNION {fragments[s].edges : s \in DOMAIN fragments}
    IN  [nodes |-> {IF n \in calls THEN [n EXCEPT !.unknown = {}] ELSE n : n \in all},
         edges |-> edges \cup CrossSourceEdges(all, edges),
         entrypoints |-> UNION {fragments[s].entrypoints : s \in DOMAIN fragments}]

-----------------------------------------------------------------------------
NodesOf(g) == DOMAIN g.node
Validate(g) ==
    {e \in g.edges : /\ e.kind = "data"
                     /\ PhaseRank[g.node[e.from].phase] > PhaseRank[g.node[e.to].phase]}

-----------------------------------------------------------------------------
AllKinds == {"control", "data", "call", "grant", "persist", "read", "write"}
DataKinds == {"data", "read", "write", "persist"}

Successors(g, n, kinds) == {e.to : e \in {x \in g.edges : x.from = n /\ x.kind \in kinds}}
Outgoing(g, n, kinds) == Ascending(Successors(g, n, kinds))
Incoming(g, n) == {e.from : e \in {x \in g.edges : x.to = n}}

(* A breadth-first search.  The code keeps for every node that was seen    *)
(* the one before it, from which a path is read back; here the queue holds *)
(* the paths themselves.                                                   *)
ShortestPath(g, from, to, kinds) ==
    LET search[state \in Seq(Seq(Int)) \X SUBSET Int] ==
            LET queue == state[1]
                path == Head(queue)
                fresh == Successors(g, path[Len(path)], kinds) \ state[2]
                longer == [i \in 1..Cardinality(fresh) |-> Append(path, Ascending(fresh)[i])]
            IN  IF queue = <<>> THEN <<>>
                ELSE IF path[Len(path)] = to THEN path
                ELSE search[<<Tail(queue) \o longer, state[2] \cup fresh>>]
    IN  search[<< <<<<from>>>>, {from} >>]
HasPath(g, from, to, kinds) == ShortestPath(g, from, to, kinds) # <<>>

(* What can be reached from a set of nodes without entering the avoided.   *)
Spread(g, kinds, avoided, from) ==
    LET spread[seen \in SUBSET Int] ==
            LET next == {e.to : e \in {x \in g.edges : x.from \in seen /\ x.kind \in kinds}} \ avoided
            IN  IF next \subseteq seen THEN seen ELSE spread[seen \cup next]
    IN  spread[from]

Reachable(g, from) == Spread(g, AllKinds, {}, {from})

PathAvoiding(g, from, to, avoided) ==
    /\ from # avoided
    /\ to \in Spread(g, {"control", "call"}, {avoided}, {from})

Dominates(g, dominator, n) ==
    \/ dominator = n
    \/ LET entry == IF g.entrypoints = {} THEN {m \in NodesOf(g) : Incoming(g, m) = {}}
                    ELSE g.entrypoints
       IN  entry # {} /\ \A e \in entry : ~PathAvoiding(g, e, n, dominator)

(* The depth-first search for cycles: a node on the stack closes one, a    *)
(* node already left is not entered again.  A cycle is rotated so that its *)
(* least node comes first.                                                 *)
CanonicalCycle(c) ==
    LET least == CHOOSE i \in DOMAIN c : \A j \in DOMAIN c : c[i] <= c[j]
    IN  SubSeq(c, least, Len(c)) \o SubSeq(c, 1, least)

Marks == [visited : SUBSET Int, cycles : SUBSET Seq(Int)]

(* A slip a maintainer could make: a node is left as soon as it is entered. *)
Visit_LeftOnEntry(g, kinds, entered, before) ==
    LET visit[current \in Int, visiting \in Seq(Int), found \in Marks] ==
            IF current \in found.visited THEN found
            ELSE LET step(result, next) == visit[next, Append(visiting, current), result]
                 IN  FoldLeft(step, [found EXCEPT !.visited = @ \cup {current}],
                              Outgoing(g, current, kinds))
    IN  visit[entered, <<>>, before]

Visit(g, kinds, entered, before) ==
    LET visit[current \in Int, visiting \in Seq(Int), found \in Marks] ==
            IF current \in Range(visiting)
            THEN LET position == CHOOSE i \in DOMAIN visiting : visiting[i] = current
                 IN  [found EXCEPT !.cycles = @ \cup
                         {CanonicalCycle(SubSeq(visiting, position, Len(visiting)))}]
            ELSE IF current \in found.visited THEN found
            ELSE LET step(result, next) == visit[next, Append(visiting, current), result]
                     after == FoldLeft(step, found, Outgoing(g, current, kinds))
                 IN  [after EXCEPT !.visited = @ \cup {current}]
    IN  visit[entered, <<>>, before]

Cycles(g, kinds) ==
    FoldLeft(LAMBDA found, n : Visit(g, kinds, n, found),
             [visited |-> {}, cycles |-> {}],
             [i \in NodesOf(g) |-> i]).cycles
=============================================================================
