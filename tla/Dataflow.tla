------------------------------ MODULE Dataflow ------------------------------
(***************************************************************************)
(* The work-list fixed point of the verifier (verifier/mod.rs,             *)
(* Dataflow::solve): every node starts with the join of its attributes, is *)
(* queued once, and a popped node is joined into the targets of its        *)
(* propagating edges; a target that changed is queued unless it already    *)
(* is.  An endpoint that no node declares starts at the bottom, unqueued.  *)
(***************************************************************************)
EXTENDS Integers, Sequences, FiniteSets, Functions

CONSTANTS Node, Value, Join(_, _), Bottom

ASSUME NodeAssumption == Node \subseteq Int /\ IsFiniteSet(Node)

(* What the solver needs of its domain: a join semilattice with a bottom.  *)
ASSUME JoinAssumption ==
    /\ Bottom \in Value
    /\ \A a, b \in Value : Join(a, b) \in Value
    /\ \A a \in Value : Join(a, a) = a
    /\ \A a \in Value : Join(a, Bottom) = a /\ Join(Bottom, a) = a
    /\ \A a, b \in Value : Join(a, b) = Join(b, a)
    /\ \A a, b, c \in Value : Join(Join(a, b), c) = Join(a, Join(b, c))

VARIABLES
    flow,      \* the propagating edges, pairs of a source and a target
    initial,   \* the join of each node's own attributes
    values,    \* the value each node has reached
    queue      \* the nodes whose value is still to be pushed

dataflowVars == <<flow, initial, values, queue>>

Below(a, b) == Join(b, a) = b

(* The members of a set of nodes in the order of their identifiers.        *)
Listing(S) ==
    [i \in 1..Cardinality(S) |->
        CHOOSE x \in S : Cardinality({y \in S : y < x}) = i - 1]

SolveInit(declared, edges, attributes) ==
    /\ flow = edges
    /\ initial = [n \in Node |-> IF n \in declared THEN attributes[n] ELSE Bottom]
    /\ values = initial
    /\ queue = Listing(declared)

Pushed(source) ==
    [n \in Node |-> IF <<source, n>> \in flow
                    THEN Join(values[n], values[source]) ELSE values[n]]

(* Slips a maintainer could make: one sweep in the order of the            *)
(* identifiers, and every target queued, changed or not.                   *)
Propagate_OneSweep ==
    /\ queue # <<>>
    /\ values' = Pushed(Head(queue))
    /\ queue' = Tail(queue) \o Listing({n \in Node : /\ values'[n] # values[n]
                                                     /\ n > Head(queue)
                                                     /\ n \notin Range(Tail(queue))})
    /\ UNCHANGED <<flow, initial>>
Propagate_Always ==
    /\ queue # <<>>
    /\ values' = Pushed(Head(queue))
    /\ queue' = Tail(queue) \o Listing({n \in Node : /\ <<Head(queue), n>> \in flow
                                                     /\ n \notin Range(Tail(queue))})
    /\ UNCHANGED <<flow, initial>>

Propagate ==
    /\ queue # <<>>
    /\ values' = Pushed(Head(queue))
    /\ queue' = Tail(queue) \o Listing({n \in Node : /\ values'[n] # values[n]
                                                     /\ n \notin Range(Tail(queue))})
    /\ UNCHANGED <<flow, initial>>

Solved == queue = <<>>

(* The solver on its own, over any graph and any attributes.               *)
DataflowSpec ==
    /\ \E declared \in SUBSET Node, edges \in SUBSET (Node \X Node) :
           \E attributes \in [declared -> Value] : SolveInit(declared, edges, attributes)
    /\ [][Propagate]_dataflowVars

-----------------------------------------------------------------------------
DataflowTypeOK ==
    /\ flow \subseteq Node \X Node
    /\ initial \in [Node -> Value]
    /\ values \in [Node -> Value]
    /\ queue \in Seq(Node)

(* No value is lost on the way: whatever a node has to say to a successor  *)
(* has been said, or the node waits in the queue to say it.                *)
Absorbed ==
    \A e \in flow : e[1] \in Range(queue) \/ Below(values[e[1]], values[e[2]])

(* A node never forgets an attribute of its own.                           *)
KeepsOwn == \A n \in Node : Below(initial[n], values[n])

(* Nothing is invented: a value stays below every assignment that is       *)
(* closed under the edges and above the attributes.                        *)
Closed(p) == /\ \A n \in Node : Below(initial[n], p[n])
             /\ \A e \in flow : Below(p[e[1]], p[e[2]])
Least == \A p \in [Node -> Value] :
             Closed(p) => \A n \in Node : Below(values[n], p[n])

(* When the queue runs dry every edge is satisfied: the rules, which read  *)
(* the values only then, see a value that holds whatever flows into it.    *)
FixpointReached == Solved => Closed(values)

DInv == DataflowTypeOK /\ Absorbed /\ KeepsOwn

=============================================================================
