----------------------------- MODULE GraphProofs -----------------------------
(***************************************************************************)
(* What WorkflowGraph's searches find.  They are modelled by functions     *)
(* that call themselves last: loops whose argument is the loop's state.    *)
(* Such a function exists, whether the loop ends or not; and a loop that   *)
(* only adds to a set, within a finite one, ends with the least set that   *)
(* is closed under its step.  Folds over finite sets and functions that    *)
(* recur on something smaller exist too.                                   *)
(***************************************************************************)
EXTENDS WorkflowGraph, FiniteSetTheorems, WellFoundedInduction, TLAPS

(* A set that has zero and is closed under successor has every number.     *)
LEMMA Upwards ==
    ASSUME NEW S, 0 \in S, \A n \in Nat : n \in S => n + 1 \in S
    PROVE  Nat \subseteq S
<1> DEFINE R == OpToRel(<, Nat)
           T == Nat \ S
<1> SUFFICES ASSUME T # {} PROVE FALSE OBVIOUS
<1>1. PICK x \in T : \A y \in T : ~(<<y, x>> \in R)
  BY WFMin, NatLessThanWellFounded, Zenon
<1>2. x \in Nat /\ x # 0 /\ x \notin S
  OBVIOUS
<1>3. x - 1 \in Nat /\ (x - 1) + 1 = x /\ x - 1 < x
  BY <1>2
<1>4. <<x - 1, x>> \in R
  BY <1>2, <1>3 DEF OpToRel
<1>5. x - 1 \notin T
  BY <1>1, <1>4
<1> QED BY <1>2, <1>3, <1>5

(* A set of numbers has a least one.                                       *)
LEMMA LeastMember ==
    ASSUME NEW S \in SUBSET Nat, S # {}
    PROVE  \E x \in S : \A y \in S : x <= y
<1> DEFINE R == OpToRel(<, Nat)
<1>1. PICK x \in S : \A y \in S : ~(<<y, x>> \in R)
  BY WFMin, NatLessThanWellFounded, Zenon
<1>2. \A y \in S : <<y, x>> \in Nat \X Nat /\ (y < x => <<y, x>> \in R)
  BY DEF OpToRel
<1>3. \A y \in S : x \in Nat /\ y \in Nat /\ ~(y < x)
  BY <1>1, <1>2
<1>4. \A y \in S : x <= y
  BY <1>3
<1> QED BY <1>4

(* The states that a loop comes through from one of them.                  *)
Orbit(S, done, step, s) ==
    {x \in S : \A C \in SUBSET S :
                   s \in C /\ (\A y \in C : y \notin done => step[y] \in C) => x \in C}

LEMMA OrbitOfDone ==
    ASSUME NEW S, NEW done, NEW step \in [S -> S], NEW s \in S, s \in done
    PROVE  Orbit(S, done, step, s) = {s}
<1>1. {s} \in SUBSET S /\ s \in {s} /\ (\A y \in {s} : y \notin done => step[y] \in {s})
  OBVIOUS
<1>2. \A x \in Orbit(S, done, step, s) : x \in {s}
  BY <1>1 DEF Orbit
<1>3. s \in Orbit(S, done, step, s)
  BY DEF Orbit
<1> QED BY <1>2, <1>3

LEMMA OrbitOfStep ==
    ASSUME NEW S, NEW done, NEW step \in [S -> S], NEW s \in S, s \notin done
    PROVE  Orbit(S, done, step, s) \cap done = Orbit(S, done, step, step[s]) \cap done
<1> DEFINE Kept(C) == \A y \in C : y \notin done => step[y] \in C
           t == step[s]
<1>1. t \in S
  OBVIOUS
<1>2. ASSUME NEW x \in Orbit(S, done, step, s), x \in done
      PROVE  x \in Orbit(S, done, step, t)
  <2>1. SUFFICES ASSUME NEW C \in SUBSET S, t \in C, Kept(C) PROVE x \in C
    BY <1>2 DEF Orbit
  <2>2. C \cup {s} \in SUBSET S /\ s \in C \cup {s} /\ Kept(C \cup {s})
    BY <2>1
  <2>3. x \in C \cup {s}
    BY <1>2, <2>2 DEF Orbit
  <2> QED BY <2>3, <1>2
<1>3. ASSUME NEW x \in Orbit(S, done, step, t)
      PROVE  x \in Orbit(S, done, step, s)
  <2>1. SUFFICES ASSUME NEW C \in SUBSET S, s \in C, Kept(C) PROVE x \in C
    BY <1>3 DEF Orbit
  <2>2. t \in C
    BY <2>1
  <2> QED BY <1>3, <2>1, <2>2 DEF Orbit
<1> QED BY <1>2, <1>3

(* A loop as a function: it steps until it is done, and yields its output. *)
IsLoop(S, done, step, out, f) ==
    f = [s \in S |-> IF s \in done THEN out[s] ELSE f[step[s]]]

(* A loop has a meaning: what it yields at the end, if it comes to one.    *)
LEMMA LoopExists ==
    ASSUME NEW S, NEW done, NEW step \in [S -> S], NEW out
    PROVE  \E f : IsLoop(S, done, step, out, f)
<1> DEFINE End(s) == CHOOSE x : x \in Orbit(S, done, step, s) \cap done
           f == [s \in S |-> out[End(s)]]
<1>1. ASSUME NEW s \in S, s \in done PROVE f[s] = out[s]
  <2>1. Orbit(S, done, step, s) \cap done = {s}
    BY <1>1, OrbitOfDone
  <2> QED BY <2>1
<1>2. ASSUME NEW s \in S, s \notin done PROVE f[s] = f[step[s]]
  <2>1. step[s] \in S
    OBVIOUS
  <2>2. End(s) = End(step[s])
    BY <1>2, OrbitOfStep
  <2>3. f[s] = out[End(s)] /\ f[step[s]] = out[End(step[s])]
    BY <2>1
  <2> HIDE DEF End, f
  <2> QED BY <2>2, <2>3
<1>3. f = [s \in S |-> IF s \in done THEN out[s] ELSE f[step[s]]]
  BY <1>1, <1>2
<1> QED BY <1>3 DEF IsLoop

-----------------------------------------------------------------------------
(* A step that adds to a set, and no less to a greater one.                *)
Grows(U, grow) ==
    /\ grow \in [SUBSET U -> SUBSET U]
    /\ \A A \in SUBSET U : A \subseteq grow[A]
    /\ \A A, B \in SUBSET U : A \subseteq B => grow[A] \subseteq grow[B]

LeastShut(U, grow, A, end) ==
    /\ end \in SUBSET U /\ A \subseteq end /\ grow[end] = end
    /\ \A C \in SUBSET U : A \subseteq C /\ grow[C] \subseteq C => end \subseteq C

(* How much of a finite set is still to be added.                          *)
Left(F, B) == Cardinality(F \ B)

LEMMA LeftShrinks ==
    ASSUME NEW F, IsFiniteSet(F), NEW B, NEW C, B \subseteq C
    PROVE  /\ Left(F, B) \in Nat
           /\ \A x \in C : x \in F /\ x \notin B => Left(F, C) < Left(F, B)
<1>1. IsFiniteSet(F \ B) /\ Cardinality(F \ B) \in Nat
  BY FS_Difference, FS_CardinalityType
<1>2. ASSUME NEW x \in C, x \in F, x \notin B
      PROVE  Left(F, C) < Left(F, B)
  <2>1. F \ C \in SUBSET (F \ B) /\ F \ C # F \ B
    BY <1>2
  <2>2. PICK small, great : small = F \ C /\ great = F \ B
    OBVIOUS
  <2>3. IsFiniteSet(great) /\ small \in SUBSET great /\ small # great
    BY <1>1, <2>1, <2>2
  <2>4. /\ IsFiniteSet(small) /\ Cardinality(small) <= Cardinality(great)
        /\ Cardinality(great) = Cardinality(small) => great = small
    BY <2>3, FS_Subset
  <2>5. Cardinality(small) \in Nat /\ Cardinality(great) \in Nat
    BY <2>3, <2>4, FS_CardinalityType
  <2>6. Cardinality(small) < Cardinality(great)
    BY <2>3, <2>4, <2>5
  <2> QED BY <2>2, <2>6 DEF Left
<1> QED BY <1>1, <1>2 DEF Left

(* The loop as a function.                                                 *)
IsGrowth(U, grow, f) ==
    f = [A \in SUBSET U |-> IF grow[A] = A THEN A ELSE f[grow[A]]]

(* What is added comes from a finite set, so the loop ends.                *)
LEMMA GrowthEnds ==
    ASSUME NEW U, NEW grow, Grows(U, grow),
           NEW F, IsFiniteSet(F), \A A \in SUBSET U : grow[A] \subseteq A \cup F,
           NEW f, IsGrowth(U, grow, f), NEW A \in SUBSET U
    PROVE  LeastShut(U, grow, A, f[A])
<1>0. f = [B \in SUBSET U |-> IF grow[B] = B THEN B ELSE f[grow[B]]]
  BY DEF IsGrowth
<1> DEFINE Ends(n) == \A B \in SUBSET U : Left(F, B) <= n => LeastShut(U, grow, B, f[B])
           S == {n \in Nat : Ends(n)}
<1>1. ASSUME NEW B \in SUBSET U
      PROVE  Left(F, B) \in Nat
  BY LeftShrinks
<1>2. ASSUME NEW B \in SUBSET U, grow[B] = B
      PROVE  LeastShut(U, grow, B, f[B])
  <2>1. f[B] = B
    BY <1>0, <1>2
  <2> QED BY <1>2, <2>1 DEF LeastShut
<1>3. ASSUME NEW B \in SUBSET U, grow[B] # B
      PROVE  grow[B] \in SUBSET U /\ Left(F, grow[B]) < Left(F, B) /\ f[B] = f[grow[B]]
  <2>1. grow[B] \in SUBSET U /\ B \subseteq grow[B] /\ grow[B] \subseteq B \cup F
    BY DEF Grows
  <2>2. PICK x \in grow[B] : x \notin B
    BY <1>3, <2>1
  <2>3. x \in F
    BY <2>1, <2>2
  <2>4. \A y \in grow[B] : y \in F /\ y \notin B => Left(F, grow[B]) < Left(F, B)
    BY <2>1, LeftShrinks
  <2>5. Left(F, grow[B]) < Left(F, B)
    BY <2>2, <2>3, <2>4
  <2>6. f[B] = f[grow[B]]
    BY <1>0, <1>3
  <2> QED BY <2>1, <2>5, <2>6
<1>4. 0 \in S
  <2>1. SUFFICES ASSUME NEW B \in SUBSET U, Left(F, B) <= 0
                 PROVE  LeastShut(U, grow, B, f[B])
    BY DEF S
  <2>2. CASE grow[B] # B
    <3>1. Left(F, grow[B]) < Left(F, B) /\ Left(F, grow[B]) \in Nat /\ Left(F, B) \in Nat
      BY <1>1, <1>3, <2>2
    <3> QED BY <2>1, <3>1
  <2> QED BY <1>2, <2>2
<1>5. ASSUME NEW n \in Nat, n \in S PROVE n + 1 \in S
  <2>1. n + 1 \in Nat
    OBVIOUS
  <2>2. SUFFICES Ends(n + 1)
    <3> HIDE DEF Ends
    <3> QED BY <2>1
  <2> SUFFICES ASSUME NEW B \in SUBSET U, Left(F, B) <= n + 1
               PROVE  LeastShut(U, grow, B, f[B])
    OBVIOUS
  <2>3. CASE grow[B] # B
    <3>1. /\ grow[B] \in SUBSET U /\ Left(F, grow[B]) < Left(F, B) /\ f[B] = f[grow[B]]
          /\ Left(F, grow[B]) \in Nat /\ Left(F, B) \in Nat
      BY <1>1, <1>3, <2>3
    <3>2. Left(F, grow[B]) <= n
      BY <3>1
    <3>3. LeastShut(U, grow, grow[B], f[B])
      BY <1>5, <3>1, <3>2
    <3> QED BY <3>3 DEF LeastShut, Grows
  <2> QED BY <1>2, <2>3
<1> HIDE DEF S
<1>6. Nat \subseteq S
  BY <1>4, <1>5, Upwards, Zenon
<1>7. Left(F, A) \in Nat /\ Left(F, A) <= Left(F, A)
  BY <1>1
<1> QED BY <1>6, <1>7 DEF S

(* What a search that adds to a set ends with: the least set that has the  *)
(* start and to which nothing is to be added.                              *)
LeastClosed(U, add, A, end) ==
    /\ end \in SUBSET U /\ A \subseteq end /\ add[end] \subseteq end
    /\ \A C \in SUBSET U : A \subseteq C /\ add[C] \subseteq C => end \subseteq C

(* The search as a function that calls itself.                             *)
IsClosure(U, add, f) ==
    f = CHOOSE g : g = [s \in SUBSET U |-> IF add[s] \subseteq s THEN s ELSE g[s \cup add[s]]]

LEMMA ClosureIsLeast ==
    ASSUME NEW U, NEW F \in SUBSET U, IsFiniteSet(F), NEW add \in [SUBSET U -> SUBSET F],
           \A A, B \in SUBSET U : A \subseteq B => add[A] \subseteq add[B],
           NEW f, IsClosure(U, add, f), NEW A \in SUBSET U
    PROVE  LeastClosed(U, add, A, f[A]) /\ f[A] \subseteq A \cup F
<1> DEFINE grow == [s \in SUBSET U |-> s \cup add[s]]
           Step(g) == [s \in SUBSET U |-> IF add[s] \subseteq s THEN s ELSE g[s \cup add[s]]]
           Turn(g) == [s \in SUBSET U |-> IF grow[s] = s THEN s ELSE g[grow[s]]]
           done == {s \in SUBSET U : grow[s] = s}
           out == [s \in SUBSET U |-> s]
<1>1. \A s \in SUBSET U : add[s] \in SUBSET F /\ grow[s] = s \cup add[s]
  OBVIOUS
<1>2. \A g : Step(g) = Turn(g)
  <2> TAKE g
  <2>1. ASSUME NEW s \in SUBSET U PROVE Step(g)[s] = Turn(g)[s]
    <3>1. add[s] \subseteq s <=> grow[s] = s
      BY <1>1
    <3> HIDE DEF grow
    <3> QED BY <1>1, <3>1
  <2> HIDE DEF grow
  <2> QED BY <2>1
<1>3. grow \in [SUBSET U -> SUBSET U]
  <2>1. \A s \in SUBSET U : s \cup add[s] \in SUBSET U
    BY <1>1
  <2> QED BY <2>1
<1> HIDE DEF grow
<1>4. \E g : g = Turn(g)
  <2>1. PICK g : IsLoop(SUBSET U, done, grow, out, g)
    <3> HIDE DEF done, out
    <3> QED BY <1>3, LoopExists
  <2>2. ASSUME NEW s \in SUBSET U
        PROVE  (IF s \in done THEN out[s] ELSE g[grow[s]]) = (IF grow[s] = s THEN s ELSE g[grow[s]])
    OBVIOUS
  <2>3. g = [s \in SUBSET U |-> IF s \in done THEN out[s] ELSE g[grow[s]]]
    BY <2>1 DEF IsLoop
  <2> HIDE DEF done, out
  <2>4. g = Turn(g)
    BY <2>2, <2>3
  <2> HIDE DEF Turn
  <2> QED BY <2>4
<1>5. f = Turn(f)
  <2>1. f = CHOOSE g : g = Step(g)
    BY DEF IsClosure
  <2> HIDE DEF Step, Turn
  <2> QED BY <1>2, <1>4, <2>1
<1>6. Grows(U, grow)
  BY <1>1, <1>3 DEF Grows
<1>7. \A B \in SUBSET U : grow[B] \subseteq B \cup F
  BY <1>1
<1>8. LeastShut(U, grow, A, f[A])
  <2>1. IsGrowth(U, grow, f)
    BY <1>5 DEF IsGrowth
  <2> QED BY <1>6, <1>7, <2>1, GrowthEnds
<1>9. \A C \in SUBSET U : grow[C] \subseteq C <=> add[C] \subseteq C
  BY <1>1
<1>10. LeastClosed(U, add, A, f[A])
  BY <1>8, <1>9 DEF LeastShut, LeastClosed
<1>11. A \cup F \in SUBSET U /\ add[A \cup F] \subseteq A \cup F
  BY <1>1
<1> QED BY <1>10, <1>11 DEF LeastClosed

-----------------------------------------------------------------------------
(* A fold over a finite set: what is picked is worked into the fold of the *)
(* rest.                                                                   *)
IsFold(S, base, pick, op, f) ==
    f = [s \in SUBSET S |-> IF s = {} THEN base ELSE op[<<pick[s], f[s \ {pick[s]}]>>]]

LEMMA FoldExists ==
    ASSUME NEW S, IsFiniteSet(S), NEW pick, \A s \in SUBSET S : s # {} => pick[s] \in s,
           NEW V, NEW base \in V, NEW op \in [S \X V -> V]
    PROVE  \E f \in [SUBSET S -> V] : IsFold(S, base, pick, op, f)
<1> DEFINE worked(f, s) == IF s = {} THEN base ELSE op[<<pick[s], f[s \ {pick[s]}]>>]
           Upto(n, f) == /\ f \in [SUBSET S -> V]
                         /\ \A s \in SUBSET S : Cardinality(s) <= n => f[s] = worked(f, s)
           N == {n \in Nat : \E f : Upto(n, f)}
<1>1. ASSUME NEW s \in SUBSET S
      PROVE  /\ Cardinality(s) \in Nat /\ Cardinality(s) <= Cardinality(S)
             /\ Cardinality(s) = 0 <=> s = {}
             /\ s # {} => /\ s \ {pick[s]} \in SUBSET S
                          /\ Cardinality(s \ {pick[s]}) = Cardinality(s) - 1
  BY FS_Subset, FS_CardinalityType, FS_EmptySet, FS_RemoveElement
<1>2. 0 \in N
  <2> DEFINE f == [s \in SUBSET S |-> base]
  <2>1. f \in [SUBSET S -> V]
    OBVIOUS
  <2>2. ASSUME NEW s \in SUBSET S, Cardinality(s) <= 0 PROVE f[s] = worked(f, s)
    <3>1. Cardinality(s) \in Nat
      BY <1>1
    <3>2. Cardinality(s) = 0
      BY <2>2, <3>1
    <3>3. s = {}
      BY <1>1, <3>2
    <3> QED BY <3>3
  <2> HIDE DEF f, worked
  <2>3. Upto(0, f)
    BY <2>1, <2>2
  <2> HIDE DEF Upto
  <2> QED BY <2>3
<1>3. ASSUME NEW n \in Nat, n \in N PROVE n + 1 \in N
  <2>1. PICK f : Upto(n, f)
    BY <1>3
  <2> DEFINE h == [s \in SUBSET S |-> IF Cardinality(s) = n + 1 THEN worked(f, s) ELSE f[s]]
  <2>2. ASSUME NEW s \in SUBSET S, Cardinality(s) <= n + 1 PROVE h[s] = worked(h, s)
    <3>1. ASSUME s # {} PROVE h[s \ {pick[s]}] = f[s \ {pick[s]}]
      <4>1. /\ s \ {pick[s]} \in SUBSET S /\ Cardinality(s \ {pick[s]}) = Cardinality(s) - 1
            /\ Cardinality(s) \in Nat
        BY <1>1, <3>1
      <4>2. Cardinality(s \ {pick[s]}) # n + 1
        BY <2>2, <4>1
      <4> HIDE DEF worked
      <4> QED BY <4>1, <4>2
    <3>2. worked(h, s) = worked(f, s)
      <4> HIDE DEF h
      <4> QED BY <3>1
    <3>3. CASE Cardinality(s) = n + 1
      <4> HIDE DEF worked
      <4> QED BY <3>2, <3>3
    <3>4. CASE Cardinality(s) # n + 1
      <4>0. Cardinality(s) \in Nat
        BY <1>1
      <4>1. Cardinality(s) <= n
        BY <2>2, <3>4, <4>0
      <4>2. f[s] = worked(f, s)
        BY <2>1, <4>1
      <4> HIDE DEF worked
      <4> QED BY <3>2, <3>4, <4>2
    <3> QED BY <3>3, <3>4
  <2>3. h \in [SUBSET S -> V]
    <3>1. ASSUME NEW s \in SUBSET S PROVE worked(f, s) \in V
      <4>1. CASE s # {}
        <5>1. pick[s] \in S /\ f[s \ {pick[s]}] \in V
          BY <2>1, <4>1
        <5>2. op[<<pick[s], f[s \ {pick[s]}]>>] \in V
          BY <5>1
        <5> QED BY <4>1, <5>2
      <4> QED BY <4>1
    <3>2. \A s \in SUBSET S : f[s] \in V
      BY <2>1
    <3> HIDE DEF worked
    <3> QED BY <3>1, <3>2
  <2> HIDE DEF h, worked
  <2>4. Upto(n + 1, h)
    BY <2>2, <2>3
  <2> HIDE DEF Upto
  <2> QED BY <2>4
<1> HIDE DEF N
<1>4. Nat \subseteq N
  BY <1>2, <1>3, Upwards
<1>5. Cardinality(S) \in Nat
  BY FS_CardinalityType
<1>6. PICK f : Upto(Cardinality(S), f)
  BY <1>4, <1>5 DEF N
<1>7. f = [s \in SUBSET S |-> worked(f, s)]
  <2> HIDE DEF worked
  <2>1. \A s \in SUBSET S : f[s] = worked(f, s)
    BY <1>1, <1>6
  <2>2. f = [s \in SUBSET S |-> f[s]]
    BY <1>6
  <2> QED BY <2>1, <2>2
<1>8. IsFold(S, base, pick, op, f)
  BY <1>7 DEF IsFold
<1> QED BY <1>6, <1>8

(* A function that calls itself on what is smaller exists, as long as      *)
(* sizes are bounded.                                                      *)
Recursion(D, V, size, most, next) ==
    /\ V # {} /\ size \in [D -> Nat] /\ most \in Nat /\ \A x \in D : size[x] <= most
    /\ next \in [[D -> V] \X D -> V]
    /\ \A f, h \in [D -> V] : \A x \in D :
           (\A y \in D : size[y] < size[x] => f[y] = h[y]) => next[<<f, x>>] = next[<<h, x>>]

LEMMA RecursionExists ==
    ASSUME NEW D, NEW V, NEW size, NEW most, NEW next, Recursion(D, V, size, most, next)
    PROVE  \E f \in [D -> V] : \A x \in D : f[x] = next[<<f, x>>]
<1> USE DEF Recursion
<1> DEFINE Upto(n, f) == f \in [D -> V] /\ \A x \in D : size[x] < n => f[x] = next[<<f, x>>]
           N == {n \in Nat : \E f : Upto(n, f)}
<1>1. 0 \in N
  <2>0. PICK any : any \in V
    OBVIOUS
  <2> DEFINE f == [x \in D |-> any]
  <2>1. f \in [D -> V] /\ \A x \in D : ~(size[x] < 0)
    BY <2>0
  <2> HIDE DEF f
  <2> QED BY <2>1
<1>2. ASSUME NEW n \in Nat, n \in N PROVE n + 1 \in N
  <2>1. PICK f : Upto(n, f)
    BY <1>2
  <2> DEFINE h == [x \in D |-> IF size[x] = n THEN next[<<f, x>>] ELSE f[x]]
  <2>2. h \in [D -> V]
    BY <2>1
  <2>3. \A x \in D : h[x] = IF size[x] = n THEN next[<<f, x>>] ELSE f[x]
    OBVIOUS
  <2> HIDE DEF h
  <2>4. ASSUME NEW x \in D, size[x] < n + 1 PROVE h[x] = next[<<h, x>>]
    <3>0. size[x] \in Nat /\ size[x] <= n
      BY <2>4
    <3>1. \A y \in D : size[y] < size[x] => f[y] = h[y]
      <4> SUFFICES ASSUME NEW y \in D, size[y] < size[x] PROVE f[y] = h[y]
        OBVIOUS
      <4>1. size[y] # n
        BY <3>0
      <4> QED BY <2>3, <4>1
    <3>2. next[<<f, x>>] = next[<<h, x>>]
      BY <2>1, <2>2, <3>1
    <3>3. h[x] = next[<<f, x>>]
      <4>1. CASE size[x] = n
        BY <2>3, <4>1
      <4>2. CASE size[x] # n
        <5>1. size[x] < n
          BY <3>0, <4>2
        <5> QED BY <2>1, <2>3, <4>2, <5>1
      <4> QED BY <4>1, <4>2
    <3> QED BY <3>2, <3>3
  <2>5. Upto(n + 1, h)
    BY <2>2, <2>4
  <2> HIDE DEF Upto
  <2> QED BY <2>5
<1> HIDE DEF N
<1>3. Nat \subseteq N
  BY <1>1, <1>2, Upwards
<1>4. PICK f : Upto(most + 1, f)
  <2>1. most + 1 \in N
    BY <1>3
  <2> QED BY <2>1 DEF N
<1>5. \A x \in D : size[x] < most + 1
  OBVIOUS
<1> QED BY <1>4, <1>5

-----------------------------------------------------------------------------
LEMMA RangeOfConcatenation ==
    ASSUME NEW T, NEW p \in Seq(T), NEW q \in Seq(T)
    PROVE  Range(p \o q) = Range(p) \cup Range(q)
<1>1. \A i \in 1 .. Len(p) : (p \o q)[i] = p[i] OBVIOUS
<1>2. \A i \in 1 .. Len(q) : (p \o q)[Len(p) + i] = q[i] OBVIOUS
<1>3. DOMAIN (p \o q) = 1 .. Len(p) + Len(q) /\ DOMAIN p = 1 .. Len(p)
          /\ DOMAIN q = 1 .. Len(q)
    OBVIOUS
<1>4. ASSUME NEW i \in 1 .. Len(p) + Len(q) PROVE (p \o q)[i] \in Range(p) \cup Range(q)
    <2>1. CASE i \in 1 .. Len(p) BY <1>1, <1>3, <2>1 DEF Range
    <2>2. CASE i \notin 1 .. Len(p)
        <3>1. i - Len(p) \in 1 .. Len(q) /\ i = Len(p) + (i - Len(p)) BY <2>2
        <3>2. (p \o q)[i] = q[i - Len(p)] BY <1>2, <3>1
        <3>3. QED BY <1>3, <3>1, <3>2 DEF Range
    <2>3. QED BY <2>1, <2>2
<1>5. \A i \in 1 .. Len(p) : p[i] \in Range(p \o q)
    <2>1. \A i \in 1 .. Len(p) : i \in 1 .. Len(p) + Len(q) OBVIOUS
    <2>2. QED BY <1>1, <1>3, <2>1 DEF Range
<1>6. \A i \in 1 .. Len(q) : q[i] \in Range(p \o q)
    <2>1. \A i \in 1 .. Len(q) : Len(p) + i \in 1 .. Len(p) + Len(q) OBVIOUS
    <2>2. QED BY <1>2, <1>3, <2>1 DEF Range
<1>7. Range(p \o q) \subseteq Range(p) \cup Range(q)
    <2>1. \A v \in Range(p \o q) : \E i \in 1 .. Len(p) + Len(q) : v = (p \o q)[i]
        BY <1>3 DEF Range
    <2>2. QED BY <1>4, <2>1
<1>8. Range(p) \subseteq Range(p \o q) /\ Range(q) \subseteq Range(p \o q)
    <2>1. \A v \in Range(p) : \E i \in 1 .. Len(p) : v = p[i] BY <1>3 DEF Range
    <2>2. \A v \in Range(q) : \E i \in 1 .. Len(q) : v = q[i] BY <1>3 DEF Range
    <2>3. QED BY <1>5, <1>6, <2>1, <2>2
<1>9. QED BY <1>7, <1>8

LEMMA RangeOfQueue ==
    ASSUME NEW T, NEW q \in Seq(T), q # <<>>
    PROVE  /\ Head(q) \in T /\ Tail(q) \in Seq(T)
           /\ Range(q) = {Head(q)} \cup Range(Tail(q))
<1>1. Head(q) \in T /\ Tail(q) \in Seq(T) /\ q = <<Head(q)>> \o Tail(q) OBVIOUS
<1> DEFINE p == <<Head(q)>>
           r == Tail(q)
<1>2. p \in Seq(T) /\ r \in Seq(T) BY <1>1
<1>3. Range(p) = {Head(q)} BY <1>1 DEF Range
<1>4. q = p \o r BY <1>1
<1>5. Range(q) = Range(p) \cup Range(r)
    <2> HIDE DEF p, r
    <2>1. Range(p \o r) = Range(p) \cup Range(r) BY <1>2, RangeOfConcatenation
    <2>2. QED BY <1>4, <2>1
<1>6. QED BY <1>1, <1>3, <1>5

(* What the sequences of a sequence are joined to.                         *)
LEMMA FlattenJoins ==
    ASSUME NEW T, NEW n \in Nat, NEW seqs \in [1 .. n -> Seq(T)]
    PROVE  /\ FlattenSeq(seqs) \in Seq(T)
           /\ Range(FlattenSeq(seqs)) = UNION {Range(seqs[i]) : i \in 1 .. n}
<1> DEFINE D == 1 .. n
           Step(f) == [i \in 1 .. Len(seqs) |-> IF i = 1 THEN seqs[i] ELSE f[i - 1] \o seqs[i]]
           flatten == CHOOSE f : f = Step(f)
<1>1. Len(seqs) = n /\ seqs \in Seq(Seq(T))
  OBVIOUS
<1>2. FlattenSeq(seqs) = IF n = 0 THEN seqs ELSE flatten[n]
  BY <1>1 DEF FlattenSeq
<1>3. CASE n = 0
  <2>1. seqs = <<>>
    BY <1>1, <1>3
  <2>2. Range(<<>>) = {} /\ 1 .. n = {}
    BY <1>3 DEF Range
  <2> HIDE DEF flatten
  <2> QED BY <1>2, <1>3, <2>1, <2>2
<1>4. CASE n # 0
  <2>1. \E f : f = Step(f)
    <3> DEFINE V == Seq(T)
               size == [i \in D |-> i]
               next == [p \in [D -> V] \X D |->
                           IF p[2] = 1 THEN seqs[1] ELSE p[1][p[2] - 1] \o seqs[p[2]]]
    <3>1. \A i \in D : i # 1 => i - 1 \in D /\ size[i - 1] < size[i]
      OBVIOUS
    <3>2. 1 \in D
      BY <1>4
    <3>3. next \in [[D -> V] \X D -> V]
      <4> SUFFICES ASSUME NEW p \in [D -> V] \X D
                   PROVE  (IF p[2] = 1 THEN seqs[1] ELSE p[1][p[2] - 1] \o seqs[p[2]]) \in V
        OBVIOUS
      <4> DEFINE f == p[1]
                 i == p[2]
      <4>1. f \in [D -> V] /\ i \in D
        <5> HIDE DEF D, V
        <5> QED OBVIOUS
      <4> HIDE DEF f, i
      <4>2. CASE i = 1
        BY <3>2, <4>1, <4>2 DEF i
      <4>3. CASE i # 1
        <5>1. f[i - 1] \in Seq(T) /\ seqs[i] \in Seq(T)
          BY <3>1, <4>1, <4>3
        <5>2. f[i - 1] \o seqs[i] \in Seq(T)
          BY <5>1
        <5> QED BY <4>3, <5>2 DEF f, i
      <4> QED BY <4>2, <4>3
    <3>4. ASSUME NEW f \in [D -> V], NEW i \in D
          PROVE  next[<<f, i>>] = IF i = 1 THEN seqs[1] ELSE f[i - 1] \o seqs[i]
      OBVIOUS
    <3>5. /\ size \in [D -> Nat] /\ \A i \in D : size[i] <= n
          /\ <<>> \in V
      OBVIOUS
    <3> HIDE DEF size, next, V
    <3>6. \A f, h \in [D -> V] : \A i \in D :
              (\A j \in D : size[j] < size[i] => f[j] = h[j]) => next[<<f, i>>] = next[<<h, i>>]
      <4> SUFFICES ASSUME NEW f \in [D -> V], NEW h \in [D -> V], NEW i \in D,
                          \A j \in D : size[j] < size[i] => f[j] = h[j]
                   PROVE  next[<<f, i>>] = next[<<h, i>>]
        OBVIOUS
      <4>1. i # 1 => f[i - 1] = h[i - 1]
        BY <3>1
      <4> HIDE DEF D
      <4> QED BY <3>4, <4>1
    <3> HIDE DEF D
    <3>11. Recursion(D, V, size, n, next)
      BY <3>3, <3>5, <3>6 DEF Recursion
    <3>7. PICK f \in [D -> V] : \A i \in D : f[i] = next[<<f, i>>]
      BY <3>11, RecursionExists
    <3>8. \A i \in D : f[i] = IF i = 1 THEN seqs[i] ELSE f[i - 1] \o seqs[i]
      BY <3>2, <3>4, <3>7
    <3>9. f = [i \in D |-> IF i = 1 THEN seqs[i] ELSE f[i - 1] \o seqs[i]]
      BY <3>7, <3>8
    <3>10. f = Step(f)
      BY <1>1, <3>9 DEF D
    <3> HIDE DEF Step
    <3> QED BY <3>10
  <2>2. flatten = Step(flatten)
    <3> HIDE DEF Step
    <3> QED BY <2>1
  <2> HIDE DEF flatten
  <2>3. \A i \in D : flatten[i] = IF i = 1 THEN seqs[1] ELSE flatten[i - 1] \o seqs[i]
    BY <1>1, <2>2
  <2> DEFINE Upto(i) == UNION {Range(seqs[j]) : j \in 1 .. i}
             Right(i) == flatten[i] \in Seq(T) /\ Range(flatten[i]) = Upto(i)
             S == {m \in Nat : \A i \in D : i <= m + 1 => Right(i)}
  <2>4. \A i \in D : seqs[i] \in Seq(T)
    OBVIOUS
  <2>5. 0 \in S
    <3>1. SUFFICES ASSUME 1 \in D PROVE Right(1)
      <4>1. \A i \in D : i <= 0 + 1 => i = 1
        OBVIOUS
      <4> HIDE DEF Right
      <4> QED BY <4>1
    <3>2. flatten[1] = seqs[1]
      BY <2>3, <3>1
    <3>3. Upto(1) = Range(seqs[1])
      OBVIOUS
    <3> HIDE DEF Upto
    <3> QED BY <2>4, <3>1, <3>2, <3>3
  <2>6. ASSUME NEW m \in Nat, m \in S PROVE m + 1 \in S
    <3> SUFFICES ASSUME NEW i \in D, i <= m + 1 + 1 PROVE Right(i)
      <4> HIDE DEF Right
      <4> QED BY DEF S
    <3>1. CASE i <= m + 1
      <4> HIDE DEF Right
      <4> QED BY <2>6, <3>1
    <3>2. CASE ~(i <= m + 1)
      <4>1. i - 1 \in D /\ i - 1 <= m + 1 /\ i # 1 /\ i = m + 2
        BY <3>2
      <4>2. Right(i - 1)
        <5> HIDE DEF Right
        <5> QED BY <2>6, <4>1
      <4>3. flatten[i] = flatten[i - 1] \o seqs[i]
        BY <2>3, <4>1
      <4>4. Upto(i) = Upto(i - 1) \cup Range(seqs[i])
        <5>1. 1 .. i = (1 .. i - 1) \cup {i}
          BY <4>1
        <5> QED BY <5>1
      <4> HIDE DEF Upto, D
      <4>5. Range(flatten[i - 1] \o seqs[i]) = Range(flatten[i - 1]) \cup Range(seqs[i])
        BY <2>4, <4>2, RangeOfConcatenation
      <4>6. flatten[i - 1] \o seqs[i] \in Seq(T)
        BY <2>4, <4>2
      <4> QED BY <4>2, <4>3, <4>4, <4>5, <4>6
    <3> QED BY <3>1, <3>2
  <2> HIDE DEF S
  <2>7. Nat \subseteq S
    BY <2>5, <2>6, Upwards
  <2>8. Right(n)
    <3>1. n \in D /\ n - 1 \in Nat /\ n <= (n - 1) + 1
      BY <1>4
    <3> HIDE DEF Right, D
    <3> QED BY <2>7, <3>1 DEF S
  <2> QED BY <1>2, <1>4, <2>8
<1> QED BY <1>3, <1>4

(* A listing of a set of numbers has each of them once, and nothing else.  *)
LEMMA AscendingLists ==
    ASSUME NEW S \in SUBSET Int, IsFiniteSet(S)
    PROVE  /\ Ascending(S) \in Seq(S) /\ Range(Ascending(S)) = S
           /\ \A i, j \in 1 .. Len(Ascending(S)) : Ascending(S)[i] = Ascending(S)[j] => i = j
<1> DEFINE Under(x) == {y \in S : y < x}
           size == Cardinality(S)
           rank == [x \in S |-> Cardinality(Under(x))]
<1>1. IsFiniteSet(S) /\ size \in Nat
    BY FS_CardinalityType
<1>2. \A x \in S : IsFiniteSet(Under(x)) /\ Cardinality(Under(x)) \in Nat
                   /\ Cardinality(Under(x)) < size
    <2> TAKE x \in S
    <2>1. Under(x) \in SUBSET S /\ x \notin Under(x) OBVIOUS
    <2>2. IsFiniteSet(Under(x)) /\ Cardinality(Under(x)) <= size
              /\ (size = Cardinality(Under(x)) => S = Under(x))
        BY <1>1, <2>1, FS_Subset
    <2>3. Cardinality(Under(x)) \in Nat BY <2>2, FS_CardinalityType
    <2> HIDE DEF Under, size
    <2>4. QED BY <1>1, <2>1, <2>2, <2>3
<1>3. \A x, z \in S : x < z => Cardinality(Under(x)) < Cardinality(Under(z))
    <2> TAKE x, z \in S
    <2> HAVE x < z
    <2>0. S \subseteq Int OBVIOUS
    <2>1. Under(x) \in SUBSET Under(z) /\ x \in Under(z) /\ x \notin Under(x)
        <3>1. \A y \in S : y < x => y < z BY <2>0
        <3>2. ~(x < x) BY <2>0
        <3>3. QED BY <3>1, <3>2
    <2>2. Cardinality(Under(x)) <= Cardinality(Under(z))
              /\ (Cardinality(Under(z)) = Cardinality(Under(x)) => Under(z) = Under(x))
        BY <1>2, <2>1, FS_Subset
    <2> HIDE DEF Under
    <2>3. QED BY <1>2, <2>1, <2>2
<1>4. \A x, z \in S : Cardinality(Under(x)) = Cardinality(Under(z)) => x = z
    <2> HIDE DEF Under
    <2>1. \A x, z \in S : x = z \/ x < z \/ z < x OBVIOUS
    <2>2. QED BY <1>2, <1>3, <2>1
<1>5. rank \in Injection(S, 0 .. size - 1)
    <2> HIDE DEF Under, size
    <2>1. QED BY <1>1, <1>2, <1>4 DEF Injection, IsInjective
<1>6. IsFiniteSet(0 .. size - 1) /\ Cardinality(0 .. size - 1) = size
    <2> HIDE DEF size
    <2>1. 0 \in Int /\ size - 1 \in Int BY <1>1
    <2>2. IsFiniteSet(0 .. size - 1)
              /\ Cardinality(0 .. size - 1) = IF 0 > size - 1 THEN 0 ELSE (size - 1) - 0 + 1
        BY <2>1, FS_Interval
    <2>3. QED BY <1>1, <2>2
<1>7. rank \in Surjection(S, 0 .. size - 1)
    <2> HIDE DEF rank
    <2>1. QED BY <1>1, <1>5, <1>6, FS_Injection
<1>8. \A i \in 1 .. size : \E x \in S : Cardinality(Under(x)) = i - 1
    <2> HIDE DEF Under, size
    <2>1. \A i \in 1 .. size : i - 1 \in 0 .. size - 1 BY <1>1
    <2>2. QED BY <1>7, <2>1 DEF Surjection
<1>9. \A i \in 1 .. size : Ascending(S)[i] \in S /\ Cardinality(Under(Ascending(S)[i])) = i - 1
    <2> TAKE i \in 1 .. size
    <2>1. Ascending(S)[i] = CHOOSE x \in S : Cardinality(Under(x)) = i - 1
        BY DEF Ascending
    <2> HIDE DEF Under, size
    <2>2. QED BY <1>8, <2>1
<1>10. Ascending(S) \in [1 .. size -> S]
    <2>1. Ascending(S) = [i \in 1 .. size |-> CHOOSE x \in S : Cardinality(Under(x)) = i - 1]
        BY Zenon DEF Ascending
    <2> HIDE DEF Under, size
    <2>2. \A i \in 1 .. size : (CHOOSE x \in S : Cardinality(Under(x)) = i - 1) \in S
        BY <1>8
    <2>3. QED BY <2>1, <2>2
<1>11. \A x \in S : \E i \in 1 .. size : Ascending(S)[i] = x
    <2> TAKE x \in S
    <2> HIDE DEF Under, size
    <2>1. Cardinality(Under(x)) + 1 \in 1 .. size BY <1>1, <1>2
    <2>2. Cardinality(Under(Ascending(S)[Cardinality(Under(x)) + 1])) = Cardinality(Under(x))
        BY <1>2, <1>9, <2>1
    <2>3. QED BY <1>4, <1>9, <2>1, <2>2
<1>12. QED
    <2> HIDE DEF size, Under
    <2>1. Ascending(S) \in Seq(S) BY <1>1, <1>10
    <2>2. DOMAIN Ascending(S) = 1 .. size BY <1>10
    <2>3. Range(Ascending(S)) \subseteq S BY <1>9, <2>2 DEF Range
    <2>4. S \subseteq Range(Ascending(S)) BY <1>11, <2>2 DEF Range
    <2>5. Len(Ascending(S)) = size BY <1>1, <1>10
    <2>6. \A i, j \in 1 .. size : Ascending(S)[i] = Ascending(S)[j] => i = j BY <1>1, <1>9
    <2>7. QED BY <2>1, <2>3, <2>4, <2>5, <2>6

-----------------------------------------------------------------------------
(* What a search may end with: no edge of these kinds leads out of it, but *)
(* to what it avoids.                                                      *)
Shut(g, kinds, avoided, C) ==
    \A e \in g.edges : e.from \in C /\ e.kind \in kinds /\ e.to \notin avoided => e.to \in C

(* The graphs a search ends on.                                            *)
Searchable(g) == IsFiniteSet(g.edges) /\ \A e \in g.edges : e.to \in Int

(* What Spread returns: the least set that has the start and is shut.      *)
LEMMA SpreadIsLeast ==
    ASSUME NEW g, Searchable(g), NEW kinds, NEW avoided, NEW from \in SUBSET Int
    PROVE  /\ Spread(g, kinds, avoided, from) \in SUBSET Int
           /\ from \subseteq Spread(g, kinds, avoided, from)
           /\ Shut(g, kinds, avoided, Spread(g, kinds, avoided, from))
           /\ \A C \in SUBSET Int : from \subseteq C /\ Shut(g, kinds, avoided, C)
                                      => Spread(g, kinds, avoided, from) \subseteq C
<1> DEFINE reached(seen) == {e.to : e \in {x \in g.edges : x.from \in seen /\ x.kind \in kinds}} \ avoided
           add == [seen \in SUBSET Int |-> reached(seen)]
           F == {e.to : e \in g.edges}
           Step(f) == [seen \in SUBSET Int |->
                          IF reached(seen) \subseteq seen THEN seen ELSE f[seen \cup reached(seen)]]
           Turn(f) == [seen \in SUBSET Int |->
                          IF add[seen] \subseteq seen THEN seen ELSE f[seen \cup add[seen]]]
           spread == CHOOSE f : f = Step(f)
<1>1. F \in SUBSET Int /\ IsFiniteSet(F)
  <2> DEFINE to == [e \in g.edges |-> e.to]
  <2>1. to \in Surjection(g.edges, F)
    BY DEF Surjection
  <2>2. F \in SUBSET Int
    BY DEF Searchable
  <2> HIDE DEF to, F
  <2> QED BY <2>1, <2>2, FS_Surjection DEF Searchable
<1>2. \A seen \in SUBSET Int : add[seen] = reached(seen) /\ reached(seen) \in SUBSET F
  OBVIOUS
<1>3. add \in [SUBSET Int -> SUBSET F]
  <2> HIDE DEF reached, F
  <2> QED BY <1>2
<1>4. \A A, B \in SUBSET Int : A \subseteq B => add[A] \subseteq add[B]
  <2>1. ASSUME NEW A \in SUBSET Int, NEW B \in SUBSET Int, A \subseteq B
        PROVE  reached(A) \subseteq reached(B)
    BY <2>1
  <2> HIDE DEF add, reached
  <2> QED BY <1>2, <2>1
<1>5. \A f : Step(f) = Turn(f)
  <2> HIDE DEF reached, add
  <2> QED BY <1>2
<1>6. IsClosure(Int, add, spread)
  <2> HIDE DEF Step, Turn
  <2>1. spread = CHOOSE f : f = Turn(f)
    BY <1>5
  <2> HIDE DEF spread
  <2> QED BY <2>1 DEF IsClosure, Turn
<1>7. Spread(g, kinds, avoided, from) = spread[from]
  BY DEF Spread
<1>8. \A C \in SUBSET Int : add[C] \subseteq C <=> Shut(g, kinds, avoided, C)
  <2> TAKE C \in SUBSET Int
  <2>1. reached(C) \subseteq C <=> Shut(g, kinds, avoided, C)
    BY DEF Shut
  <2> HIDE DEF add, reached
  <2> QED BY <1>2, <2>1
<1> HIDE DEF add, F, spread
<1>9. LeastClosed(Int, add, from, spread[from])
  BY <1>1, <1>3, <1>4, <1>6, ClosureIsLeast
<1> QED BY <1>7, <1>8, <1>9 DEF LeastClosed

(* The states of the search for a shortest path, and its step.             *)
Searches == Seq(Seq(Int)) \X SUBSET Int
Fresh(g, kinds, s) == Successors(g, Last(Head(s[1])), kinds) \ s[2]
Longer(g, kinds, s) ==
    [i \in 1..Cardinality(Fresh(g, kinds, s)) |->
        Append(Head(s[1]), Ascending(Fresh(g, kinds, s))[i])]
Onward(g, kinds, s) ==
    <<Tail(s[1]) \o Longer(g, kinds, s), s[2] \cup Fresh(g, kinds, s)>>
Arrived(to, s) == s[1] = <<>> \/ Last(Head(s[1])) = to

(* Every node that was seen is the end of a path that waits, or is not the *)
(* one that is looked for and all its successors were seen.                *)
Tips(waiting) == {Last(p) : p \in Range(waiting)}
Searching(g, kinds, to, s) ==
    /\ s \in Searches
    /\ \A p \in Range(s[1]) : p # <<>> /\ Last(p) \in s[2]
    /\ \A x \in s[2] : \/ x \in Tips(s[1])
                       \/ x # to /\ Successors(g, x, kinds) \subseteq s[2]

(* What a step puts into the waiting, and that it uses up the edges.         *)
LEMMA FreshPaths ==
    ASSUME NEW g, Searchable(g), NEW kinds, NEW s \in Searches, s[1] # <<>>
    PROVE  /\ Fresh(g, kinds, s) \in SUBSET Int /\ IsFiniteSet(Fresh(g, kinds, s))
           /\ Longer(g, kinds, s) \in Seq(Seq(Int))
           /\ Len(Longer(g, kinds, s)) = Cardinality(Fresh(g, kinds, s))
           /\ \A p \in Range(Longer(g, kinds, s)) : p # <<>> /\ Last(p) \in Fresh(g, kinds, s)
           /\ Tips(Longer(g, kinds, s)) = Fresh(g, kinds, s)
<1> DEFINE path == Head(s[1])
           fresh == Fresh(g, kinds, s)
           listing == Ascending(fresh)
           longer == Longer(g, kinds, s)
           size == Cardinality(fresh)
<1>1. fresh \in SUBSET Int
  BY DEF Searchable, Fresh, Successors
<1>2. IsFiniteSet(fresh)
  <2> DEFINE to == [e \in g.edges |-> e.to]
             F == {e.to : e \in g.edges}
  <2>1. to \in Surjection(g.edges, F)
    BY DEF Surjection
  <2>2. fresh \in SUBSET F
    BY DEF Fresh, Successors
  <2> HIDE DEF to, F, fresh
  <2>3. IsFiniteSet(F)
    BY <2>1, FS_Surjection DEF Searchable
  <2> QED BY <2>2, <2>3, FS_Subset
<1> HIDE DEF fresh
<1>3. listing \in Seq(fresh) /\ Range(listing) = fresh
  BY <1>1, <1>2, AscendingLists
<1>4. size \in Nat /\ DOMAIN listing = 1..size
  BY <1>2, FS_CardinalityType DEF Ascending
<1>5. path \in Seq(Int)
  BY DEF Searches
<1>6. longer = [i \in 1..size |-> Append(path, listing[i])]
  BY DEF Longer, fresh
<1> HIDE DEF path, listing, longer, size
<1>7. ASSUME NEW i \in 1..size PROVE listing[i] \in fresh /\ listing[i] \in Int
  <2>1. listing[i] \in Range(listing)
    BY <1>4 DEF Range
  <2> QED BY <1>1, <1>3, <2>1
<1>8. ASSUME NEW x \in Int
      PROVE  Append(path, x) \in Seq(Int) /\ Append(path, x) # <<>> /\ Last(Append(path, x)) = x
  BY <1>5 DEF Last
<1>9. longer \in Seq(Seq(Int)) /\ Len(longer) = size /\ DOMAIN longer = 1..size
  <2>1. longer \in [1..size -> Seq(Int)]
    BY <1>6, <1>7, <1>8
  <2> QED BY <1>4, <2>1
<1>10. ASSUME NEW p \in Range(longer)
       PROVE  p # <<>> /\ Last(p) \in fresh
  <2>1. PICK i \in 1..size : p = longer[i]
    BY <1>9 DEF Range
  <2>2. p = Append(path, listing[i])
    BY <1>6, <2>1
  <2> QED BY <1>7, <1>8, <2>2
<1>11. ASSUME NEW x \in fresh
       PROVE  x \in Tips(longer)
  <2>1. PICK i \in 1..size : x = listing[i]
    BY <1>3, <1>4 DEF Range
  <2>2. longer[i] = Append(path, x) /\ longer[i] \in Range(longer)
    BY <1>6, <1>9, <2>1 DEF Range
  <2>3. Last(longer[i]) = x
    BY <1>1, <1>8, <2>2
  <2> QED BY <2>2, <2>3 DEF Tips
<1>12. Tips(longer) = fresh
  BY <1>10, <1>11 DEF Tips
<1> QED BY <1>1, <1>2, <1>9, <1>10, <1>12 DEF longer, fresh, size

(* The edges' targets, and how many of them a search has not seen.         *)
EdgeEnds(g) == {e.to : e \in g.edges}
Unseen(g, s) == Len(s[1]) + Left(EdgeEnds(g), s[2])

LEMMA StepOfSearch ==
    ASSUME NEW g, Searchable(g), NEW kinds, NEW to, NEW s, Searching(g, kinds, to, s),
           ~Arrived(to, s)
    PROVE  /\ Searching(g, kinds, to, Onward(g, kinds, s))
           /\ Unseen(g, s) \in Nat /\ Unseen(g, Onward(g, kinds, s)) \in Nat
           /\ Unseen(g, Onward(g, kinds, s)) < Unseen(g, s)
           /\ s[2] \subseteq Onward(g, kinds, s)[2]
           /\ \A C \in SUBSET Int : s[2] \subseteq C /\ Shut(g, kinds, {}, C)
                                      => Onward(g, kinds, s)[2] \subseteq C
<1> DEFINE waiting == s[1]
           seen == s[2]
           path == Head(s[1])
           rest == Tail(s[1])
           fresh == Fresh(g, kinds, s)
           longer == Longer(g, kinds, s)
           next == Onward(g, kinds, s)
<1>1. /\ waiting \in Seq(Seq(Int)) /\ seen \in SUBSET Int /\ waiting # <<>> /\ s \in Searches
      /\ Last(path) # to
  BY DEF Searching, Searches, Arrived
<1>2. /\ fresh \in SUBSET Int /\ IsFiniteSet(fresh)
      /\ longer \in Seq(Seq(Int)) /\ Len(longer) = Cardinality(fresh)
      /\ \A p \in Range(longer) : p # <<>> /\ Last(p) \in fresh
      /\ Tips(longer) = fresh
  BY <1>1, FreshPaths
<1>3. fresh = Successors(g, Last(path), kinds) \ seen
  BY DEF Fresh
<1>4. next = <<rest \o longer, seen \cup fresh>>
  BY DEF Onward
<1>5. /\ path \in Seq(Int) /\ rest \in Seq(Seq(Int)) /\ Range(waiting) = {path} \cup Range(rest)
      /\ Len(rest) = Len(waiting) - 1 /\ Len(waiting) \in Nat
  BY <1>1, RangeOfQueue
<1>6. /\ \A p \in Range(waiting) : p # <<>> /\ Last(p) \in seen
      /\ \A x \in seen : \/ x \in Tips(waiting)
                         \/ x # to /\ Successors(g, x, kinds) \subseteq seen
  BY DEF Searching
<1>7. Tips(waiting) = {Last(path)} \cup Tips(rest) /\ Last(path) \in seen
  BY <1>5, <1>6 DEF Tips
<1> HIDE DEF waiting, seen, path, rest, fresh, longer, next
<1>8. /\ rest \o longer \in Seq(Seq(Int))
      /\ Range(rest \o longer) = Range(rest) \cup Range(longer)
      /\ Len(rest \o longer) = Len(waiting) - 1 + Cardinality(fresh)
  <2>0. rest \in Seq(Seq(Int)) /\ longer \in Seq(Seq(Int))
    BY <1>2, <1>5
  <2>1. Range(rest \o longer) = Range(rest) \cup Range(longer)
    BY <2>0, RangeOfConcatenation
  <2>2. /\ rest \o longer \in Seq(Seq(Int))
        /\ Len(rest \o longer) = Len(rest) + Len(longer)
    BY <2>0
  <2> QED BY <1>2, <1>5, <2>1, <2>2
<1>9. next[1] = rest \o longer /\ next[2] = seen \cup fresh
  BY <1>4
<1>10. Tips(next[1]) = Tips(rest) \cup fresh
  BY <1>2, <1>8, <1>9 DEF Tips
<1>11. Searching(g, kinds, to, next)
  <2>1. next \in Searches
    BY <1>1, <1>2, <1>4, <1>8 DEF Searches
  <2>2. \A p \in Range(next[1]) : p # <<>> /\ Last(p) \in next[2]
    BY <1>2, <1>5, <1>6, <1>8, <1>9
  <2>3. \A x \in next[2] : \/ x \in Tips(next[1])
                           \/ x # to /\ Successors(g, x, kinds) \subseteq next[2]
    BY <1>1, <1>3, <1>6, <1>7, <1>9, <1>10
  <2> QED BY <2>1, <2>2, <2>3 DEF Searching
<1>12. /\ Left(EdgeEnds(g), seen) \in Nat /\ Cardinality(fresh) \in Nat
       /\ Left(EdgeEnds(g), next[2]) = Left(EdgeEnds(g), seen) - Cardinality(fresh)
  <2>1. IsFiniteSet(EdgeEnds(g))
    <3> DEFINE ends == [e \in g.edges |-> e.to]
    <3>1. ends \in Surjection(g.edges, EdgeEnds(g))
      BY DEF Surjection, EdgeEnds
    <3> HIDE DEF ends
    <3> QED BY <3>1, FS_Surjection DEF Searchable
  <2>2. fresh \in SUBSET (EdgeEnds(g) \ seen)
    BY <1>3 DEF Successors, EdgeEnds
  <2> DEFINE left == EdgeEnds(g) \ seen
  <2>3. IsFiniteSet(left) /\ fresh \cap left = fresh
    BY <2>1, <2>2, FS_Difference
  <2>4. EdgeEnds(g) \ next[2] = left \ fresh
    BY <1>9
  <2> HIDE DEF left
  <2>5. Cardinality(left \ fresh) = Cardinality(left) - Cardinality(left \cap fresh)
    BY <2>3, <1>2, FS_Difference
  <2>6. left \cap fresh = fresh
    BY <2>3
  <2>7. Cardinality(left) \in Nat /\ Cardinality(fresh) \in Nat
    BY <1>2, <2>3, FS_CardinalityType
  <2> QED BY <2>4, <2>5, <2>6, <2>7 DEF Left, left
<1>13. /\ Unseen(g, s) \in Nat /\ Unseen(g, next) \in Nat
       /\ Unseen(g, next) < Unseen(g, s)
  <2>1. Unseen(g, s) = Len(waiting) + Left(EdgeEnds(g), seen)
    BY DEF Unseen, waiting, seen
  <2>2. Unseen(g, next) = Len(waiting) - 1 + Cardinality(fresh)
                            + (Left(EdgeEnds(g), seen) - Cardinality(fresh))
    BY <1>8, <1>9, <1>12 DEF Unseen
  <2>3. Len(waiting) > 0
    BY <1>1
  <2> QED BY <1>5, <1>12, <2>1, <2>2, <2>3
<1>14. ASSUME NEW C \in SUBSET Int, seen \subseteq C, Shut(g, kinds, {}, C)
       PROVE  next[2] \subseteq C
  <2>1. Successors(g, Last(path), kinds) \subseteq C
    BY <1>7, <1>14 DEF Successors, Shut
  <2> QED BY <1>3, <1>9, <1>14, <2>1
<1> QED BY <1>9, <1>11, <1>13, <1>14 DEF seen, next

(* A path is found just when every shut set that has what was seen has its *)
(* end.                                                                    *)
Answers(g, kinds, to, s, found) ==
    IF found = <<>>
    THEN \E C \in SUBSET Int : s[2] \subseteq C /\ Shut(g, kinds, {}, C) /\ to \notin C
    ELSE \A C \in SUBSET Int : s[2] \subseteq C /\ Shut(g, kinds, {}, C) => to \in C

LEMMA SearchAnswers ==
    ASSUME NEW g, Searchable(g), NEW kinds, NEW to, NEW f,
           \A s \in Searches : f[s] = IF s[1] = <<>> THEN <<>>
                                      ELSE IF Last(Head(s[1])) = to THEN Head(s[1])
                                      ELSE f[Onward(g, kinds, s)],
           NEW s, Searching(g, kinds, to, s)
    PROVE  Answers(g, kinds, to, s, f[s])
<1> DEFINE Right(n) == \A t : Searching(g, kinds, to, t) /\ Unseen(g, t) <= n
                                => Answers(g, kinds, to, t, f[t])
           N == {n \in Nat : Right(n)}
<1>1. ASSUME NEW t, Searching(g, kinds, to, t), Arrived(to, t)
      PROVE  Answers(g, kinds, to, t, f[t])
  <2>0. t \in Searches /\ t[2] \in SUBSET Int
    BY <1>1 DEF Searching, Searches
  <2>1. CASE t[1] = <<>>
    <3>1. f[t] = <<>>
      BY <2>0, <2>1
    <3>2. Tips(t[1]) = {}
      BY <2>1 DEF Tips, Range
    <3>3. \A x \in t[2] : x # to /\ Successors(g, x, kinds) \subseteq t[2]
      BY <1>1, <3>2 DEF Searching
    <3>4. Shut(g, kinds, {}, t[2]) /\ to \notin t[2]
      BY <3>3 DEF Shut, Successors
    <3> QED BY <2>0, <3>1, <3>4 DEF Answers
  <2>2. CASE t[1] # <<>>
    <3>1. Last(Head(t[1])) = to /\ f[t] = Head(t[1])
      BY <1>1, <2>0, <2>2 DEF Arrived
    <3>2. t[1] \in Seq(Seq(Int))
      BY <2>0 DEF Searches
    <3>3. Head(t[1]) \in Range(t[1])
      BY <2>2, <3>2, RangeOfQueue
    <3>4. f[t] # <<>> /\ to \in t[2]
      BY <1>1, <3>1, <3>3 DEF Searching
    <3> QED BY <3>4 DEF Answers
  <2> QED BY <2>1, <2>2
<1>2. ASSUME NEW t, Searching(g, kinds, to, t), ~Arrived(to, t),
             Answers(g, kinds, to, Onward(g, kinds, t), f[Onward(g, kinds, t)])
      PROVE  Answers(g, kinds, to, t, f[t])
  <2>1. t \in Searches
    BY <1>2 DEF Searching
  <2>2. f[t] = f[Onward(g, kinds, t)]
    BY <1>2, <2>1 DEF Arrived
  <2>3. /\ t[2] \subseteq Onward(g, kinds, t)[2]
        /\ \A C \in SUBSET Int : t[2] \subseteq C /\ Shut(g, kinds, {}, C)
                                   => Onward(g, kinds, t)[2] \subseteq C
    BY <1>2, StepOfSearch
  <2> QED BY <1>2, <2>2, <2>3 DEF Answers
<1>3. ASSUME NEW t, Searching(g, kinds, to, t), ~Arrived(to, t)
      PROVE  /\ Searching(g, kinds, to, Onward(g, kinds, t))
             /\ Unseen(g, t) \in Nat /\ Unseen(g, Onward(g, kinds, t)) \in Nat
             /\ Unseen(g, Onward(g, kinds, t)) < Unseen(g, t)
  BY <1>3, StepOfSearch
<1>4. 0 \in N
  <2> SUFFICES ASSUME NEW t, Searching(g, kinds, to, t), Unseen(g, t) <= 0
               PROVE  Answers(g, kinds, to, t, f[t])
    OBVIOUS
  <2>1. CASE ~Arrived(to, t)
    <3>1. /\ Unseen(g, t) \in Nat /\ Unseen(g, Onward(g, kinds, t)) \in Nat
          /\ Unseen(g, Onward(g, kinds, t)) < Unseen(g, t)
      BY <1>3, <2>1
    <3> QED BY <3>1
  <2> QED BY <1>1, <2>1
<1>5. ASSUME NEW n \in Nat, n \in N PROVE n + 1 \in N
  <2> SUFFICES ASSUME NEW t, Searching(g, kinds, to, t), Unseen(g, t) <= n + 1
               PROVE  Answers(g, kinds, to, t, f[t])
    OBVIOUS
  <2>1. CASE ~Arrived(to, t)
    <3>1. /\ Searching(g, kinds, to, Onward(g, kinds, t))
          /\ Unseen(g, t) \in Nat /\ Unseen(g, Onward(g, kinds, t)) \in Nat
          /\ Unseen(g, Onward(g, kinds, t)) < Unseen(g, t)
      BY <1>3, <2>1
    <3>2. Unseen(g, Onward(g, kinds, t)) <= n
      BY <3>1
    <3>3. Answers(g, kinds, to, Onward(g, kinds, t), f[Onward(g, kinds, t)])
      BY <1>5, <3>1, <3>2
    <3> QED BY <1>2, <2>1, <3>3
  <2> QED BY <1>1, <2>1
<1> HIDE DEF N
<1>6. Nat \subseteq N
  BY <1>4, <1>5, Upwards
<1>7. CASE ~Arrived(to, s)
  <2>1. Unseen(g, s) \in Nat /\ Unseen(g, s) <= Unseen(g, s)
    BY <1>3, <1>7
  <2> QED BY <1>6, <2>1 DEF N
<1> QED BY <1>1, <1>7

(* GraphIndex's breadth-first search finds a path to a node just when the  *)
(* node is among what can be reached: it ends on every graph, cycles and   *)
(* all, and no node it takes for seen hides another one.                   *)
THEOREM PathIsReach ==
    ASSUME NEW g, Searchable(g), NEW kinds, NEW from \in Int, NEW to
    PROVE  HasPath(g, from, to, kinds) <=> to \in Spread(g, kinds, {}, {from})
<1> DEFINE Step(f) == [state \in Searches |->
                          IF state[1] = <<>> THEN <<>>
                          ELSE IF Last(Head(state[1])) = to THEN Head(state[1])
                          ELSE f[Onward(g, kinds, state)]]
           search == CHOOSE f : f = Step(f)
           start == << <<<<from>>>>, {from} >>
<1>1. ShortestPath(g, from, to, kinds) = search[start]
  BY DEF ShortestPath, Searches, Onward, Longer, Fresh, Last
<1>2. ASSUME NEW s \in Searches, ~Arrived(to, s)
      PROVE  Onward(g, kinds, s) \in Searches
  <2>1. s[1] # <<>> /\ s[1] \in Seq(Seq(Int)) /\ s[2] \in SUBSET Int
    BY <1>2 DEF Arrived, Searches
  <2>2. Fresh(g, kinds, s) \in SUBSET Int /\ Longer(g, kinds, s) \in Seq(Seq(Int))
    BY <2>1, FreshPaths
  <2>3. Tail(s[1]) \in Seq(Seq(Int))
    BY <2>1
  <2>4. Tail(s[1]) \o Longer(g, kinds, s) \in Seq(Seq(Int))
    BY <2>2, <2>3
  <2> QED BY <2>1, <2>2, <2>4 DEF Onward, Searches
<1>3. \E f : f = Step(f)
  <2> DEFINE done == {s \in Searches : Arrived(to, s)}
             step == [s \in Searches |-> IF s \in done THEN s ELSE Onward(g, kinds, s)]
             out == [s \in Searches |-> IF s[1] = <<>> THEN <<>> ELSE Head(s[1])]
  <2>1. step \in [Searches -> Searches]
    BY <1>2
  <2>2. PICK f : IsLoop(Searches, done, step, out, f)
    <3> HIDE DEF done, step, out
    <3> QED BY <2>1, LoopExists
  <2>3. f = [s \in Searches |-> IF s \in done THEN out[s] ELSE f[step[s]]]
    BY <2>2 DEF IsLoop
  <2>4. ASSUME NEW s \in Searches
        PROVE  (IF s \in done THEN out[s] ELSE f[step[s]]) = Step(f)[s]
    BY DEF Arrived
  <2> HIDE DEF done, step, out
  <2>5. f = Step(f)
    BY <2>3, <2>4
  <2> HIDE DEF Step
  <2> QED BY <2>5
<1>4. search = Step(search)
  <2> HIDE DEF Step
  <2> QED BY <1>3
<1> HIDE DEF search
<1>5. Searching(g, kinds, to, start)
  <2>1. start \in Searches
    BY DEF Searches
  <2>2. start[1] = <<<<from>>>> /\ start[2] = {from} /\ Range(start[1]) = {<<from>>}
    BY DEF Range
  <2>3. <<from>> # <<>> /\ Last(<<from>>) = from
    BY DEF Last
  <2> HIDE DEF start
  <2> QED BY <2>1, <2>2, <2>3 DEF Searching, Tips
<1>6. start[2] = {from}
  OBVIOUS
<1> HIDE DEF start
<1>7. \A s \in Searches : search[s] = IF s[1] = <<>> THEN <<>>
                                      ELSE IF Last(Head(s[1])) = to THEN Head(s[1])
                                      ELSE search[Onward(g, kinds, s)]
  BY <1>4
<1>8. Answers(g, kinds, to, start, search[start])
  BY <1>5, <1>7, SearchAnswers
<1>9. /\ Spread(g, kinds, {}, {from}) \in SUBSET Int
      /\ {from} \subseteq Spread(g, kinds, {}, {from})
      /\ Shut(g, kinds, {}, Spread(g, kinds, {}, {from}))
      /\ \A C \in SUBSET Int : {from} \subseteq C /\ Shut(g, kinds, {}, C)
                                 => Spread(g, kinds, {}, {from}) \subseteq C
  <2>1. {from} \in SUBSET Int
    OBVIOUS
  <2> QED BY <2>1, SpreadIsLeast
<1> QED BY <1>1, <1>6, <1>8, <1>9 DEF HasPath, Answers
=============================================================================
