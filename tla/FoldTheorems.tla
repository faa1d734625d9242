----------------------------- MODULE FoldTheorems -----------------------------
(***************************************************************************)
(* What the proofs of this project need about recursion over data: the     *)
(* induction on the naturals, stated with a set in place of a predicate,   *)
(* the fold of a sequence from the left (FoldLeft of SequencesExt) as the  *)
(* last value of a trace, and the fold of a function (FoldFunction) as the *)
(* value for its whole domain.  The step of a fold is a constant of this   *)
(* module, so that INSTANCE, and not a prover, puts an operator for it.    *)
(***************************************************************************)
EXTENDS Integers, SequencesExt, FiniteSetTheorems, TLAPS, WellFoundedInduction

CONSTANT Op(_, _)  \* the step: the value so far and the next element

-----------------------------------------------------------------------------
(* Induction *)

(* A set of naturals that holds 0 and every successor holds them all: a least
   number outside it would have its predecessor in it. *)
LEMMA SetInduction ==
    ASSUME NEW S \in SUBSET Nat, 0 \in S, \A n \in S : n + 1 \in S
    PROVE  S = Nat
<1> DEFINE Less == OpToRel(<, Nat)
           T == Nat \ S
<1>1. SUFFICES ASSUME T # {} PROVE FALSE
    OBVIOUS
<1>2. IsWellFoundedOn(Less, Nat)
    BY NatLessThanWellFounded DEF OpToRel
<1>3. \A x, y \in Nat : x < y => <<x, y>> \in Less
    BY DEF OpToRel
<1> HIDE DEF Less
<1>4. T \subseteq Nat
    OBVIOUS
<1> HIDE DEF T
<1>5. PICK x \in T : \A y \in T : ~ (<<y, x>> \in Less)
    BY <1>1, <1>2, <1>4, WFMin
<1>6. x \in Nat /\ x \notin S
    BY DEF T
<1>7. x # 0
    BY <1>6
<1>8. x - 1 \in Nat /\ x - 1 < x
    BY <1>6, <1>7
<1>9. x - 1 \notin S
    BY <1>6, <1>8
<1>10. x - 1 \in T
    BY <1>8, <1>9 DEF T
<1>11. QED
    BY <1>3, <1>5, <1>6, <1>8, <1>10

(* The same up to a bound. *)
LEMMA IntervalInduction ==
    ASSUME NEW n \in Nat, NEW S, 0 \in S, \A k \in 0..(n - 1) : k \in S => k + 1 \in S
    PROVE  \A k \in 0..n : k \in S
<1> DEFINE T == {k \in Nat : k <= n => k \in S}
<1>1. T \in SUBSET Nat /\ 0 \in T
  OBVIOUS
<1>2. ASSUME NEW k \in T
      PROVE  k + 1 \in T
  OBVIOUS
<1> HIDE DEF T
<1>3. T = Nat
  BY <1>1, <1>2, SetInduction
<1>4. QED
  BY <1>3 DEF T

-----------------------------------------------------------------------------
(* The recursive function inside FoldLeft exists *)

(* The position that the fold takes first from a set of them is its last. *)
LEMMA MaxOf ==
    ASSUME NEW m \in Nat, NEW s \in SUBSET (1..m), m \in s
    PROVE  Max(s) = m
<1>1. \A y \in s : m >= y
  OBVIOUS
<1>2. \A x \in s : (\A y \in s : x >= y) => x = m
  <2>1. \A x \in s : x <= m /\ x \in Nat
    OBVIOUS
  <2>2. QED
    BY <2>1
<1>3. QED
  BY <1>1, <1>2 DEF Max

(* What MapThenFoldSet asks of its function on the sets of positions. *)
Rule(h, base, seq, m) == [s \in SUBSET (1..m) |->
    IF s = {} THEN base ELSE Op(h[s \ {Max(s)}], seq[Max(s)])]

(* There is such a function, by induction on the length. *)
LEMMA IterExists ==
    ASSUME NEW base, NEW seq, NEW n \in Nat
    PROVE  \E h : h = Rule(h, base, seq, n)
<1> DEFINE S == {m \in Nat : \E h : h = Rule(h, base, seq, m)}
<1>1. \E h : h = Rule(h, base, seq, 0)
  <2> DEFINE h == [s \in SUBSET (1..0) |-> base]
  <2>1. SUBSET (1..0) = {{}}
    OBVIOUS
  <2>2. h = Rule(h, base, seq, 0)
    BY <2>1 DEF Rule
  <2>3. QED
    BY <2>2
<1>2. ASSUME NEW m \in Nat, NEW h, h = Rule(h, base, seq, m)
      PROVE  \E g : g = Rule(g, base, seq, m + 1)
  <2> DEFINE g == [s \in SUBSET (1..(m + 1)) |->
                     IF m + 1 \in s THEN Op(h[s \ {m + 1}], seq[m + 1]) ELSE h[s]]
             At(s) == IF s = {} THEN base ELSE Op(g[s \ {Max(s)}], seq[Max(s)])
  <2>1. ASSUME NEW s \in SUBSET (1..(m + 1))
        PROVE  g[s] = At(s)
    <3>1. CASE m + 1 \in s
      <4>1. Max(s) = m + 1
        BY <3>1, MaxOf
      <4>2. s \ {m + 1} \in SUBSET (1..(m + 1)) /\ m + 1 \notin s \ {m + 1}
        OBVIOUS
      <4>3. g[s \ {m + 1}] = h[s \ {m + 1}]
        BY <4>2
      <4>4. QED
        BY <3>1, <4>1, <4>3
    <3>2. CASE m + 1 \notin s
      <4>1. s \in SUBSET (1..m)
        BY <3>2
      <4>2. h[s] = IF s = {} THEN base ELSE Op(h[s \ {Max(s)}], seq[Max(s)])
        BY <1>2, <4>1 DEF Rule
      <4>3. g[s \ {Max(s)}] = h[s \ {Max(s)}]
        BY <3>2, <4>1
      <4>4. g[s] = h[s]
        BY <3>2
      <4>5. QED
        BY <4>2, <4>3, <4>4
    <3>3. QED
      BY <3>1, <3>2
  <2>2. g = [s \in SUBSET (1..(m + 1)) |-> At(s)]
    <3>1. g = [s \in SUBSET (1..(m + 1)) |-> g[s]]
      OBVIOUS
    <3> HIDE DEF g, At
    <3>2. QED
      BY <2>1, <3>1
  <2>3. Rule(g, base, seq, m + 1) = [s \in SUBSET (1..(m + 1)) |-> At(s)]
    BY DEF Rule
  <2> HIDE DEF g, At
  <2>4. QED
    BY <2>2, <2>3
<1>3. S = Nat
  <2>1. S \in SUBSET Nat
    OBVIOUS
  <2>2. 0 \in S
    BY <1>1
  <2>3. \A m \in S : m + 1 \in S
    BY <1>2
  <2> HIDE DEF S
  <2>4. QED
    BY <2>1, <2>2, <2>3, SetInduction
<1>4. QED
  BY <1>3

-----------------------------------------------------------------------------
(* The fold *)

Fold(base, seq) == FoldLeft(Op, base, seq)

(* g runs through the values of the fold. *)
Trace(g, base, seq, n) ==
    /\ DOMAIN g = 0..n
    /\ g[0] = base
    /\ \A k \in 1..n : g[k] = Op(g[k - 1], seq[k])

(* FoldLeft is the last value of a trace: base first, then one Op for each
   element in order. *)
THEOREM FoldLeftTrace ==
    ASSUME NEW base, NEW n \in Nat, NEW seq, DOMAIN seq = 1..n
    PROVE  \E g : Trace(g, base, seq, n) /\ Fold(base, seq) = g[n]
<1> DEFINE iter == CHOOSE h : h = Rule(h, base, seq, n)
           g == [k \in 0..n |-> iter[1..k]]
<1>1. Fold(base, seq) = iter[1..n]
  BY DEF Fold, FoldLeft, MapThenFoldSet, Rule
<1>2. iter = Rule(iter, base, seq, n)
  BY IterExists
<1> HIDE DEF iter
<1>3. iter[1..0] = base
  <2>1. 1..0 = {} /\ 1..0 \in SUBSET (1..n)
    OBVIOUS
  <2>2. QED
    BY <1>2, <2>1 DEF Rule
<1>4. ASSUME NEW k \in 1..n
      PROVE  iter[1..k] = Op(iter[1..(k - 1)], seq[k])
  <2>1. Max(1..k) = k
    BY MaxOf
  <2>2. (1..k) \ {k} = 1..(k - 1)
    OBVIOUS
  <2>3. 1..k # {} /\ 1..k \in SUBSET (1..n)
    OBVIOUS
  <2>4. iter[1..k] = Op(iter[(1..k) \ {Max(1..k)}], seq[Max(1..k)])
    BY <1>2, <2>3 DEF Rule
  <2>5. QED
    BY <2>1, <2>2, <2>4
<1>5. /\ DOMAIN g = 0..n
      /\ g[0] = base
      /\ g[n] = iter[1..n]
  BY <1>3
<1>6. ASSUME NEW k \in 1..n
      PROVE  g[k] = Op(g[k - 1], seq[k])
  <2>1. k \in 0..n /\ k - 1 \in 0..n
    OBVIOUS
  <2>2. g[k] = iter[1..k] /\ g[k - 1] = iter[1..(k - 1)]
    BY <2>1
  <2>3. QED
    BY <1>4, <2>2
<1> HIDE DEF g
<1>7. QED
  BY <1>1, <1>5, <1>6 DEF Trace

(* A sequence of one element takes one Op. *)
LEMMA FoldOfOne ==
    ASSUME NEW base, NEW x
    PROVE  Fold(base, <<x>>) = Op(base, x)
<1>1. DOMAIN <<x>> = 1..1 /\ <<x>>[1] = x
  OBVIOUS
<1>2. PICK g : Trace(g, base, <<x>>, 1) /\ Fold(base, <<x>>) = g[1]
  BY <1>1, FoldLeftTrace
<1>3. g[1] = Op(g[0], <<x>>[1]) /\ g[0] = base
  BY <1>2 DEF Trace
<1>4. QED
  BY <1>1, <1>2, <1>3

(* Nothing to take leaves the base. *)
LEMMA FoldOfNone ==
    ASSUME NEW base, NEW seq, DOMAIN seq = 1..0
    PROVE  Fold(base, seq) = base
<1>1. PICK g : Trace(g, base, seq, 0) /\ Fold(base, seq) = g[0]
  BY FoldLeftTrace
<1>2. QED
  BY <1>1 DEF Trace

(* There is one trace: what two of them hold is equal up to the shorter's end. *)
LEMMA TraceUnique ==
    ASSUME NEW base, NEW seq, NEW long, NEW n \in Nat, NEW m \in Nat, n <= m,
           NEW g, Trace(g, base, seq, n), NEW h, Trace(h, base, long, m),
           \A k \in 1..n : seq[k] = long[k]
    PROVE  \A k \in 0..n : g[k] = h[k]
<1> DEFINE S == {k \in 0..n : g[k] = h[k]}
<1>1. 0 \in S
  BY DEF Trace
<1>2. ASSUME NEW k \in 0..(n - 1), k \in S
      PROVE  k + 1 \in S
  <2>1. k + 1 \in 1..n /\ k + 1 \in 1..m /\ k + 1 - 1 = k
    OBVIOUS
  <2>2. g[k + 1] = Op(g[k], seq[k + 1]) /\ h[k + 1] = Op(h[k], long[k + 1])
    BY <2>1 DEF Trace
  <2>3. g[k] = h[k] /\ seq[k + 1] = long[k + 1]
    BY <1>2, <2>1
  <2>4. QED
    BY <2>1, <2>2, <2>3
<1> HIDE DEF S
<1>3. \A k \in 0..n : k \in S
  BY <1>1, <1>2, IntervalInduction
<1>4. QED
  BY <1>3 DEF S

(* One more element takes one more Op. *)
THEOREM FoldAppend ==
    ASSUME NEW base, NEW S, NEW seq \in Seq(S), NEW x \in S
    PROVE  Fold(base, Append(seq, x)) = Op(Fold(base, seq), x)
<1> DEFINE n == Len(seq)
           long == Append(seq, x)
<1>1. n \in Nat /\ DOMAIN seq = 1..n /\ DOMAIN long = 1..(n + 1)
  OBVIOUS
<1>2. long[n + 1] = x /\ \A k \in 1..n : seq[k] = long[k]
  OBVIOUS
<1> HIDE DEF n, long
<1>3. PICK g : Trace(g, base, seq, n) /\ Fold(base, seq) = g[n]
  BY <1>1, FoldLeftTrace
<1>4. PICK h : Trace(h, base, long, n + 1) /\ Fold(base, long) = h[n + 1]
  BY <1>1, FoldLeftTrace
<1>5. g[n] = h[n]
  BY <1>1, <1>2, <1>3, <1>4, TraceUnique
<1>6. h[n + 1] = Op(h[n], long[n + 1])
  <2>1. PICK k \in 1..(n + 1) : k = n + 1
    BY <1>1
  <2>2. h[k] = Op(h[k - 1], long[k])
    BY <1>4 DEF Trace
  <2>3. k - 1 = n
    BY <1>1, <2>1
  <2>4. QED
    BY <2>1, <2>2, <2>3
<1>7. QED
  BY <1>2, <1>3, <1>4, <1>5, <1>6 DEF long

-----------------------------------------------------------------------------
(* The fold of a function *)

(* FoldFunction takes the elements in an order that only the set knows. *)
Choice(s) == CHOOSE x \in s : TRUE
Taking(h, base, fun, s) ==
    IF s = {} THEN base ELSE Op(fun[Choice(s)], h[s \ {Choice(s)}])

(* The recursive function inside FoldFunction exists, by induction on the size
   of the sets. *)
LEMMA TakingExists ==
    ASSUME NEW base, NEW fun, NEW D, IsFiniteSet(D)
    PROVE  \E h : h = [s \in SUBSET D |-> Taking(h, base, fun, s)]
<1> DEFINE Small(m) == {s \in SUBSET D : Cardinality(s) <= m}
           S == {m \in Nat : \E h : h = [s \in Small(m) |-> Taking(h, base, fun, s)]}
<1>1. ASSUME NEW s \in SUBSET D
      PROVE  IsFiniteSet(s) /\ Cardinality(s) \in Nat /\ Cardinality(s) <= Cardinality(D)
  BY FS_Subset, FS_CardinalityType
<1>2. 0 \in S
  <2> DEFINE h == [s \in Small(0) |-> base]
  <2>1. ASSUME NEW s \in Small(0)
        PROVE  s = {}
    BY <1>1, FS_EmptySet
  <2>2. h = [s \in Small(0) |-> Taking(h, base, fun, s)]
    BY <2>1 DEF Taking
  <2>3. QED
    BY <2>2
<1>3. ASSUME NEW m \in Nat, NEW h, h = [s \in Small(m) |-> Taking(h, base, fun, s)]
      PROVE  \E g : g = [s \in Small(m + 1) |-> Taking(g, base, fun, s)]
  <2> DEFINE g == [s \in Small(m + 1) |-> Taking(h, base, fun, s)]
  <2>1. ASSUME NEW s \in Small(m + 1)
        PROVE  Taking(h, base, fun, s) = Taking(g, base, fun, s)
    <3>1. CASE s = {}
      BY <3>1 DEF Taking
    <3>2. CASE s # {}
      <4> DEFINE t == s \ {Choice(s)}
      <4>1. Choice(s) \in s
        BY <3>2 DEF Choice
      <4>2. t \in SUBSET D /\ Cardinality(t) = Cardinality(s) - 1
        BY <1>1, <4>1, FS_RemoveElement
      <4>3. Cardinality(t) <= m /\ Cardinality(t) <= m + 1
        BY <1>1, <4>2
      <4>4. t \in Small(m) /\ t \in Small(m + 1)
        BY <4>2, <4>3
      <4> HIDE DEF t
      <4>5. h[t] = g[t]
        <5>1. h[t] = Taking(h, base, fun, t)
          BY <1>3, <4>4
        <5>2. g[t] = Taking(h, base, fun, t)
          BY <4>4
        <5>3. QED
          BY <5>1, <5>2
      <4> HIDE DEF g
      <4>6. QED
        BY <3>2, <4>5 DEF Taking, t
    <3>3. QED
      BY <3>1, <3>2
  <2>2. g = [s \in Small(m + 1) |-> g[s]]
    OBVIOUS
  <2>3. \A s \in Small(m + 1) : g[s] = Taking(g, base, fun, s)
    <3>1. \A s \in Small(m + 1) : g[s] = Taking(h, base, fun, s)
      OBVIOUS
    <3> HIDE DEF g
    <3>2. QED
      BY <2>1, <3>1
  <2> HIDE DEF g, Small
  <2>4. g = [s \in Small(m + 1) |-> Taking(g, base, fun, s)]
    BY <2>2, <2>3
  <2>5. QED
    BY <2>4
<1>4. S = Nat
  <2>1. S \in SUBSET Nat
    OBVIOUS
  <2>2. ASSUME NEW m \in S
        PROVE  m + 1 \in S
    <3>1. PICK h : h = [s \in Small(m) |-> Taking(h, base, fun, s)]
      OBVIOUS
    <3> HIDE DEF Small
    <3>2. \E g : g = [s \in Small(m + 1) |-> Taking(g, base, fun, s)]
      BY <1>3, <3>1
    <3>3. m + 1 \in Nat
      OBVIOUS
    <3>4. QED
      BY <3>2, <3>3
  <2> HIDE DEF S
  <2>3. QED
    BY <1>2, <2>1, <2>2, SetInduction
<1>5. Small(Cardinality(D)) = SUBSET D
  BY <1>1
<1>6. Cardinality(D) \in S
  BY <1>1, <1>4
<1>7. QED
  BY <1>5, <1>6

(* h runs through the values of the fold, one for every set of places. *)
Takes(h, base, fun) == \A s \in SUBSET DOMAIN fun : h[s] = Taking(h, base, fun, s)

FoldedFunction(base, fun) == FoldFunction(Op, base, fun)

(* FoldFunction is the value of that function at the whole domain. *)
THEOREM FoldFunctionIs ==
    ASSUME NEW base, NEW fun, IsFiniteSet(DOMAIN fun)
    PROVE  \E h : Takes(h, base, fun) /\ FoldedFunction(base, fun) = h[DOMAIN fun]
<1> DEFINE D == DOMAIN fun
           iter == CHOOSE h : h = [s \in SUBSET D |-> Taking(h, base, fun, s)]
<1>1. FoldedFunction(base, fun) = iter[D]
  BY DEF FoldedFunction, FoldFunction, FoldFunctionOnSet, MapThenFoldSet, Taking, Choice
<1>2. iter = [s \in SUBSET D |-> Taking(iter, base, fun, s)]
  BY TakingExists
<1> HIDE DEF iter
<1>3. Takes(iter, base, fun)
  BY <1>2 DEF Takes
<1>4. QED
  BY <1>1, <1>3
=============================================================================
