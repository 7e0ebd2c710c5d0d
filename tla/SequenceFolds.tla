----------------------------- MODULE SequenceFolds -----------------------------
(***************************************************************************)
(* What FoldLeft() computes, for any operator: INSTANCE this module with    *)
(* the operator that is folded.  The induction it takes goes over sets of   *)
(* natural numbers, which have a least element.                             *)
(***************************************************************************)
EXTENDS Integers, WellFoundedInduction, TLAPS

CONSTANTS
  Op(_, _),     \* the operator: what has been made so far, and the next element
  Inv(_, _, _)  \* for some context: what holds of it after so many elements

(* A set of natural numbers that is not empty has a least one. *)
LEMMA NatLeast ==
  ASSUME NEW S, S \subseteq Nat, S # {}
  PROVE  \E n \in S : \A m \in S : n <= m
<1>1. IsWellFoundedOn(OpToRel(<, Nat), Nat)
  BY NatLessThanWellFounded
<1>2. PICK n \in S : \A y \in S : <<y, n>> \notin OpToRel(<, Nat)
  BY <1>1, WFMin
<1>3. \A m \in S : ~(m < n)
  BY <1>2 DEF OpToRel
<1> QED
  BY <1>3

(* A set with 0 and the successors of its elements has every number. *)
LEMMA NatSetInduction ==
  ASSUME NEW S, 0 \in S, \A n \in Nat : n \in S => n + 1 \in S
  PROVE  \A n \in Nat : n \in S
<1> DEFINE M == Nat \ S
<1>1. SUFFICES ASSUME M # {} PROVE FALSE
  OBVIOUS
<1>2. PICK n \in M : \A m \in M : n <= m
  BY <1>1, NatLeast
<1>3. n # 0 /\ n \in Nat /\ n \notin S
  OBVIOUS
<1>4. n - 1 \in Nat /\ ~(n <= n - 1)
  BY <1>3
<1>5. n - 1 \in S
  BY <1>2, <1>4
<1>6. (n - 1) + 1 = n
  BY <1>3
<1> QED
  BY <1>3, <1>4, <1>5, <1>6

-----------------------------------------------------------------------------
(* The function on sets of indices by which FoldLeft() is defined: it works *)
(* on the last index of a set after all the others.                         *)
LastIndex(s) == CHOOSE x \in s : \A y \in s : x >= y

IterStep(g, base, seq, s) ==
  IF s = {} THEN base ELSE Op(g[s \ {LastIndex(s)}], seq[LastIndex(s)])

Iterates(g, base, seq, k) ==
  /\ DOMAIN g = SUBSET (1 .. k)
  /\ \A s \in SUBSET (1 .. k) : g[s] = IterStep(g, base, seq, s)

LEMMA LastIs ==
  ASSUME NEW k \in Nat, NEW s \in SUBSET (1 .. k), k \in s
  PROVE  LastIndex(s) = k
<1>1. \A x \in s : x \in Int /\ x <= k
  OBVIOUS
<1>2. \E x \in s : \A y \in s : x >= y
  BY <1>1
<1>3. LastIndex(s) \in s /\ \A y \in s : LastIndex(s) >= y
  <2> DEFINE P(x) == \A y \in s : x >= y
  <2>1. \E x \in s : P(x)
    BY <1>2
  <2>2. (CHOOSE x \in s : P(x)) \in s /\ P(CHOOSE x \in s : P(x))
    BY <2>1, Zenon
  <2> QED
    BY <2>2 DEF LastIndex
<1>4. \A x \in s : x >= k => x = k
  BY <1>1
<1> QED
  BY <1>3, <1>4

LEMMA IterExists ==
  ASSUME NEW base, NEW seq
  PROVE  \A k \in Nat : \E g : Iterates(g, base, seq, k)
<1> DEFINE S == {k \in Nat : \E g : Iterates(g, base, seq, k)}
<1>1. 0 \in S
  <2> DEFINE g == [s \in SUBSET (1 .. 0) |-> base]
  <2>1. 1 .. 0 = {}
    OBVIOUS
  <2>2. Iterates(g, base, seq, 0)
    BY <2>1 DEF Iterates, IterStep
  <2> QED
    BY <2>2
<1>2. ASSUME NEW k \in Nat, k \in S
      PROVE  k + 1 \in S
  <2>1. PICK g : Iterates(g, base, seq, k)
    BY <1>2
  <2> DEFINE h == [s \in SUBSET (1 .. k + 1) |->
                     IF k + 1 \in s THEN Op(g[s \ {k + 1}], seq[k + 1]) ELSE g[s]]
  <2>2. ASSUME NEW s \in SUBSET (1 .. k)
        PROVE  h[s] = g[s]
    <3>1. s \in SUBSET (1 .. k + 1) /\ k + 1 \notin s
      OBVIOUS
    <3> QED
      BY <3>1
  <2>3. ASSUME NEW s \in SUBSET (1 .. k + 1)
        PROVE  h[s] = IterStep(h, base, seq, s)
    <3>1. CASE k + 1 \in s
      <4>1. LastIndex(s) = k + 1 /\ s # {}
        BY <3>1, LastIs
      <4>2. s \ {k + 1} \in SUBSET (1 .. k)
        OBVIOUS
      <4>3. h[s] = Op(g[s \ {k + 1}], seq[k + 1])
        BY <3>1
      <4>4. h[s \ {k + 1}] = g[s \ {k + 1}]
        BY <2>2, <4>2
      <4> HIDE DEF h
      <4> QED
        BY <4>1, <4>3, <4>4 DEF IterStep
    <3>2. CASE k + 1 \notin s
      <4>0. \A x \in s : x \in 1 .. k
        BY <3>2
      <4>1. s \in SUBSET (1 .. k) /\ s \ {LastIndex(s)} \in SUBSET (1 .. k)
        BY <4>0
      <4>2. h[s] = g[s] /\ h[s \ {LastIndex(s)}] = g[s \ {LastIndex(s)}]
        BY <2>2, <4>1
      <4> HIDE DEF h
      <4> QED
        BY <2>1, <4>1, <4>2 DEF Iterates, IterStep
    <3> QED
      BY <3>1, <3>2
  <2>4. DOMAIN h = SUBSET (1 .. k + 1)
    OBVIOUS
  <2> HIDE DEF h
  <2>5. Iterates(h, base, seq, k + 1)
    BY <2>3, <2>4 DEF Iterates
  <2> QED
    BY <2>5
<1> HIDE DEF S
<1>3. \A k \in Nat : k \in S
  BY <1>1, <1>2, NatSetInduction
<1> QED
  BY <1>3 DEF S

(* FoldLeft(Op, base, seq) with the definitions of the library expanded.    *)
Fold(base, seq) ==
  LET iter == CHOOSE iter : iter =
                [s \in SUBSET DOMAIN seq |->
                   IF s = {} THEN base
                   ELSE LET x == CHOOSE x \in s : \A y \in s : x >= y
                        IN  Op(iter[s \ {x}], seq[x])]
  IN  iter[DOMAIN seq]

(* FoldLeft() runs through the sequence, from base to its result. *)
LEMMA FoldRuns ==
  ASSUME NEW base, NEW n \in Nat, NEW seq, DOMAIN seq = 1 .. n
  PROVE  \E acc : /\ acc[0] = base
                  /\ \A i \in 1 .. n : acc[i] = Op(acc[i - 1], seq[i])
                  /\ Fold(base, seq) = acc[n]
<1> DEFINE IsIter(g) == g = [s \in SUBSET DOMAIN seq |->
                               IF s = {} THEN base
                               ELSE LET x == LastIndex(s) IN Op(g[s \ {x}], seq[x])]
           c == CHOOSE g : IsIter(g)
<1>1. \E g : IsIter(g)
  <2>1. PICK g : Iterates(g, base, seq, n)
    BY IterExists
  <2> DEFINE h == [s \in SUBSET (1 .. n) |-> g[s]]
  <2>3. ASSUME NEW s \in SUBSET (1 .. n)
        PROVE  h[s] = IterStep(h, base, seq, s)
    <3>1. s \ {LastIndex(s)} \in SUBSET (1 .. n)
      OBVIOUS
    <3>2. h[s] = g[s] /\ h[s \ {LastIndex(s)}] = g[s \ {LastIndex(s)}]
      BY <3>1
    <3> HIDE DEF h
    <3> QED
      BY <2>1, <3>2 DEF Iterates, IterStep
  <2>4. h = [s \in SUBSET DOMAIN seq |-> h[s]]
    OBVIOUS
  <2> HIDE DEF h
  <2>5. IsIter(h)
    BY <2>3, <2>4 DEF IterStep
  <2> QED
    BY <2>5
<1>2. IsIter(c)
  BY <1>1, Zenon
<1>3. Fold(base, seq) = c[DOMAIN seq]
  BY DEF Fold, LastIndex
<1> HIDE DEF c
<1>4. ASSUME NEW s \in SUBSET (1 .. n)
      PROVE  c[s] = IterStep(c, base, seq, s)
  BY <1>2 DEF IterStep
<1> DEFINE acc == [k \in 0 .. n |-> c[1 .. k]]
<1>5. acc[0] = base
  <2>1. 1 .. 0 = {} /\ 1 .. 0 \in SUBSET (1 .. n) /\ 0 \in 0 .. n
    OBVIOUS
  <2>2. c[1 .. 0] = base
    BY <1>4, <2>1 DEF IterStep
  <2> QED
    BY <2>1, <2>2
<1>6. ASSUME NEW i \in 1 .. n
      PROVE  acc[i] = Op(acc[i - 1], seq[i])
  <2>0. i \in Nat /\ i \in 1 .. i /\ i - 1 \in 0 .. n /\ i \in 0 .. n
    OBVIOUS
  <2>1. 1 .. i \in SUBSET (1 .. n) /\ (1 .. i) \ {i} = 1 .. i - 1
    <3>1. \A x : x \in 1 .. i => x \in 1 .. n
      OBVIOUS
    <3>2. \A x : x \in 1 .. i - 1 <=> x \in (1 .. i) \ {i}
      OBVIOUS
    <3> QED
      BY <3>1, <3>2
  <2>2. LastIndex(1 .. i) = i
    BY <2>0, LastIs
  <2>3. c[1 .. i] = Op(c[1 .. i - 1], seq[i])
    BY <1>4, <2>0, <2>1, <2>2 DEF IterStep
  <2>4. acc[i] = c[1 .. i] /\ acc[i - 1] = c[1 .. i - 1]
    BY <2>0
  <2> HIDE DEF acc
  <2> QED
    BY <2>3, <2>4
<1>7. acc[n] = c[DOMAIN seq]
  OBVIOUS
<1> HIDE DEF acc
<1> QED
  BY <1>3, <1>5, <1>6, <1>7

(* Induction over a sequence: what holds of base, and goes on holding from  *)
(* element to element, holds of the result.                                 *)
THEOREM FoldInvariant ==
  ASSUME NEW base, NEW n \in Nat, NEW seq, DOMAIN seq = 1 .. n, NEW ctx,
         Inv(ctx, 0, base),
         \A i \in 1 .. n : \A acc : Inv(ctx, i - 1, acc) => Inv(ctx, i, Op(acc, seq[i]))
  PROVE  Inv(ctx, n, Fold(base, seq))
<1>1. PICK acc : /\ acc[0] = base
                 /\ \A i \in 1 .. n : acc[i] = Op(acc[i - 1], seq[i])
                 /\ Fold(base, seq) = acc[n]
  BY FoldRuns
<1> DEFINE S == {k \in Nat : k <= n => Inv(ctx, k, acc[k])}
<1>2. 0 \in S
  BY <1>1
<1>3. ASSUME NEW k \in Nat, k \in S
      PROVE  k + 1 \in S
  <2>1. CASE k + 1 <= n
    <3>1. k + 1 \in 1 .. n /\ k <= n /\ (k + 1) - 1 = k
      BY <2>1
    <3> QED
      BY <1>1, <1>3, <3>1
  <2> QED
    BY <2>1
<1> HIDE DEF S
<1>4. n \in S
  BY <1>2, <1>3, NatSetInduction
<1> QED
  BY <1>1, <1>4 DEF S
=============================================================================
