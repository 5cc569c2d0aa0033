-------------------------- MODULE RecursionTheorems --------------------------
(***************************************************************************)
(* Induction over data, in a form that needs no operator parameter.        *)
(*                                                                         *)
(* What a function that is defined by recursion computes, for tables,      *)
(* rungs and lists of every length, is proved by induction.  Where a proof *)
(* by induction speaks of a property P(n), the lemmas of this module speak *)
(* of the set {n \in Nat : P(n)}, and where the definition of a recursive  *)
(* function speaks of the body as an operator, they speak of a function.   *)
(***************************************************************************)
EXTENDS Naturals, WellFoundedInduction, TLAPS

\* A set of numbers that is not empty has a least one.
LEMMA LeastNumber ==
  ASSUME NEW T, T \subseteq Nat, T # {}
  PROVE  \E n \in T : \A m \in T : n <= m
<1> DEFINE R == OpToRel(<, Nat)
<1>1. IsWellFoundedOn(R, Nat)
  BY NatLessThanWellFounded
<1>2. \A x, y \in Nat : y < x => <<y, x>> \in R
  BY DEF OpToRel
<1> HIDE DEF R
<1>3. PICK n \in T : \A m \in T : ~(<<m, n>> \in R)
  BY <1>1, WFMin
<1>4. \A m \in T : ~(m < n)
  BY <1>2, <1>3
<1>5. QED
  BY <1>4

\* Induction over the numbers from first to last, and up to N.
LEMMA InductionFromTo ==
  ASSUME NEW first \in Nat, NEW last \in Nat, NEW T, first \in T,
         \A n \in first .. last : n \in T /\ n < last => n + 1 \in T
  PROVE  \A n \in first .. last : n \in T
<1> DEFINE rest == (first .. last) \ T
<1>1. SUFFICES ASSUME rest # {} PROVE FALSE
  OBVIOUS
<1>2. PICK n \in rest : \A m \in rest : n <= m
  <2>1. rest \subseteq Nat
    OBVIOUS
  <2> HIDE DEF rest
  <2>2. QED
    BY <1>1, <2>1, LeastNumber
<1>3. n # first /\ n - 1 \in first .. last
  BY <1>2
<1>4. n - 1 \in T
  BY <1>2, <1>3
<1>5. QED
  BY <1>2, <1>3, <1>4

LEMMA InductionUpTo ==
  ASSUME NEW N \in Nat, NEW T, 0 \in T,
         \A n \in 0 .. N : n \in T /\ n < N => n + 1 \in T
  PROVE  \A n \in 0 .. N : n \in T
BY InductionFromTo

\* Induction over the size of the elements of a set.
LEMMA InductionBySize ==
  ASSUME NEW D, NEW size \in [D -> Nat], NEW T,
         \A x \in D : (\A y \in D : size[y] < size[x] => y \in T) => x \in T
  PROVE  \A x \in D : x \in T
<1> DEFINE sizes == {size[x] : x \in D \ T}
<1>1. SUFFICES ASSUME NEW x \in D, x \notin T PROVE FALSE
  OBVIOUS
<1>2. sizes \subseteq Nat /\ sizes # {}
  BY <1>1
<1>3. \E n \in sizes : \A m \in sizes : n <= m
  <2> HIDE DEF sizes
  <2>1. QED
    BY <1>2, LeastNumber
<1>4. PICK z \in D \ T : \A y \in D \ T : size[z] <= size[y]
  BY <1>3
<1>5. \A y \in D : size[y] < size[z] => y \in T
  BY <1>4
<1>6. QED
  BY <1>4, <1>5

\* A definition by recursion over the elements of D, with values in S: the
\* value at x depends only on the values at elements of a smaller size, and
\* sizes are below N.
WellDefined(D, S, size, N, step) ==
  /\ S # {} /\ N \in Nat
  /\ size \in [D -> Nat] /\ \A x \in D : size[x] < N
  /\ step \in [D -> [[D -> S] -> S]]
  /\ \A x \in D : \A g, h \in [D -> S] :
       (\A y \in D : size[y] < size[x] => g[y] = h[y]) => step[x][g] = step[x][h]

Solution(f, D, S, step) ==
  /\ f \in [D -> S]
  /\ \A x \in D : f[x] = step[x][f]

\* Such a definition defines a function.
THEOREM RecursiveFunction ==
  ASSUME NEW D, NEW S, NEW size, NEW N, NEW step, WellDefined(D, S, size, N, step)
  PROVE  \E f : Solution(f, D, S, step)
<1> USE DEF WellDefined
<1> DEFINE Solves(f, k) == \A x \in D : size[x] < k => f[x] = step[x][f]
           T == {k \in 0 .. N : \E f \in [D -> S] : Solves(f, k)}
<1>1. 0 \in T
  <2>1. PICK s \in S : TRUE
    OBVIOUS
  <2>2. [x \in D |-> s] \in [D -> S] /\ Solves([x \in D |-> s], 0)
    OBVIOUS
  <2>3. QED
    BY <2>2
<1>2. ASSUME NEW k \in 0 .. N, k \in T, k < N
      PROVE  k + 1 \in T
  <2>1. PICK f \in [D -> S] : Solves(f, k)
    BY <1>2
  <2> DEFINE g == [x \in D |-> IF size[x] = k THEN step[x][f] ELSE f[x]]
  <2>2. g \in [D -> S]
    OBVIOUS
  <2>3. ASSUME NEW x \in D, size[x] < k + 1
        PROVE  g[x] = step[x][g]
    <3>1. \A y \in D : size[y] < size[x] => g[y] = f[y]
      BY <2>3
    <3>2. step[x][g] = step[x][f]
      <4> HIDE DEF g
      <4>1. QED
        BY <2>2, <3>1
    <3>3. size[x] = k \/ size[x] < k
      <4>1. size[x] \in Nat /\ k \in Nat
        OBVIOUS
      <4>2. \A n, j \in Nat : n < j + 1 => n = j \/ n < j
        OBVIOUS
      <4> HIDE DEF g, T, Solves
      <4>3. QED
        BY <2>3, <4>1, <4>2
    <3>4. QED
      BY <2>1, <3>2, <3>3
  <2>4. Solves(g, k + 1)
    BY <2>3
  <2>5. k + 1 \in 0 .. N
    BY <1>2
  <2>6. QED
    BY <2>2, <2>4, <2>5
<1>3. N \in T
  <2> HIDE DEF T
  <2>1. \A k \in 0 .. N : k \in T
    BY <1>1, <1>2, InductionUpTo
  <2>2. QED
    BY <2>1
<1>4. QED
  BY <1>3 DEF Solution

\* The same for a definition that goes from one end of first .. last to the
\* other: step[n] makes the value of n from the value of n - 1.
Chain(f, first, last, S, s, step) ==
  /\ f \in [first .. last -> S]
  /\ f[first] = s
  /\ \A n \in first + 1 .. last : f[n] = step[n][f[n - 1]]

THEOREM ChainRecursion ==
  ASSUME NEW first \in Nat, NEW last \in Nat, first <= last,
         NEW S, NEW s \in S, NEW step \in [first + 1 .. last -> [S -> S]]
  PROVE  \E f : Chain(f, first, last, S, s, step)
<1> DEFINE D == first .. last
           size == [n \in D |-> n]
           all == [n \in D |-> [h \in [D -> S] |->
                     IF n = first THEN s ELSE step[n][h[n - 1]]]]
<1>1. \A n \in D : n # first => n \in first + 1 .. last /\ n - 1 \in D /\ n - 1 < n
  OBVIOUS
<1>2. all \in [D -> [[D -> S] -> S]]
  BY <1>1
<1>3. ASSUME NEW n \in D, NEW g \in [D -> S], NEW h \in [D -> S],
             \A m \in D : size[m] < size[n] => g[m] = h[m]
      PROVE  all[n][g] = all[n][h]
  <2>1. n # first => g[n - 1] = h[n - 1]
    BY <1>1, <1>3
  <2>2. QED
    BY <2>1
<1>4. S # {} /\ size \in [D -> Nat] /\ last + 1 \in Nat
      /\ \A n \in D : size[n] < last + 1
  OBVIOUS
<1>5. PICK f : Solution(f, D, S, all)
  <2> HIDE DEF D, size, all
  <2>1. \A n \in D : \A g, h \in [D -> S] :
          (\A m \in D : size[m] < size[n] => g[m] = h[m]) => all[n][g] = all[n][h]
    BY <1>3, Zenon
  <2>2. WellDefined(D, S, size, last + 1, all)
    BY <1>2, <1>4, <2>1, Zenon DEF WellDefined
  <2>3. QED
    BY <2>2, RecursiveFunction
<1>6. f \in [D -> S] /\ \A n \in D : f[n] = all[n][f]
  BY <1>5 DEF Solution
<1>7. f[first] = s
  BY <1>6
<1>8. ASSUME NEW n \in first + 1 .. last
      PROVE  f[n] = step[n][f[n - 1]]
  <2>1. n \in D /\ n # first
    OBVIOUS
  <2>2. QED
    BY <1>6, <2>1
<1>9. QED
  BY <1>6, <1>7, <1>8 DEF Chain

=============================================================================
