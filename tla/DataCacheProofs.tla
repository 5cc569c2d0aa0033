--------------------------- MODULE DataCacheProofs ---------------------------
(***************************************************************************)
(* Proofs about DataCache, for every table, every tag file, every number   *)
(* of uploads, programs and restarts.                                      *)
(*                                                                         *)
(* Four arguments.  What the builders list is found by induction over the  *)
(* cells of the table.  Types follow from it.  Within the time in which no *)
(* tag leaves the visible list, the list only grows at its end, so that    *)
(* copies of equal length are equal.  And versions name layouts: between   *)
(* two restarts a version is given once, so that two payloads which name   *)
(* the same version mean the same list; a payload that is newer than the   *)
(* published layout does not exist.                                        *)
(***************************************************************************)
EXTENDS DataCache, RecursionTheorems, FiniteSetTheorems

-----------------------------------------------------------------------------
(***************************************************************************)
(* What the builders list                                                  *)
(***************************************************************************)
\* f[n] is what has been listed after n cells.
Collects(f, cells, shown) ==
  /\ f \in [0 .. Len(cells) -> Seq(Tags)]
  /\ f[0] = << >>
  /\ \A n \in 1 .. Len(cells) :
       f[n] = IF cells[n] \in shown THEN Append(f[n - 1], cells[n]) ELSE f[n - 1]

\* The recursion in VisibleOf defines such an f.
LEMMA VisibleOfCollects ==
  ASSUME NEW cells \in Seq(Tags), NEW shown
  PROVE  \E f : Collects(f, cells, shown) /\ VisibleOf(cells, shown) = f[Len(cells)]
<1> DEFINE D == 0 .. Len(cells)
           S == Seq(Tags)
           step == [n \in D |-> [h \in [D -> S] |->
                     IF n = 0 THEN << >>
                     ELSE IF cells[n] \in shown THEN Append(h[n - 1], cells[n])
                     ELSE h[n - 1]]]
           size == [n \in D |-> n]
<1>1. Len(cells) \in Nat /\ \A n \in D : n # 0 => n - 1 \in D /\ cells[n] \in Tags
  OBVIOUS
<1>2. ASSUME NEW n \in D, NEW h \in [D -> S]
      PROVE  step[n][h] \in S
  <2>1. n # 0 => h[n - 1] \in Seq(Tags)
    BY <1>1
  <2>2. n # 0 => Append(h[n - 1], cells[n]) \in Seq(Tags)
    BY <1>1, <2>1
  <2>3. QED
    BY <2>1, <2>2
<1>3. step \in [D -> [[D -> S] -> S]]
  BY <1>2
<1>4. ASSUME NEW n \in D, NEW g \in [D -> S], NEW h \in [D -> S],
             \A m \in D : size[m] < size[n] => g[m] = h[m]
      PROVE  step[n][g] = step[n][h]
  <2>1. n # 0 => g[n - 1] = h[n - 1]
    <3>1. n # 0 => n - 1 \in D /\ n - 1 < n
      BY <1>1
    <3>2. QED
      BY <1>4, <3>1
  <2>2. QED
    BY <2>1
<1>5. PICK f : Solution(f, D, S, step)
  <2>1. S # {} /\ size \in [D -> Nat] /\ \A n \in D : size[n] < Len(cells) + 1
    BY <1>1
  <2> HIDE DEF step, size, D, S
  <2>2. Len(cells) + 1 \in Nat
    BY <1>1
  <2>3. \A n \in D : \A g, h \in [D -> S] :
          (\A m \in D : size[m] < size[n] => g[m] = h[m]) => step[n][g] = step[n][h]
    BY <1>4, Zenon
  <2>4. WellDefined(D, S, size, Len(cells) + 1, step)
    BY <1>3, <2>1, <2>2, <2>3, Zenon DEF WellDefined
  <2>5. QED
    BY <2>4, RecursiveFunction
<1> DEFINE Body(g) == [n \in 0 .. Len(cells) |->
                        IF n = 0 THEN << >>
                        ELSE IF cells[n] \in shown THEN Append(g[n - 1], cells[n])
                        ELSE g[n - 1]]
<1>6. f = Body(f)
  <2>1. f \in [D -> S] /\ \A n \in D : f[n] = step[n][f]
    BY <1>5 DEF Solution
  <2>2. ASSUME NEW n \in D
        PROVE  f[n] = Body(f)[n]
    <3>1. step[n][f] = Body(f)[n]
      BY <2>1
    <3>2. QED
      BY <2>1, <3>1
  <2>3. QED
    BY <2>1, <2>2
<1> DEFINE F == CHOOSE g : g = Body(g)
<1>7. F = Body(F)
  BY <1>6
<1>8. VisibleOf(cells, shown) = F[Len(cells)]
  BY DEF VisibleOf
<1> HIDE DEF F
<1>9. F[0] = << >>
  BY <1>1, <1>7
<1>10. ASSUME NEW n \in 1 .. Len(cells)
       PROVE  F[n] = IF cells[n] \in shown THEN Append(F[n - 1], cells[n]) ELSE F[n - 1]
  <2>1. n \in 0 .. Len(cells) /\ n # 0
    BY <1>1
  <2>2. QED
    BY <1>7, <2>1
<1> DEFINE T == {n \in D : F[n] \in Seq(Tags)}
<1>11. \A n \in D : n \in T
  <2>1. 0 \in T
    <3>1. << >> \in Seq(Tags) /\ 0 \in D
      BY <1>1
    <3>2. QED
      BY <1>9, <3>1
  <2>2. ASSUME NEW n \in D, n \in T, n < Len(cells)
        PROVE  n + 1 \in T
    <3>1. n + 1 \in 1 .. Len(cells) /\ n + 1 \in D /\ cells[n + 1] \in Tags
      BY <1>1, <2>2
    <3>2. Append(F[n], cells[n + 1]) \in Seq(Tags)
      BY <2>2, <3>1
    <3>3. F[n + 1] = IF cells[n + 1] \in shown THEN Append(F[n], cells[n + 1]) ELSE F[n]
      BY <1>10, <3>1
    <3>4. QED
      BY <2>2, <3>1, <3>2, <3>3
  <2> HIDE DEF T
  <2>3. QED
    BY <1>1, <2>1, <2>2, InductionUpTo
<1>12. F = [n \in D |-> F[n]]
  BY <1>7
<1>13. F \in [0 .. Len(cells) -> Seq(Tags)]
  BY <1>11, <1>12
<1>14. QED
  BY <1>8, <1>9, <1>10, <1>13 DEF Collects

\* Appending to a list.
LEMMA AppendFacts ==
  ASSUME NEW s \in Seq(Tags), NEW t \in Tags
  PROVE  /\ Append(s, t) \in Seq(Tags)
         /\ Len(Append(s, t)) = Len(s) + 1
         /\ Range(Append(s, t)) = Range(s) \cup {t}
         /\ IsInjective(s) /\ t \notin Range(s) => IsInjective(Append(s, t))
<1>1. /\ Append(s, t) \in Seq(Tags) /\ Len(Append(s, t)) = Len(s) + 1
      /\ Append(s, t)[Len(s) + 1] = t
      /\ \A i \in 1 .. Len(s) : Append(s, t)[i] = s[i]
      /\ Len(s) \in Nat /\ DOMAIN s = 1 .. Len(s)
      /\ DOMAIN Append(s, t) = 1 .. Len(s) + 1
  OBVIOUS
<1> DEFINE a == Append(s, t)
<1> HIDE DEF a
<1>2. Range(a) = Range(s) \cup {t}
  <2>1. ASSUME NEW u \in Range(a) PROVE u \in Range(s) \cup {t}
    <3>1. PICK i \in 1 .. Len(s) + 1 : a[i] = u
      BY <1>1, <2>1 DEF Range, a
    <3>2. i \in 1 .. Len(s) \/ i = Len(s) + 1
      BY <1>1, <3>1
    <3>3. QED
      BY <1>1, <3>1, <3>2 DEF Range, a
  <2>2. ASSUME NEW u \in Range(s) PROVE u \in Range(a)
    <3>1. PICK i \in 1 .. Len(s) : s[i] = u
      BY <1>1, <2>2 DEF Range
    <3>2. i \in 1 .. Len(s) + 1
      BY <1>1, <3>1
    <3>3. QED
      BY <1>1, <3>1, <3>2 DEF Range, a
  <2>3. t \in Range(a)
    <3>1. Len(s) + 1 \in 1 .. Len(s) + 1
      BY <1>1
    <3>2. QED
      BY <1>1, <3>1 DEF Range, a
  <2>4. QED
    BY <2>1, <2>2, <2>3
<1>3. ASSUME IsInjective(s), t \notin Range(s) PROVE IsInjective(a)
  <2>1. \A i \in 1 .. Len(s) : s[i] # t
    BY <1>1, <1>3 DEF Range
  <2>2. \A i, j \in 1 .. Len(s) : s[i] = s[j] => i = j
    BY <1>1, <1>3 DEF IsInjective
  <2>3. ASSUME NEW i \in 1 .. Len(s) + 1, NEW j \in 1 .. Len(s) + 1, a[i] = a[j]
        PROVE  i = j
    <3>1. (i \in 1 .. Len(s) \/ i = Len(s) + 1) /\ (j \in 1 .. Len(s) \/ j = Len(s) + 1)
      BY <1>1
    <3>2. QED
      BY <1>1, <2>1, <2>2, <2>3, <3>1 DEF a
  <2>4. QED
    BY <1>1, <2>3 DEF IsInjective, a
<1>4. QED
  BY <1>1, <1>2, <1>3 DEF a

\* The visible tags, all of them, nothing else, and each of them once.
LEMMA VisibleOfIs ==
  ASSUME NEW cells \in Seq(Tags), NEW shown
  PROVE  /\ VisibleOf(cells, shown) \in Seq(Tags)
         /\ Range(VisibleOf(cells, shown)) = Range(cells) \cap shown
         /\ IsInjective(cells) => IsInjective(VisibleOf(cells, shown))
<1>1. PICK f : Collects(f, cells, shown) /\ VisibleOf(cells, shown) = f[Len(cells)]
  BY VisibleOfCollects
<1>2. Len(cells) \in Nat /\ DOMAIN cells = 1 .. Len(cells)
  OBVIOUS
<1> DEFINE first(n) == {cells[i] : i \in 1 .. n}
           T == {n \in 0 .. Len(cells) :
                   /\ Range(f[n]) = first(n) \cap shown
                   /\ IsInjective(cells) => IsInjective(f[n])}
<1>3. 0 \in T
  <2>1. f[0] = << >> /\ 0 \in 0 .. Len(cells)
    BY <1>1, <1>2 DEF Collects
  <2>2. Range(<< >>) = {} /\ IsInjective(<< >>)
    BY DEF Range, IsInjective
  <2>3. first(0) = {}
    OBVIOUS
  <2>4. QED
    BY <2>1, <2>2, <2>3
<1>4. ASSUME NEW n \in 0 .. Len(cells), n \in T, n < Len(cells)
      PROVE  n + 1 \in T
  <2>1. /\ n + 1 \in 1 .. Len(cells) /\ n + 1 \in 0 .. Len(cells) /\ (n + 1) - 1 = n
        /\ n \in Nat
    BY <1>2, <1>4
  <2>2. f[n] \in Seq(Tags) /\ cells[n + 1] \in Tags
    BY <1>1, <1>2, <2>1, SMTT(20) DEF Collects
  <2>3. f[n + 1] = IF cells[n + 1] \in shown THEN Append(f[n], cells[n + 1]) ELSE f[n]
    BY <1>1, <2>1 DEF Collects
  <2>4. first(n + 1) = first(n) \cup {cells[n + 1]}
    <3>1. 1 .. n + 1 = (1 .. n) \cup {n + 1}
      BY <2>1
    <3>2. QED
      BY <3>1
  <2>5. Range(f[n]) = first(n) \cap shown /\ (IsInjective(cells) => IsInjective(f[n]))
    BY <1>4
  <2>6. IsInjective(cells) => cells[n + 1] \notin first(n)
    <3>1. SUFFICES ASSUME IsInjective(cells), NEW i \in 1 .. n, cells[i] = cells[n + 1]
                   PROVE  FALSE
      OBVIOUS
    <3>2. i \in DOMAIN cells /\ n + 1 \in DOMAIN cells /\ i # n + 1
      BY <1>2, <2>1
    <3>3. QED
      BY <3>1, <3>2 DEF IsInjective
  <2> HIDE DEF first
  <2>7. CASE cells[n + 1] \in shown
    <3>1. f[n + 1] = Append(f[n], cells[n + 1])
      BY <2>3, <2>7
    <3>2. /\ Range(f[n + 1]) = Range(f[n]) \cup {cells[n + 1]}
          /\ IsInjective(f[n]) /\ cells[n + 1] \notin Range(f[n]) => IsInjective(f[n + 1])
      BY <2>2, <3>1, AppendFacts
    <3>3. QED
      BY <2>1, <2>4, <2>5, <2>6, <2>7, <3>2
  <2>8. CASE cells[n + 1] \notin shown
    BY <2>1, <2>3, <2>4, <2>5, <2>8
  <2>9. QED
    BY <2>7, <2>8
<1>5. Len(cells) \in T
  <2> HIDE DEF T
  <2>1. \A n \in 0 .. Len(cells) : n \in T
    BY <1>2, <1>3, <1>4, InductionUpTo
  <2>2. QED
    BY <1>2, <2>1
<1>6. first(Len(cells)) = Range(cells)
  BY <1>2 DEF Range
<1>7. f[Len(cells)] \in Seq(Tags)
  BY <1>1, <1>2 DEF Collects
<1>8. QED
  BY <1>1, <1>5, <1>6, <1>7

-----------------------------------------------------------------------------
(***************************************************************************)
(* Lists of one table that only grows                                      *)
(***************************************************************************)
\* The second list is longer or the same.
Below(s, t) == Len(s) <= Len(t) /\ (Len(s) = Len(t) => s = t)

\* When cells are appended to a table and tags become visible, the visible
\* list becomes longer or stays the same.
LEMMA VisibleOfGrows ==
  ASSUME NEW cells \in Seq(Tags), NEW more \in Seq(Tags), NEW shown, NEW all,
         Len(cells) <= Len(more), \A i \in 1 .. Len(cells) : more[i] = cells[i],
         shown \subseteq all
  PROVE  Below(VisibleOf(cells, shown), VisibleOf(more, all))
<1>1. PICK f : Collects(f, cells, shown) /\ VisibleOf(cells, shown) = f[Len(cells)]
  BY VisibleOfCollects
<1>2. PICK g : Collects(g, more, all) /\ VisibleOf(more, all) = g[Len(more)]
  BY VisibleOfCollects
<1>3. Len(cells) \in Nat /\ Len(more) \in Nat
  OBVIOUS
<1> DEFINE upTo(n) == IF n <= Len(cells) THEN n ELSE Len(cells)
           T == {n \in 0 .. Len(more) : Below(f[upTo(n)], g[n])}
<1>4. 0 \in T
  BY <1>1, <1>2, <1>3 DEF Collects, Below
<1>5. ASSUME NEW n \in 0 .. Len(more), n \in T, n < Len(more)
      PROVE  n + 1 \in T
  <2>1. n + 1 \in 1 .. Len(more) /\ (n + 1) - 1 = n /\ n + 1 \in 0 .. Len(more)
    BY <1>3, <1>5
  <2>2. g[n] \in Seq(Tags) /\ more[n + 1] \in Tags
    BY <1>2, <1>3, <2>1 DEF Collects
  <2>3. g[n + 1] = IF more[n + 1] \in all THEN Append(g[n], more[n + 1]) ELSE g[n]
    BY <1>2, <2>1 DEF Collects
  <2>4. Len(g[n]) \in Nat /\ Len(Append(g[n], more[n + 1])) = Len(g[n]) + 1
    BY <2>2, AppendFacts
  <2>5. Below(f[upTo(n)], g[n])
    BY <1>5
  <2>6. CASE n < Len(cells)
    <3>1. n + 1 \in 1 .. Len(cells) /\ upTo(n) = n /\ upTo(n + 1) = n + 1 /\ n \in 0 .. Len(cells)
      BY <1>3, <2>1, <2>6
    <3>2. f[n] \in Seq(Tags) /\ cells[n + 1] \in Tags /\ more[n + 1] = cells[n + 1]
      <4>1. f[n] \in Seq(Tags)
        BY <1>1, <3>1 DEF Collects
      <4>2. cells[n + 1] \in Tags
        BY <3>1
      <4>3. QED
        BY <3>1, <4>1, <4>2
    <3>3. f[n + 1] = IF cells[n + 1] \in shown THEN Append(f[n], cells[n + 1]) ELSE f[n]
      BY <1>1, <2>1, <3>1 DEF Collects
    <3>4. Len(f[n]) \in Nat /\ Len(Append(f[n], cells[n + 1])) = Len(f[n]) + 1
      BY <3>2, AppendFacts
    <3>5. Below(f[n], g[n])
      BY <2>5, <3>1
    <3>6. Below(f[n + 1], g[n + 1])
      <4>1. CASE cells[n + 1] \in shown
        <5>1. f[n + 1] = Append(f[n], cells[n + 1]) /\ g[n + 1] = Append(g[n], cells[n + 1])
          BY <2>3, <3>2, <3>3, <4>1
        <5>2. QED
          BY <2>4, <3>2, <3>4, <3>5, <5>1, SMTT(20) DEF Below
      <4>2. CASE cells[n + 1] \notin shown
        <5>1. f[n + 1] = f[n]
          BY <3>3, <4>2
        <5>2. g[n + 1] = g[n] \/ Len(g[n + 1]) = Len(g[n]) + 1
          BY <2>3, <2>4
        <5>3. QED
          BY <2>4, <3>4, <3>5, <5>1, <5>2 DEF Below
      <4>3. QED
        BY <4>1, <4>2
    <3>7. QED
      BY <2>1, <3>1, <3>6
  <2>7. CASE ~(n < Len(cells))
    <3>1. upTo(n) = Len(cells) /\ upTo(n + 1) = Len(cells)
      BY <1>3, <2>1, <2>7
    <3>2. Len(f[Len(cells)]) \in Nat
      BY <1>1, <1>3 DEF Collects
    <3>3. g[n + 1] = g[n] \/ Len(g[n + 1]) = Len(g[n]) + 1
      BY <2>3, <2>4
    <3>4. Below(f[Len(cells)], g[n + 1])
      BY <2>4, <2>5, <3>1, <3>2, <3>3, SMTT(20) DEF Below
    <3>5. QED
      BY <2>1, <3>1, <3>4
  <2>8. QED
    BY <2>6, <2>7
<1>6. Len(more) \in T
  <2> HIDE DEF T
  <2>1. \A n \in 0 .. Len(more) : n \in T
    BY <1>3, <1>4, <1>5, InductionUpTo
  <2>2. QED
    BY <1>3, <2>1
<1>7. upTo(Len(more)) = Len(cells)
  BY <1>3
<1>8. QED
  BY <1>1, <1>2, <1>6, <1>7

-----------------------------------------------------------------------------
(***************************************************************************)
(* How the table changes                                                   *)
(***************************************************************************)
\* Two lists one after the other.
LEMMA ConcatFacts ==
  ASSUME NEW s \in Seq(Tags), NEW t \in Seq(Tags)
  PROVE  /\ s \o t \in Seq(Tags) /\ Len(s) <= Len(s \o t)
         /\ \A i \in 1 .. Len(s) : (s \o t)[i] = s[i]
         /\ Range(s \o t) = Range(s) \cup Range(t)
         /\ IsInjective(s) /\ IsInjective(t) /\ Range(s) \cap Range(t) = {}
              => IsInjective(s \o t)
<1> DEFINE c == s \o t
           m == Len(s)
           n == Len(t)
<1>1. /\ c \in Seq(Tags) /\ Len(c) = m + n /\ m \in Nat /\ n \in Nat
      /\ DOMAIN c = 1 .. m + n /\ DOMAIN s = 1 .. m /\ DOMAIN t = 1 .. n
  OBVIOUS
<1>2. \A i \in 1 .. m : c[i] = s[i]
  OBVIOUS
<1>3. \A i \in 1 .. n : c[m + i] = t[i]
  OBVIOUS
<1>4. \A i \in 1 .. m + n : i \in 1 .. m \/ (\E j \in 1 .. n : i = m + j)
  <2>1. SUFFICES ASSUME NEW i \in 1 .. m + n, i \notin 1 .. m
                 PROVE  \E j \in 1 .. n : i = m + j
    OBVIOUS
  <2>2. i - m \in 1 .. n /\ i = m + (i - m)
    BY <1>1, <2>1
  <2>3. QED
    BY <2>2
<1>5. \A i \in 1 .. m : i \in 1 .. m + n
  BY <1>1
<1>6. \A j \in 1 .. n : m + j \in 1 .. m + n
  BY <1>1
<1> HIDE DEF c, m, n
<1>7. Range(c) = Range(s) \cup Range(t)
  <2>1. ASSUME NEW u \in Range(c) PROVE u \in Range(s) \cup Range(t)
    <3>1. PICK i \in 1 .. m + n : c[i] = u
      BY <1>1, <2>1 DEF Range
    <3>2. QED
      BY <1>1, <1>2, <1>3, <1>4, <3>1 DEF Range
  <2>2. ASSUME NEW u \in Range(s) PROVE u \in Range(c)
    BY <1>1, <1>2, <1>5, <2>2 DEF Range
  <2>3. ASSUME NEW u \in Range(t) PROVE u \in Range(c)
    BY <1>1, <1>3, <1>6, <2>3 DEF Range
  <2>4. QED
    BY <2>1, <2>2, <2>3
<1>8. ASSUME IsInjective(s), IsInjective(t), Range(s) \cap Range(t) = {}
      PROVE  IsInjective(c)
  <2>1. \A i \in 1 .. m, j \in 1 .. n : s[i] # t[j]
    BY <1>1, <1>8 DEF Range
  <2>2. \A i, j \in 1 .. m : s[i] = s[j] => i = j
    BY <1>1, <1>8 DEF IsInjective
  <2>3. \A i, j \in 1 .. n : t[i] = t[j] => i = j
    BY <1>1, <1>8 DEF IsInjective
  <2>4. ASSUME NEW i \in 1 .. m + n, NEW j \in 1 .. m + n, c[i] = c[j]
        PROVE  i = j
    BY <1>2, <1>3, <1>4, <2>1, <2>2, <2>3, <2>4
  <2>5. QED
    BY <1>1, <2>4 DEF IsInjective
<1>9. m <= Len(c)
  BY <1>1
<1>10. QED
  BY <1>1, <1>2, <1>7, <1>8, <1>9 DEF c, m

\* Every order in which new tags can be appended lists all of them.
LEMMA SetToSeqsFacts ==
  ASSUME NEW S \in SUBSET Tags, NEW new \in SetToSeqs(S)
  PROVE  new \in Seq(Tags) /\ IsInjective(new) /\ Range(new) = S
<1>1. IsFiniteSet(S)
  BY DataCacheAssumption, FS_Subset
<1> DEFINE n == Cardinality(S)
<1>2. n \in Nat
  BY <1>1, FS_CardinalityType
<1>3. new \in [1 .. n -> S] /\ \A i, j \in 1 .. n : i # j => new[i] # new[j]
  BY DEF SetToSeqs
<1>4. IsFiniteSet(1 .. n) /\ Cardinality(1 .. n) = n
  <2>1. Cardinality(1 .. n) = IF 1 > n THEN 0 ELSE n - 1 + 1
    <3> HIDE DEF n
    <3>1. QED
      BY <1>2, FS_Interval
  <2>2. IsFiniteSet(1 .. n)
    <3> HIDE DEF n
    <3>1. QED
      BY <1>2, FS_Interval
  <2>3. QED
    BY <1>2, <2>1, <2>2
<1>5. new \in Injection(1 .. n, S)
  BY <1>3 DEF Injection, IsInjective
<1>6. new \in Surjection(1 .. n, S)
  <2>1. Cardinality(1 .. n) = Cardinality(S)
    BY <1>4
  <2>2. QED
    BY <1>1, <1>5, <2>1, FS_Injection
<1>7. Range(new) = S
  BY <1>3, <1>6 DEF Range, Surjection
<1>8. new \in Seq(Tags) /\ IsInjective(new)
  BY <1>2, <1>3 DEF IsInjective
<1>9. QED
  BY <1>7, <1>8

\* The table is a list of tags to which cells are appended and from which none
\* is removed.
TableOK ==
  /\ IsList(table) /\ visible \subseteq Range(table)
  /\ rewrites \in Nat

Appended ==
  /\ Len(table) <= Len(table') /\ \A i \in 1 .. Len(table) : table'[i] = table[i]

LEMMA UploadAppends ==
  ASSUME TableOK, NEW file \in TagFiles, UploadMerge(file)
  PROVE  /\ TableOK' /\ Appended
         /\ rewrites' = IF visible \ visible' = {} THEN rewrites ELSE rewrites + 1
<1>1. file \in [listed : SUBSET Tags, shown : SUBSET Tags] /\ file.shown \subseteq file.listed
  BY DataCacheAssumption
<1> DEFINE S == file.listed \ Range(table)
<1>2. PICK new \in SetToSeqs(S) : table' = table \o new
  BY DEF UploadMerge
<1>3. S \in SUBSET Tags
  BY <1>1
<1>4. new \in Seq(Tags) /\ IsInjective(new) /\ Range(new) = S
  <2> HIDE DEF S
  <2>1. QED
    BY <1>2, <1>3, SetToSeqsFacts
<1>5. table \in Seq(Tags) /\ IsInjective(table) /\ visible \subseteq Range(table)
  BY DEF TableOK, IsList
<1>6. Range(table) \cap Range(new) = {}
  BY <1>4
<1>7. /\ table \o new \in Seq(Tags) /\ Len(table) <= Len(table \o new)
      /\ \A i \in 1 .. Len(table) : (table \o new)[i] = table[i]
      /\ Range(table \o new) = Range(table) \cup Range(new)
      /\ IsInjective(table \o new)
  BY <1>4, <1>5, <1>6, ConcatFacts
<1>8. visible' = (visible \ file.listed) \cup file.shown
  BY DEF UploadMerge
<1>9. rewrites' = IF visible \ visible' = {} THEN rewrites ELSE rewrites + 1
  BY DEF UploadMerge
<1>10. visible' \subseteq Range(table')
  BY <1>1, <1>2, <1>4, <1>5, <1>7, <1>8
<1>11. IsList(table')
  BY <1>2, <1>7 DEF IsList
<1>12. rewrites' \in Nat
  BY <1>9 DEF TableOK
<1>13. QED
  BY <1>2, <1>7, <1>9, <1>10, <1>11, <1>12 DEF TableOK, Appended

LEMMA DeclareAppends ==
  ASSUME TableOK, NEW tag \in Declared, CompileDeclaresTag(tag)
  PROVE  TableOK' /\ Appended /\ rewrites' = rewrites /\ visible \subseteq visible'
<1>1. tag \in Tags
  BY DataCacheAssumption
<1>2. table \in Seq(Tags) /\ IsInjective(table) /\ visible \subseteq Range(table)
  BY DEF TableOK, IsList
<1>3. /\ table' = IF tag \in Range(table) THEN table ELSE Append(table, tag)
      /\ visible' = visible \cup {tag} /\ rewrites' = rewrites
  BY DEF CompileDeclaresTag
<1>4. CASE tag \in Range(table)
  BY <1>2, <1>3, <1>4 DEF TableOK, Appended, IsList
<1>5. CASE tag \notin Range(table)
  <2>1. /\ Append(table, tag) \in Seq(Tags) /\ Len(Append(table, tag)) = Len(table) + 1
        /\ Range(Append(table, tag)) = Range(table) \cup {tag}
        /\ IsInjective(Append(table, tag))
    BY <1>1, <1>2, <1>5, AppendFacts
  <2>2. Appended
    BY <1>1, <1>2, <1>3, <1>5 DEF Appended
  <2>3. QED
    BY <1>2, <1>3, <1>5, <2>1, <2>2 DEF TableOK, IsList
<1>6. QED
  BY <1>4, <1>5

LEMMA TableStep ==
  ASSUME TableOK, [Next]_vars
  PROVE  /\ TableOK'
         /\ \/ rewrites' = rewrites /\ Below(VisibleList, VisibleList')
            \/ rewrites' = rewrites + 1
<1>1. table \in Seq(Tags) /\ visible \subseteq Range(table) /\ IsInjective(table)
  BY DEF TableOK, IsList
<1>2. ASSUME TableOK', Appended, visible \subseteq visible'
      PROVE  Below(VisibleList, VisibleList')
  <2>1. table' \in Seq(Tags)
    BY <1>2 DEF TableOK, IsList
  <2>2. Below(VisibleOf(table, visible), VisibleOf(table', visible'))
    BY <1>1, <1>2, <2>1, VisibleOfGrows DEF Appended
  <2>3. QED
    BY <2>2 DEF VisibleList
<1>3. CASE UNCHANGED tableVars
  <2>1. table' = table /\ visible' = visible /\ rewrites' = rewrites
    BY <1>3 DEF tableVars
  <2>2. TableOK' /\ Appended
    BY <1>1, <2>1 DEF TableOK, Appended, IsList
  <2>3. QED
    BY <1>2, <2>1, <2>2
<1>4. ASSUME NEW file \in TagFiles, UploadMerge(file)
      PROVE  /\ TableOK'
             /\ \/ rewrites' = rewrites /\ Below(VisibleList, VisibleList')
                \/ rewrites' = rewrites + 1
  <2>1. /\ TableOK' /\ Appended
        /\ rewrites' = IF visible \ visible' = {} THEN rewrites ELSE rewrites + 1
    BY <1>4, UploadAppends
  <2>2. QED
    BY <1>2, <2>1
<1>5. ASSUME NEW tag \in Declared, CompileDeclaresTag(tag)
      PROVE  TableOK' /\ rewrites' = rewrites /\ Below(VisibleList, VisibleList')
  <2>1. TableOK' /\ Appended /\ rewrites' = rewrites /\ visible \subseteq visible'
    BY <1>5, DeclareAppends
  <2>2. QED
    BY <1>2, <2>1
<1>6. CASE Reboot
  <2>1. table' = FlashTable /\ visible' = FlashVisible /\ rewrites' = rewrites + 1
    BY <1>6 DEF Reboot
  <2>2. QED
    BY <2>1, DataCacheAssumption DEF TableOK, IsList
<1>7. CASE ~Reboot /\ ~(\E file \in TagFiles : UploadMerge(file))
                   /\ ~(\E tag \in Declared : CompileDeclaresTag(tag))
  <2>1. UNCHANGED tableVars
    BY <1>7 DEF Next, Change, CompileBegin, CompileFails, CompileSucceeds, UploadReply,
         UploadRequestsRebuild, UploadFailsPartway, Activate, CacheTask, RoundBegin,
         CopyFull, PublishFull, PublishFullTimeout, CopyCompact, PublishCompact,
         PublishCompactTimeout, ClientPoll, Serve, ServeFull, ServeCompact, Arrive,
         FullArrives, ValuesArrive, OtherLayoutArrives, RequestFails, vars
  <2>2. QED
    BY <1>3, <2>1
<1>8. QED
  BY <1>4, <1>5, <1>6, <1>7

-----------------------------------------------------------------------------
(***************************************************************************)
(* Types                                                                   *)
(***************************************************************************)
FullPayloads == [version : Nat, generation : Nat, list : {s \in Seq(Tags) : IsInjective(s)},
                 rewrites : Nat, boot : Nat, uploads : Nat]

\* The build is a whole record, and the counters are numbers.
TypeInv ==
  /\ TypeOK /\ TableOK
  /\ fullBuild \in FullPayloads
  /\ uploads \in Nat /\ reboots \in Nat

LEMMA EmptyList == << >> \in Seq(Tags) /\ IsInjective(<< >>) /\ IsList(<< >>)
  BY DEF IsInjective, IsList

LEMMA VisibleListIsList == ASSUME TableOK PROVE IsList(VisibleList)
  BY VisibleOfIs DEF TableOK, IsList, VisibleList

\* The control variables and the payloads, apart from the table.
Control ==
  /\ http \in {"idle", "merged", "sendingFull", "sendingCompact"}
  /\ program \in [step : {"none", "compiling", "pending"}, tags : SUBSET Tags]
  /\ forceRebuild \in BOOLEAN
  /\ task \in {"idle", "copyFull", "fullBuilt", "copyCompact", "compactBuilt"}
  /\ client \in {"idle", "askFull", "askCompact", "retryFull"}
  /\ generation \in Nat /\ full.generation \in Nat
  /\ needed \subseteq Tags
  /\ uploads \in Nat /\ reboots \in Nat

FullPayloadOK(p) == p.version \in Nat /\ IsList(p.list)
CompactPayloadOK(p) == p.layout \in Nat /\ IsList(p.list)

PayloadsOK ==
  /\ FullPayloadOK(full) /\ fullBuild \in FullPayloads /\ FullPayloadOK(layout)
  /\ CompactPayloadOK(compact) /\ CompactPayloadOK(compactBuild) /\ CompactPayloadOK(values)

LEMMA TypeInvParts == TypeInv <=> TableOK /\ Control /\ PayloadsOK
<1>1. fullBuild \in FullPayloads => FullPayloadOK(fullBuild)
  BY DEF FullPayloads, FullPayloadOK, IsList
<1>2. QED
  BY <1>1 DEF TypeInv, TypeOK, TableOK, Control, PayloadsOK, FullPayloadOK, CompactPayloadOK

LEMMA BlankPayloads ==
  /\ CompactPayloadOK(NoValues) /\ FullPayloadOK(EmptyFull) /\ FullPayloadOK(NoLayout)
  /\ EmptyFull \in FullPayloads
  BY EmptyList DEF CompactPayloadOK, NoValues, FullPayloadOK, EmptyFull, NoLayout, FullPayloads

LEMMA InitTypes == Init => TypeInv
<1> SUFFICES ASSUME Init PROVE TypeInv
  OBVIOUS
<1>1. TableOK
  BY DataCacheAssumption DEF Init, TableOK, IsList
<1>2. full = EmptyFull /\ fullBuild = EmptyFull /\ layout = NoLayout
      /\ compact = NoValues /\ compactBuild = NoValues /\ values = NoValues
  BY DEF Init
<1>3. PayloadsOK
  BY <1>2, BlankPayloads DEF PayloadsOK
<1>4. program = NoProgram /\ NoProgram \in [step : {"none", "compiling", "pending"}, tags : SUBSET Tags]
  BY DEF Init, NoProgram
<1>5. full.generation = 0
  BY <1>2 DEF EmptyFull
<1>6. /\ http = "idle" /\ task = "idle" /\ client = "idle" /\ needed = {}
      /\ uploads = 0 /\ reboots = 0 /\ generation = 0
  BY DEF Init
<1>7. forceRebuild \in BOOLEAN
  BY DEF Init
<1>8. Control
  BY <1>4, <1>5, <1>6, <1>7 DEF Control
<1>9. QED
  BY <1>1, <1>3, <1>8, TypeInvParts

LEMMA ControlStep ==
  ASSUME TypeInv, [Next]_vars
  PROVE  Control'
<1> USE DataCacheAssumption DEF Control
<1>1. Control /\ fullBuild.generation \in Nat /\ full.generation \in Nat
  BY TypeInvParts DEF PayloadsOK, FullPayloads
<1>2. ASSUME NEW file \in TagFiles, UploadMerge(file) PROVE Control'
  <2> DEFINE hidden == visible \ visible'
  <2>1. needed' = needed \ hidden /\ program' = [program EXCEPT !.tags = @ \ hidden]
    BY <1>2 DEF UploadMerge
  <2>2. program' \in [step : {"none", "compiling", "pending"}, tags : SUBSET Tags]
    BY <1>1, <2>1
  <2>3. needed' \subseteq Tags
    BY <1>1, <2>1
  <2>4. /\ http' = "merged" /\ uploads' = uploads + 1
        /\ UNCHANGED <<forceRebuild, task, client, generation, full, reboots>>
    BY <1>2 DEF UploadMerge, cacheVars, clientVars
  <2>5. QED
    BY <1>1, <2>2, <2>3, <2>4
<1>3. ASSUME NEW tag \in Declared, CompileDeclaresTag(tag) PROVE Control'
  <2>1. program' \in [step : {"none", "compiling", "pending"}, tags : SUBSET Tags]
    BY <1>1, <1>3 DEF CompileDeclaresTag
  <2>2. UNCHANGED <<http, forceRebuild, task, client, generation, full, needed, uploads, reboots>>
    BY <1>3 DEF CompileDeclaresTag, cacheVars, clientVars
  <2>3. QED
    BY <1>1, <2>1, <2>2
<1>4. CASE CompileBegin \/ CompileFails \/ CompileSucceeds \/ Activate
  BY <1>1, <1>4 DEF CompileBegin, CompileFails, CompileSucceeds, Activate, NoProgram,
       cacheVars, clientVars
<1>5. CASE UploadReply \/ ClientPoll \/ Serve \/ Arrive \/ RequestFails
  BY <1>1, <1>5 DEF UploadReply, UploadRequestsRebuild, UploadFailsPartway, ClientPoll,
       Serve, ServeFull, ServeCompact, Arrive, FullArrives, ValuesArrive,
       OtherLayoutArrives, RequestFails, cacheVars, clientVars, changeVars
<1>6. CASE CacheTask
  <2>1. UNCHANGED <<http, changeVars, client, reboots>>
    BY <1>6 DEF CacheTask, RoundBegin, CopyFull, PublishFull, PublishFullTimeout,
         CopyCompact, PublishCompact, PublishCompactTimeout, clientVars
  <2>2. full' = full \/ full' = fullBuild
    BY <1>6 DEF CacheTask, RoundBegin, CopyFull, PublishFull, PublishFullTimeout,
         CopyCompact, PublishCompact, PublishCompactTimeout, clientVars
  <2>3. forceRebuild' \in BOOLEAN
        /\ task' \in {"idle", "copyFull", "fullBuilt", "copyCompact", "compactBuilt"}
    BY <1>1, <1>6 DEF CacheTask, RoundBegin, CopyFull, PublishFull, PublishFullTimeout,
         CopyCompact, PublishCompact, PublishCompactTimeout, clientVars
  <2>4. full'.generation \in Nat
    BY <1>1, <2>2
  <2>5. QED
    BY <1>1, <2>1, <2>3, <2>4 DEF changeVars
<1>7. CASE Reboot
  <2>1. /\ program' = NoProgram /\ full' = EmptyFull /\ http' = "idle" /\ needed' = {}
        /\ forceRebuild' \in BOOLEAN /\ task' = "idle" /\ generation' = 0
        /\ reboots' = reboots + 1 /\ UNCHANGED <<client, uploads>>
    BY <1>7 DEF Reboot, clientVars
  <2>2. NoProgram \in [step : {"none", "compiling", "pending"}, tags : SUBSET Tags]
    BY DEF NoProgram
  <2>3. full'.generation = 0
    BY <2>1 DEF EmptyFull
  <2>4. QED
    BY <1>1, <2>1, <2>2, <2>3
<1>8. CASE UNCHANGED vars
  BY <1>1, <1>8 DEF vars, changeVars, cacheVars, clientVars
<1>9. QED
  BY <1>2, <1>3, <1>4, <1>5, <1>6, <1>7, <1>8 DEF Next, Change

LEMMA PayloadsStep ==
  ASSUME TypeInv, [Next]_vars
  PROVE  PayloadsOK'
<1>1. PayloadsOK /\ Control /\ TableOK
  BY TypeInvParts
<1>2. IsList(VisibleList) /\ IsList(<< >>)
  BY <1>1, VisibleListIsList, EmptyList
<1>3. CASE UNCHANGED <<full, fullBuild, layout, compact, compactBuild, values>>
  BY <1>1, <1>3 DEF PayloadsOK
<1>4. CASE RoundBegin
  <2>1. fullBuild' \in FullPayloads
    BY <1>1, <1>4 DEF RoundBegin, PayloadsOK, Control, FullPayloads
  <2>2. UNCHANGED <<full, layout, compact, compactBuild, values>>
    BY <1>4 DEF RoundBegin, clientVars
  <2>3. QED
    BY <1>1, <2>1, <2>2 DEF PayloadsOK
<1>5. CASE CopyFull
  <2>1. /\ full.version \in Nat /\ fullBuild.generation \in Nat /\ rewrites \in Nat
        /\ reboots \in Nat /\ uploads \in Nat
        /\ VisibleList \in {s \in Seq(Tags) : IsInjective(s)}
    BY <1>1, <1>2 DEF PayloadsOK, FullPayloadOK, FullPayloads, TableOK, Control, IsList
  <2>2. fullBuild' = [version |-> full.version + 1, generation |-> fullBuild.generation,
                      list |-> VisibleList, rewrites |-> rewrites, boot |-> reboots,
                      uploads |-> uploads]
    BY <1>5 DEF CopyFull
  <2>3. fullBuild' \in FullPayloads
    <3> HIDE DEF VisibleList
    <3>1. QED
      BY <2>1, <2>2 DEF FullPayloads
  <2>4. UNCHANGED <<full, layout, compact, compactBuild, values>>
    BY <1>5 DEF CopyFull, clientVars
  <2>5. QED
    BY <1>1, <2>3, <2>4 DEF PayloadsOK
<1>6. CASE PublishFull \/ PublishFullTimeout
  <2>1. full' \in {full, fullBuild} /\ fullBuild' = EmptyFull
    BY <1>6 DEF PublishFull, PublishFullTimeout
  <2>2. FullPayloadOK(fullBuild)
    BY <1>1 DEF PayloadsOK, FullPayloads, FullPayloadOK, IsList
  <2>3. FullPayloadOK(full)'
    BY <1>1, <2>1, <2>2 DEF PayloadsOK, FullPayloadOK
  <2>4. fullBuild' \in FullPayloads
    BY <2>1, EmptyList DEF EmptyFull, FullPayloads
  <2>5. UNCHANGED <<layout, compact, compactBuild, values>>
    BY <1>6 DEF PublishFull, PublishFullTimeout, clientVars
  <2>6. QED
    BY <1>1, <2>3, <2>4, <2>5 DEF PayloadsOK
<1>7. CASE CopyCompact
  <2>1. compactBuild'.layout = full.version /\ compactBuild'.list = VisibleList
    BY <1>7 DEF CopyCompact
  <2>2. CompactPayloadOK(compactBuild)'
    BY <1>1, <1>2, <2>1 DEF PayloadsOK, FullPayloadOK, CompactPayloadOK
  <2>3. UNCHANGED <<full, fullBuild, layout, compact, values>>
    BY <1>7 DEF CopyCompact, clientVars
  <2>4. QED
    BY <1>1, <2>2, <2>3 DEF PayloadsOK
<1>8. CASE PublishCompact \/ PublishCompactTimeout
  <2>1. compact' \in {compact, compactBuild} /\ compactBuild' = NoValues
    BY <1>8 DEF PublishCompact, PublishCompactTimeout
  <2>2. CompactPayloadOK(NoValues)
    BY BlankPayloads
  <2>3. UNCHANGED <<full, fullBuild, layout, values>>
    BY <1>8 DEF PublishCompact, PublishCompactTimeout, clientVars
  <2>4. QED
    BY <1>1, <2>1, <2>2, <2>3 DEF PayloadsOK
<1>9. CASE FullArrives
  <2>1. layout'.version = full.version /\ layout'.list = full.list /\ values' = NoValues
    BY <1>9 DEF FullArrives
  <2>2. CompactPayloadOK(NoValues)
    BY BlankPayloads
  <2>3. UNCHANGED <<full, fullBuild, compact, compactBuild>>
    BY <1>9 DEF FullArrives, cacheVars
  <2>4. QED
    BY <1>1, <2>1, <2>2, <2>3 DEF PayloadsOK, FullPayloadOK
<1>10. CASE ValuesArrive
  <2>1. values' = compact /\ UNCHANGED <<full, fullBuild, compact, compactBuild, layout>>
    BY <1>10 DEF ValuesArrive, cacheVars
  <2>2. QED
    BY <1>1, <2>1 DEF PayloadsOK
<1>11. CASE Reboot
  <2>1. /\ full' = EmptyFull /\ fullBuild' = EmptyFull /\ UNCHANGED <<layout, values>>
        /\ compact' = NoValues /\ compactBuild' = NoValues
    BY <1>11 DEF Reboot, clientVars
  <2>2. CompactPayloadOK(NoValues) /\ FullPayloadOK(EmptyFull) /\ EmptyFull \in FullPayloads
    BY BlankPayloads
  <2>3. QED
    BY <1>1, <2>1, <2>2 DEF PayloadsOK
<1>12. CASE Change \/ UploadReply \/ Activate \/ ClientPoll \/ Serve \/ OtherLayoutArrives
            \/ RequestFails \/ UNCHANGED vars
  <2>1. UNCHANGED <<full, fullBuild, layout, compact, compactBuild, values>>
    BY <1>12 DEF Change, UploadMerge, CompileBegin, CompileDeclaresTag, CompileFails,
         CompileSucceeds, UploadReply, UploadRequestsRebuild, UploadFailsPartway, Activate,
         ClientPoll, Serve, ServeFull, ServeCompact, OtherLayoutArrives, RequestFails, vars,
         cacheVars, clientVars
  <2>2. QED
    BY <1>3, <2>1
<1>13. QED
  BY <1>4, <1>5, <1>6, <1>7, <1>8, <1>9, <1>10, <1>11, <1>12 DEF Next, CacheTask, Arrive

LEMMA TypesInductive == TypeInv /\ [Next]_vars => TypeInv'
<1> SUFFICES ASSUME TypeInv, [Next]_vars PROVE TypeInv'
  OBVIOUS
<1>1. TableOK
  BY DEF TypeInv
<1>2. TableOK' /\ Control' /\ PayloadsOK'
  BY <1>1, TableStep, ControlStep, PayloadsStep
<1>3. QED
  BY <1>2, TypeInvParts, PTL

\* The tables, lists and counters have their types: no tag occurs twice in the
\* table or in a list that is sent, and what is visible is in the table.
THEOREM TypeCorrect == Spec => []TypeOK
<1>1. TypeInv => TypeOK
  BY DEF TypeInv
<1>2. QED
  BY <1>1, InitTypes, TypesInductive, PTL DEF Spec

-----------------------------------------------------------------------------
(***************************************************************************)
(* Lists of one epoch                                                      *)
(*                                                                         *)
(* As long as no tag leaves the visible list, the list only grows at its   *)
(* end, so that two copies of the same length are the same copy.  History  *)
(* variable rewrites numbers these epochs.                                 *)
(***************************************************************************)
Payloads == {full, fullBuild, layout, compact, compactBuild, values}

\* A copy is no longer than the list of the table, as long as its epoch lasts.
CopyOfTable(p) ==
  /\ p.rewrites \in Nat /\ p.rewrites <= rewrites
  /\ p.rewrites = rewrites => Below(p.list, VisibleList)

Agree(p, q) ==
  p.rewrites = q.rewrites /\ Len(p.list) = Len(q.list) => p.list = q.list

EpochInv ==
  /\ \A p \in Payloads : CopyOfTable(p)
  /\ \A p, q \in Payloads : Agree(p, q)
  /\ values # NoValues => Len(values.list) = Len(layout.list)

\* A payload that is new in a step is blank or a copy of the table as it is.
OldPayload(p) == \E q \in Payloads : p.rewrites = q.rewrites /\ p.list = q.list
BlankPayload(p) == p.rewrites = 0 /\ p.list = << >>
CopiedNow(p) == p.rewrites = rewrites /\ p.list = VisibleList /\ UNCHANGED tableVars

LEMMA BlankPayloadFacts ==
  BlankPayload(EmptyFull) /\ BlankPayload(NoLayout) /\ BlankPayload(NoValues)
  BY DEF BlankPayload, EmptyFull, NoLayout, NoValues

LEMMA PayloadOrigin ==
  ASSUME TypeInv, [Next]_vars
  PROVE  \A p \in Payloads' : OldPayload(p) \/ BlankPayload(p) \/ CopiedNow(p)
<1> DEFINE Known(p) == OldPayload(p) \/ BlankPayload(p) \/ CopiedNow(p)
<1>1. \A p \in Payloads : Known(p)
  BY DEF OldPayload
<1>2. Known(EmptyFull) /\ Known(NoValues)
  BY BlankPayloadFacts
<1>3. SUFFICES /\ Known(full') /\ Known(fullBuild') /\ Known(layout')
               /\ Known(compact') /\ Known(compactBuild') /\ Known(values')
  BY DEF Payloads
<1>4. /\ Known(full) /\ Known(fullBuild) /\ Known(layout)
      /\ Known(compact) /\ Known(compactBuild) /\ Known(values)
  BY <1>1 DEF Payloads
<1>5. CASE RoundBegin
  <2>1. fullBuild'.rewrites = fullBuild.rewrites /\ fullBuild'.list = fullBuild.list
    BY <1>5 DEF RoundBegin, TypeInv, FullPayloads
  <2>2. Known(fullBuild')
    BY <2>1 DEF OldPayload, Payloads
  <2>3. UNCHANGED <<full, layout, compact, compactBuild, values>>
    BY <1>5 DEF RoundBegin, clientVars
  <2> HIDE DEF Known
  <2>4. QED
    BY <1>4, <2>2, <2>3
<1>6. CASE CopyFull
  <2>1. fullBuild'.rewrites = rewrites /\ fullBuild'.list = VisibleList /\ UNCHANGED tableVars
    BY <1>6 DEF CopyFull
  <2>2. Known(fullBuild')
    BY <2>1 DEF CopiedNow
  <2>3. UNCHANGED <<full, layout, compact, compactBuild, values>>
    BY <1>6 DEF CopyFull, clientVars
  <2> HIDE DEF Known
  <2>4. QED
    BY <1>4, <2>2, <2>3
<1>7. CASE CopyCompact
  <2>1. /\ compactBuild'.rewrites = rewrites /\ compactBuild'.list = VisibleList
        /\ UNCHANGED tableVars
    BY <1>7 DEF CopyCompact
  <2>2. Known(compactBuild')
    BY <2>1 DEF CopiedNow
  <2>3. UNCHANGED <<full, fullBuild, layout, compact, values>>
    BY <1>7 DEF CopyCompact, clientVars
  <2> HIDE DEF Known
  <2>4. QED
    BY <1>4, <2>2, <2>3
<1>8. CASE FullArrives
  <2>1. layout'.rewrites = full.rewrites /\ layout'.list = full.list /\ values' = NoValues
    BY <1>8 DEF FullArrives
  <2>2. Known(layout')
    BY <2>1 DEF OldPayload, Payloads
  <2>3. UNCHANGED <<full, fullBuild, compact, compactBuild>>
    BY <1>8 DEF FullArrives, cacheVars
  <2> HIDE DEF Known
  <2>4. QED
    BY <1>2, <1>4, <2>1, <2>2, <2>3
<1>9. CASE ~RoundBegin /\ ~CopyFull /\ ~CopyCompact /\ ~FullArrives
  <2>1. /\ full' \in {full, fullBuild, EmptyFull} /\ fullBuild' \in {fullBuild, EmptyFull}
        /\ layout' = layout /\ compact' \in {compact, compactBuild, NoValues}
        /\ compactBuild' \in {compactBuild, NoValues} /\ values' \in {values, compact}
    BY <1>9 DEF Next, Change, UploadMerge, CompileBegin, CompileDeclaresTag, CompileFails,
         CompileSucceeds, UploadReply, UploadRequestsRebuild, UploadFailsPartway, Activate,
         ClientPoll, Serve, ServeFull, ServeCompact, Arrive, ValuesArrive,
         OtherLayoutArrives, RequestFails, Reboot, CacheTask, PublishFull,
         PublishFullTimeout, PublishCompact, PublishCompactTimeout, vars, cacheVars, clientVars
  <2> HIDE DEF Known
  <2>2. QED
    BY <1>2, <1>4, <2>1
<1>10. QED
  BY <1>5, <1>6, <1>7, <1>8, <1>9

ListsHaveLengths ==
  /\ \A p \in Payloads : p.list \in Seq(Tags) /\ Len(p.list) \in Nat
  /\ VisibleList \in Seq(Tags) /\ Len(VisibleList) \in Nat
  /\ rewrites \in Nat

LEMMA PayloadLists == TypeInv => ListsHaveLengths
<1> SUFFICES ASSUME TypeInv PROVE ListsHaveLengths
  OBVIOUS
<1> USE DEF ListsHaveLengths
<1>1. PayloadsOK /\ TableOK
  BY TypeInvParts
<1>2. /\ full.list \in Seq(Tags) /\ layout.list \in Seq(Tags) /\ compact.list \in Seq(Tags)
      /\ compactBuild.list \in Seq(Tags) /\ values.list \in Seq(Tags)
      /\ fullBuild.list \in Seq(Tags)
  BY <1>1 DEF PayloadsOK, FullPayloadOK, CompactPayloadOK, IsList, FullPayloads
<1>3. VisibleList \in Seq(Tags) /\ rewrites \in Nat
  BY <1>1, VisibleListIsList DEF IsList, TableOK
<1>4. \A p \in Payloads : p.list \in Seq(Tags)
  BY <1>2 DEF Payloads
<1>5. \A s \in Seq(Tags) : Len(s) \in Nat
  OBVIOUS
<1>6. QED
  BY <1>3, <1>4, <1>5

LEMMA ValuesFitStep ==
  ASSUME TypeInv, EpochInv, [Next]_vars
  PROVE  values' # NoValues => Len(values'.list) = Len(layout'.list)
<1>1. CASE ValuesArrive
  BY <1>1 DEF ValuesArrive, FitsLayout
<1>2. CASE FullArrives
  BY <1>2 DEF FullArrives
<1>3. CASE ~ValuesArrive /\ ~FullArrives
  <2>1. UNCHANGED <<layout, values>>
    BY <1>3 DEF Next, Change, UploadMerge, CompileBegin, CompileDeclaresTag, CompileFails,
         CompileSucceeds, UploadReply, UploadRequestsRebuild, UploadFailsPartway, Activate,
         ClientPoll, Serve, ServeFull, ServeCompact, Arrive,
         OtherLayoutArrives, RequestFails, Reboot, CacheTask, RoundBegin, CopyFull,
         PublishFull, PublishFullTimeout, CopyCompact, PublishCompact,
         PublishCompactTimeout, vars, clientVars
  <2>2. QED
    BY <2>1 DEF EpochInv
<1>4. QED
  BY <1>1, <1>2, <1>3

LEMMA EpochInductive ==
  ASSUME TypeInv, EpochInv, [Next]_vars
  PROVE  EpochInv'
<1>1. TypeInv' /\ TableOK
  BY TypesInductive DEF TypeInv
<1>2. /\ \A p \in Payloads' : p.list \in Seq(Tags) /\ Len(p.list) \in Nat
      /\ VisibleList' \in Seq(Tags) /\ Len(VisibleList') \in Nat /\ rewrites' \in Nat
  <2>1. ListsHaveLengths'
    BY <1>1, PayloadLists, PTL
  <2>2. QED
    BY <2>1 DEF ListsHaveLengths
<1>3. /\ \A p \in Payloads : p.list \in Seq(Tags) /\ Len(p.list) \in Nat
      /\ VisibleList \in Seq(Tags) /\ Len(VisibleList) \in Nat /\ rewrites \in Nat
  BY PayloadLists DEF ListsHaveLengths
<1>4. \/ rewrites' = rewrites /\ Below(VisibleList, VisibleList')
      \/ rewrites' = rewrites + 1
  BY <1>1, TableStep
<1>5. \A p \in Payloads' : OldPayload(p) \/ BlankPayload(p) \/ CopiedNow(p)
  BY PayloadOrigin
<1>6. \A s \in Seq(Tags) : Len(s) = 0 => s = << >>
  OBVIOUS
<1>7. Len(<< >>) = 0
  OBVIOUS
<1>8. \A q \in Payloads : q.rewrites \in Nat /\ q.rewrites <= rewrites
                          /\ (q.rewrites = rewrites => Below(q.list, VisibleList))
  BY DEF EpochInv, CopyOfTable
<1>9. ASSUME NEW p \in Payloads'
      PROVE  /\ p.rewrites \in Nat /\ p.rewrites <= rewrites'
             /\ p.rewrites = rewrites' => Below(p.list, VisibleList')
  <2>1. CASE BlankPayload(p)
    BY <1>2, <1>7, <2>1, <1>6 DEF BlankPayload, Below
  <2>2. CASE CopiedNow(p)
    <3>1. VisibleList' = VisibleList /\ rewrites' = rewrites
      BY <2>2 DEF CopiedNow, VisibleList, tableVars
    <3>2. p.rewrites = rewrites /\ p.list = VisibleList
      BY <2>2 DEF CopiedNow
    <3>3. QED
      BY <1>3, <3>1, <3>2 DEF Below
  <2>3. CASE OldPayload(p)
    <3>1. PICK q \in Payloads : p.rewrites = q.rewrites /\ p.list = q.list
      BY <2>3 DEF OldPayload
    <3>2. /\ q.rewrites \in Nat /\ q.rewrites <= rewrites
          /\ q.rewrites = rewrites => Below(q.list, VisibleList)
      BY <1>8
    <3>3. Len(q.list) \in Nat
      BY <1>3
    <3>4. CASE rewrites' = rewrites /\ Below(VisibleList, VisibleList')
      BY <1>2, <1>3, <3>1, <3>2, <3>3, <3>4 DEF Below
    <3>5. CASE rewrites' = rewrites + 1
      BY <1>3, <3>1, <3>2, <3>5
    <3>6. QED
      BY <1>4, <3>4, <3>5
  <2>4. QED
    BY <1>5, <2>1, <2>2, <2>3
<1>10. ASSUME NEW p \in Payloads', NEW q \in Payloads',
              p.rewrites = q.rewrites, Len(p.list) = Len(q.list)
       PROVE  p.list = q.list
  <2>1. p.list \in Seq(Tags) /\ q.list \in Seq(Tags)
    BY <1>2
  <2>2. CASE BlankPayload(p) \/ BlankPayload(q)
    <3>1. Len(p.list) = 0 /\ Len(q.list) = 0
      BY <1>7, <1>10, <2>2 DEF BlankPayload
    <3>2. QED
      BY <1>6, <2>1, <3>1
  <2>3. CASE CopiedNow(p) /\ CopiedNow(q)
    BY <2>3 DEF CopiedNow
  <2>4. CASE OldPayload(p) /\ CopiedNow(q)
    <3>1. PICK o \in Payloads : p.rewrites = o.rewrites /\ p.list = o.list
      BY <2>4 DEF OldPayload
    <3>2. q.rewrites = rewrites /\ q.list = VisibleList
      BY <2>4 DEF CopiedNow
    <3>3. Below(o.list, VisibleList)
      BY <1>8, <1>10, <3>1, <3>2
    <3>4. QED
      BY <1>10, <3>1, <3>2, <3>3 DEF Below
  <2>5. CASE CopiedNow(p) /\ OldPayload(q)
    <3>1. PICK o \in Payloads : q.rewrites = o.rewrites /\ q.list = o.list
      BY <2>5 DEF OldPayload
    <3>2. p.rewrites = rewrites /\ p.list = VisibleList
      BY <2>5 DEF CopiedNow
    <3>3. Below(o.list, VisibleList)
      BY <1>8, <1>10, <3>1, <3>2
    <3>4. QED
      BY <1>10, <3>1, <3>2, <3>3 DEF Below
  <2>6. CASE OldPayload(p) /\ OldPayload(q)
    <3>1. PICK o \in Payloads : p.rewrites = o.rewrites /\ p.list = o.list
      BY <2>6 DEF OldPayload
    <3>2. PICK u \in Payloads : q.rewrites = u.rewrites /\ q.list = u.list
      BY <2>6 DEF OldPayload
    <3>3. Agree(o, u)
      BY DEF EpochInv
    <3>4. QED
      BY <1>10, <3>1, <3>2, <3>3 DEF Agree
  <2>7. QED
    BY <1>5, <2>2, <2>3, <2>4, <2>5, <2>6
<1>11. values' # NoValues => Len(values'.list) = Len(layout'.list)
  BY ValuesFitStep
<1>12. \A p \in Payloads' : CopyOfTable(p)'
  BY <1>9 DEF CopyOfTable
<1>13. \A p, q \in Payloads' : Agree(p, q)
  BY <1>10 DEF Agree
<1>14. QED
  BY <1>11, <1>12, <1>13 DEF EpochInv, CopyOfTable, Agree

LEMMA InitEpochs == Init => EpochInv
<1> SUFFICES ASSUME Init PROVE EpochInv
  OBVIOUS
<1>1. TypeInv
  BY InitTypes
<1>2. \A p \in Payloads : p \in {EmptyFull, NoLayout, NoValues}
  BY DEF Init, Payloads
<1>3. \A p \in Payloads : p.rewrites = 0 /\ p.list = << >>
  BY <1>2, BlankPayloadFacts DEF BlankPayload
<1>4. rewrites = 0 /\ values = NoValues
  BY DEF Init
<1>5. VisibleList \in Seq(Tags) /\ Len(VisibleList) \in Nat
  BY <1>1, PayloadLists DEF ListsHaveLengths
<1>6. Below(<< >>, VisibleList)
  <2>1. Len(<< >>) = 0 /\ (Len(VisibleList) = 0 => VisibleList = << >>)
    BY <1>5
  <2>2. QED
    BY <1>5, <2>1 DEF Below
<1>7. QED
  BY <1>3, <1>4, <1>6 DEF EpochInv, CopyOfTable, Agree

\* The client shows no value under the name of another tag as long as no tag
\* leaves the visible list: a layout and a list of values of the same epoch and
\* the same length are copies of the same list.
THEOREM ValuesAreLabelled == Spec => []ValuesUnderTheirNames
<1>1. TypeInv /\ EpochInv /\ [Next]_vars => TypeInv' /\ EpochInv'
  BY EpochInductive, TypesInductive
<1>2. EpochInv => ValuesUnderTheirNames
  <2>1. SUFFICES ASSUME EpochInv, values # NoValues, values.rewrites = layout.rewrites
                 PROVE  values.list = layout.list
    BY DEF ValuesUnderTheirNames
  <2>2. Agree(values, layout)
    BY <2>1 DEF EpochInv, Payloads
  <2>3. QED
    BY <2>1, <2>2 DEF Agree, EpochInv
<1>3. QED
  BY <1>1, <1>2, InitTypes, InitEpochs, PTL DEF Spec

-----------------------------------------------------------------------------
(***************************************************************************)
(* The layout of a generation                                              *)
(***************************************************************************)
\* What a program declares is visible before the program is activated.  The
\* generation is read before the table is copied, so that a layout under the
\* current generation was copied after the activation.
GenerationInv ==
  /\ needed \subseteq visible /\ program.tags \subseteq visible
  /\ full.generation <= generation /\ fullBuild.generation <= generation
  /\ task = "fullBuilt" /\ fullBuild.generation = generation
       => needed \subseteq Range(fullBuild.list)
  /\ GenerationLayoutHasItsTags

LEMMA InitGeneration == Init => GenerationInv
  BY DEF Init, GenerationInv, GenerationLayoutHasItsTags, NoProgram, EmptyFull

LEMMA GenerationInductive ==
  ASSUME TypeInv, GenerationInv, [Next]_vars
  PROVE  GenerationInv'
<1>1. /\ Control /\ TableOK /\ fullBuild \in FullPayloads /\ full.version \in Nat
      /\ visible \subseteq Range(table) /\ table \in Seq(Tags)
  BY TypeInvParts DEF PayloadsOK, FullPayloadOK, TableOK, IsList
<1>2. generation \in Nat /\ full.generation \in Nat /\ fullBuild.generation \in Nat
  BY <1>1 DEF Control, FullPayloads
<1>3. program \in [step : {"none", "compiling", "pending"}, tags : SUBSET Tags]
  BY <1>1 DEF Control
<1> USE DEF GenerationInv, GenerationLayoutHasItsTags
<1>4. ASSUME needed' \subseteq needed \cap visible', program'.tags \subseteq visible',
             UNCHANGED <<generation, full, fullBuild, task>>
      PROVE  GenerationInv'
  BY <1>4
<1>5. ASSUME NEW file \in TagFiles, UploadMerge(file)
      PROVE  GenerationInv'
  <2> DEFINE hidden == visible \ visible'
  <2>1. needed' = needed \ hidden /\ program' = [program EXCEPT !.tags = @ \ hidden]
    BY <1>5 DEF UploadMerge
  <2>2. program'.tags = program.tags \ hidden
    BY <1>3, <2>1
  <2>3. UNCHANGED <<generation, full, fullBuild, task>>
    BY <1>5 DEF UploadMerge, cacheVars
  <2>4. needed' \subseteq needed \cap visible' /\ program'.tags \subseteq visible'
    BY <2>1, <2>2
  <2>5. QED
    BY <1>4, <2>3, <2>4
<1>6. ASSUME NEW tag \in Declared, CompileDeclaresTag(tag)
      PROVE  GenerationInv'
  <2>1. visible' = visible \cup {tag} /\ program' = [program EXCEPT !.tags = @ \cup {tag}]
    BY <1>6 DEF CompileDeclaresTag
  <2>2. program'.tags = program.tags \cup {tag}
    BY <1>3, <2>1
  <2>3. UNCHANGED <<generation, full, fullBuild, task, needed>>
    BY <1>6 DEF CompileDeclaresTag, cacheVars
  <2>4. needed' \subseteq needed \cap visible' /\ program'.tags \subseteq visible'
    BY <2>1, <2>2, <2>3
  <2>5. QED
    BY <1>4, <2>3, <2>4
<1>7. CASE CompileBegin \/ CompileFails \/ CompileSucceeds
  <2>1. UNCHANGED <<generation, full, fullBuild, task, needed, visible>>
    BY <1>7 DEF CompileBegin, CompileFails, CompileSucceeds, cacheVars, tableVars
  <2>2. program'.tags = {} \/ program'.tags = program.tags
    BY <1>3, <1>7 DEF CompileBegin, CompileFails, CompileSucceeds, NoProgram
  <2>3. QED
    BY <1>4, <2>1, <2>2
<1>8. CASE Activate
  <2>1. /\ generation' = generation + 1 /\ needed' = program.tags /\ program' = NoProgram
        /\ UNCHANGED <<full, fullBuild, task, visible>>
    BY <1>8 DEF Activate, cacheVars, tableVars
  <2>2. program'.tags = {}
    BY <2>1 DEF NoProgram
  <2>3. QED
    BY <1>2, <2>1, <2>2
<1>9. CASE RoundBegin
  <2>1. UNCHANGED <<full, generation, needed, program, visible>> /\ task' # "fullBuilt"
    BY <1>9 DEF RoundBegin, changeVars, tableVars
  <2>2. fullBuild'.generation \in {generation, fullBuild.generation}
    BY <1>1, <1>9 DEF RoundBegin, FullPayloads
  <2>3. QED
    BY <1>2, <2>1, <2>2
<1>10. CASE CopyFull
  <2>1. UNCHANGED <<full, generation, needed, program, visible>>
    BY <1>10 DEF CopyFull, changeVars, tableVars
  <2>2. fullBuild'.generation = fullBuild.generation /\ fullBuild'.list = VisibleList
    BY <1>10 DEF CopyFull
  <2>3. Range(VisibleList) = Range(table) \cap visible
    BY <1>1, VisibleOfIs DEF VisibleList
  <2>4. needed \subseteq Range(fullBuild'.list)
    BY <1>1, <2>2, <2>3
  <2>5. QED
    BY <2>1, <2>2, <2>4
<1>11. CASE PublishFull
  <2>1. /\ UNCHANGED <<generation, needed, program, visible>> /\ task' # "fullBuilt"
        /\ full' = fullBuild /\ fullBuild' = EmptyFull /\ task = "fullBuilt"
    BY <1>11 DEF PublishFull, changeVars, tableVars
  <2>2. EmptyFull.generation = 0
    BY DEF EmptyFull
  <2>3. QED
    BY <1>2, <2>1, <2>2
<1>12. CASE PublishFullTimeout
  <2>1. /\ UNCHANGED <<full, generation, needed, program, visible>> /\ task' # "fullBuilt"
        /\ fullBuild' = EmptyFull
    BY <1>12 DEF PublishFullTimeout, changeVars, tableVars
  <2>2. EmptyFull.generation = 0
    BY DEF EmptyFull
  <2>3. QED
    BY <1>2, <2>1, <2>2
<1>13. CASE CopyCompact \/ PublishCompact \/ PublishCompactTimeout
  <2>1. UNCHANGED <<full, fullBuild, generation, needed, program, visible>> /\ task' # "fullBuilt"
    BY <1>13 DEF CopyCompact, PublishCompact, PublishCompactTimeout, changeVars, tableVars
  <2>2. QED
    BY <2>1
<1>14. CASE Reboot
  <2>1. /\ full' = EmptyFull /\ fullBuild' = EmptyFull /\ program' = NoProgram
        /\ needed' = {} /\ generation' = 0
    BY <1>14 DEF Reboot
  <2>2. EmptyFull.generation = 0 /\ NoProgram.tags = {}
    BY DEF EmptyFull, NoProgram
  <2>3. QED
    BY <2>1, <2>2
<1>15. CASE UploadReply \/ ClientPoll \/ Serve \/ Arrive \/ RequestFails \/ UNCHANGED vars
  <2>1. UNCHANGED <<full, fullBuild, generation, needed, program, visible, task>>
    BY <1>15 DEF UploadReply, UploadRequestsRebuild, UploadFailsPartway, ClientPoll,
       Serve, ServeFull, ServeCompact, Arrive, FullArrives, ValuesArrive,
       OtherLayoutArrives, RequestFails, vars, cacheVars, changeVars, tableVars
  <2>2. QED
    BY <2>1
<1>16. QED
  BY <1>5, <1>6, <1>7, <1>8, <1>9, <1>10, <1>11, <1>12, <1>13, <1>14, <1>15
     DEF Next, Change, CacheTask

\* A layout published under the current generation has every tag that the
\* active program declared and no upload hid.
THEOREM GenerationLayoutComplete == Spec => []GenerationLayoutHasItsTags
<1>1. TypeInv /\ GenerationInv /\ [Next]_vars => TypeInv' /\ GenerationInv'
  BY GenerationInductive, TypesInductive
<1>2. GenerationInv => GenerationLayoutHasItsTags
  BY DEF GenerationInv
<1>3. QED
  BY <1>1, <1>2, InitTypes, InitGeneration, PTL DEF Spec

-----------------------------------------------------------------------------
(***************************************************************************)
(* Versions                                                                *)
(***************************************************************************)
\* The layout the cache task has built is the next version, of this start.
BuildIsNext ==
  task = "fullBuilt" => /\ fullBuild.version = full.version + 1
                        /\ fullBuild.boot = reboots

\* Values are copied, and layouts sent, only once there is a layout.
LayoutExists ==
  /\ full.version # 0 => full.boot = reboots
  /\ http = "sendingFull" => full.version # 0
  /\ task \in {"copyCompact", "compactBuilt"} => full.version # 0

\* The client's layout is one that was published under its version.
LayoutWasPublished ==
  /\ layout.version \in Nat /\ layout.boot \in Nat /\ layout.boot <= reboots
  /\ layout.version # 0 /\ layout.boot = reboots =>
       /\ layout.version <= full.version
       /\ layout.version = full.version => layout.list = full.list

\* Values that fit the layout they name fit it wherever it is.
Honest(payload) ==
  payload # NoValues =>
    /\ payload.layout \in Nat \ {0} /\ payload.boot \in Nat /\ payload.boot <= reboots
    /\ payload.boot = reboots => payload.layout <= full.version
    /\ payload.fits /\ payload.boot = reboots /\ payload.layout = full.version
         => payload.list = full.list
    /\ payload.fits /\ payload.boot = layout.boot /\ payload.layout = layout.version
         => payload.list = layout.list

IInv ==
  /\ reboots \in Nat /\ full.version \in Nat
  /\ BuildIsNext /\ LayoutExists /\ LayoutWasPublished
  /\ Honest(compact) /\ Honest(compactBuild) /\ Honest(values)
  /\ values # NoValues => values.layout = layout.version

LEMMA InitInvariant == Init => IInv
  BY DEF Init, IInv, BuildIsNext, LayoutExists, LayoutWasPublished, Honest,
         EmptyFull, NoLayout

\* What a step leaves alone.
LEMMA Untouched ==
  ASSUME IInv, UNCHANGED <<full, compact, compactBuild, layout, values, reboots>>,
         BuildIsNext', LayoutExists'
  PROVE  IInv'
  BY DEF IInv, LayoutWasPublished, Honest

LEMMA Inductive == IInv /\ [Next]_vars => IInv'
<1> SUFFICES ASSUME IInv, [Next]_vars PROVE IInv'
  OBVIOUS
<1> USE DEF tableVars, changeVars, cacheVars, clientVars
<1>1. CASE Change \/ UploadReply \/ Activate \/ ClientPoll \/ UNCHANGED vars
  <2>1. UNCHANGED <<cacheVars, layout, values, reboots>>
    BY <1>1 DEF Change, UploadMerge, CompileBegin, CompileDeclaresTag, CompileFails,
                CompileSucceeds, UploadReply, UploadRequestsRebuild,
                UploadFailsPartway, Activate, ClientPoll, vars
  <2>2. http' = http \/ http' \in {"idle", "merged"}
    BY <1>1 DEF Change, UploadMerge, CompileBegin, CompileDeclaresTag, CompileFails,
                CompileSucceeds, UploadReply, UploadRequestsRebuild,
                UploadFailsPartway, Activate, ClientPoll, vars
  <2>3. BuildIsNext' /\ LayoutExists'
    BY <2>1, <2>2 DEF IInv, BuildIsNext, LayoutExists
  <2>4. QED
    BY <2>1, <2>3, Untouched
<1>2. CASE Serve \/ OtherLayoutArrives \/ RequestFails
  <2>1. UNCHANGED <<cacheVars, layout, values, reboots>>
    BY <1>2 DEF Serve, ServeFull, ServeCompact, OtherLayoutArrives, RequestFails
  <2>2. http' = "sendingFull" => full.version # 0
    BY <1>2 DEF Serve, ServeFull, ServeCompact, OtherLayoutArrives, RequestFails,
                IInv, LayoutExists
  <2>3. BuildIsNext' /\ LayoutExists'
    BY <2>1, <2>2 DEF IInv, BuildIsNext, LayoutExists
  <2>4. QED
    BY <2>1, <2>3, Untouched
<1>3. CASE RoundBegin
  <2>1. UNCHANGED <<full, compact, compactBuild, layout, values, reboots, http>>
    BY <1>3 DEF RoundBegin
  <2>2. task' \in {"copyFull", "copyCompact"} /\ (task' = "copyCompact" => full.version # 0)
    BY <1>3 DEF RoundBegin
  <2>3. BuildIsNext' /\ LayoutExists'
    BY <2>1, <2>2 DEF IInv, BuildIsNext, LayoutExists
  <2>4. QED
    BY <2>1, <2>3, Untouched
<1>4. CASE CopyFull
  <2>1. UNCHANGED <<full, compact, compactBuild, layout, values, reboots, http>>
    BY <1>4 DEF CopyFull
  <2>2. /\ task' = "fullBuilt" /\ fullBuild'.version = full.version + 1
        /\ fullBuild'.boot = reboots
    BY <1>4 DEF CopyFull
  <2>3. BuildIsNext' /\ LayoutExists'
    BY <2>1, <2>2 DEF IInv, BuildIsNext, LayoutExists
  <2>4. QED
    BY <2>1, <2>3, Untouched
<1>5. CASE PublishFull
  <2>1. UNCHANGED <<compact, compactBuild, layout, values, reboots, http>>
    BY <1>5 DEF PublishFull
  <2>2. /\ full' = fullBuild /\ full'.version = full.version + 1
        /\ full'.boot = reboots /\ full.version \in Nat /\ reboots \in Nat
        /\ task' = "copyCompact"
    BY <1>5 DEF PublishFull, IInv, BuildIsNext
  <2>3. BuildIsNext' /\ LayoutExists'
    BY <2>1, <2>2 DEF BuildIsNext, LayoutExists
  <2>4. LayoutWasPublished'
    <3>1. layout.version # 0 /\ layout.boot = reboots => layout.version <= full.version
      BY DEF IInv, LayoutWasPublished
    <3>2. layout.version \in Nat /\ layout.boot \in Nat /\ layout.boot <= reboots
      BY DEF IInv, LayoutWasPublished
    <3>3. QED
      BY <2>1, <2>2, <3>1, <3>2 DEF LayoutWasPublished
  <2>5. ASSUME NEW payload, Honest(payload)
        PROVE  payload # NoValues =>
                 /\ payload.layout \in Nat \ {0} /\ payload.boot \in Nat
                 /\ payload.boot <= reboots
                 /\ payload.boot = reboots =>
                      payload.layout <= full'.version /\ payload.layout # full'.version
                 /\ payload.fits /\ payload.boot = layout.boot
                      /\ payload.layout = layout.version => payload.list = layout.list
    BY <2>2, <2>5 DEF Honest
  <2>6. Honest(compact)' /\ Honest(compactBuild)' /\ Honest(values)'
    BY <2>1, <2>5 DEF IInv, Honest
  <2>7. QED
    BY <2>1, <2>2, <2>3, <2>4, <2>6 DEF IInv
<1>6. CASE PublishFullTimeout
  <2>1. UNCHANGED <<full, compact, compactBuild, layout, values, reboots, http>>
    BY <1>6 DEF PublishFullTimeout
  <2>2. task' = "copyCompact" /\ full.version # 0
    BY <1>6 DEF PublishFullTimeout, IInv, LayoutExists
  <2>3. BuildIsNext' /\ LayoutExists'
    BY <2>1, <2>2 DEF IInv, BuildIsNext, LayoutExists
  <2>4. QED
    BY <2>1, <2>3, Untouched
<1>7. CASE CopyCompact
  <2>1. UNCHANGED <<full, compact, layout, values, reboots, http>>
    BY <1>7 DEF CopyCompact
  <2>2. task' = "compactBuilt" /\ full.version \in Nat \ {0} /\ reboots \in Nat
    BY <1>7 DEF CopyCompact, IInv, LayoutExists
  <2>3. /\ compactBuild'.layout = full.version /\ compactBuild'.boot = reboots
        /\ compactBuild'.fits => compactBuild'.list = full.list
    BY <1>7 DEF CopyCompact
  <2>4. BuildIsNext' /\ LayoutExists' /\ LayoutWasPublished'
    BY <2>1, <2>2 DEF IInv, BuildIsNext, LayoutExists, LayoutWasPublished
  <2>5. layout.version = full.version /\ layout.boot = reboots => layout.list = full.list
    BY <2>2 DEF IInv, LayoutWasPublished
  <2>6. Honest(compactBuild)'
    BY <2>1, <2>2, <2>3, <2>5 DEF Honest
  <2>7. Honest(compact)' /\ Honest(values)'
    BY <2>1 DEF IInv, Honest
  <2>8. QED
    BY <2>1, <2>2, <2>4, <2>6, <2>7 DEF IInv
<1>8. CASE PublishCompact \/ PublishCompactTimeout
  <2>1. UNCHANGED <<full, layout, values, reboots, http>> /\ task' = "idle"
    BY <1>8 DEF PublishCompact, PublishCompactTimeout
  <2>2. /\ compact' = compactBuild \/ compact' = compact
        /\ compactBuild' = NoValues
    BY <1>8 DEF PublishCompact, PublishCompactTimeout
  <2>3. BuildIsNext' /\ LayoutExists' /\ LayoutWasPublished'
    BY <2>1 DEF IInv, BuildIsNext, LayoutExists, LayoutWasPublished
  <2>4. Honest(compact)' /\ Honest(compactBuild)' /\ Honest(values)'
    BY <2>1, <2>2 DEF IInv, Honest
  <2>5. QED
    BY <2>1, <2>3, <2>4 DEF IInv
<1>9. CASE FullArrives
  <2>1. UNCHANGED <<cacheVars, reboots>> /\ values' = NoValues /\ http' = "idle"
    BY <1>9 DEF FullArrives
  <2>2. /\ layout'.version = full.version /\ layout'.list = full.list
        /\ layout'.boot = full.boot /\ full.boot = reboots
        /\ full.version \in Nat /\ reboots \in Nat
    BY <1>9 DEF FullArrives, IInv, LayoutExists
  <2>3. BuildIsNext' /\ LayoutExists' /\ LayoutWasPublished'
    BY <2>1, <2>2 DEF IInv, BuildIsNext, LayoutExists, LayoutWasPublished
  <2>4. Honest(compact)' /\ Honest(compactBuild)' /\ Honest(values)'
    BY <2>1, <2>2 DEF IInv, Honest
  <2>5. QED
    BY <2>1, <2>2, <2>3, <2>4 DEF IInv
<1>10. CASE ValuesArrive
  <2>1. UNCHANGED <<cacheVars, layout, reboots>> /\ values' = compact /\ http' = "idle"
    BY <1>10 DEF ValuesArrive
  <2>2. compact # NoValues => compact.layout = layout.version
    BY <1>10 DEF ValuesArrive, FitsLayout, IInv, Honest
  <2>3. BuildIsNext' /\ LayoutExists' /\ LayoutWasPublished'
    BY <2>1 DEF IInv, BuildIsNext, LayoutExists, LayoutWasPublished
  <2>4. Honest(compact)' /\ Honest(compactBuild)' /\ Honest(values)'
    BY <2>1 DEF IInv, Honest
  <2>5. QED
    BY <2>1, <2>2, <2>3, <2>4 DEF IInv
<1>11. CASE Reboot
  <2>1. /\ reboots' = reboots + 1 /\ UNCHANGED <<layout, values>>
        /\ http' = "idle" /\ task' = "idle"
        /\ full' = EmptyFull /\ compact' = NoValues /\ compactBuild' = NoValues
    BY <1>11 DEF Reboot
  <2>2. full'.version = 0 /\ reboots \in Nat
    BY <2>1 DEF EmptyFull, IInv
  <2>3. BuildIsNext' /\ LayoutExists'
    BY <2>1, <2>2 DEF BuildIsNext, LayoutExists
  <2>4. LayoutWasPublished'
    BY <2>1, <2>2 DEF IInv, LayoutWasPublished
  <2>5. Honest(compact)' /\ Honest(compactBuild)'
    BY <2>1 DEF Honest
  <2>6. Honest(values)'
    BY <2>1, <2>2 DEF IInv, Honest
  <2>7. QED
    BY <2>1, <2>2, <2>3, <2>4, <2>5, <2>6 DEF IInv
<1>12. QED
  BY <1>1, <1>2, <1>3, <1>4, <1>5, <1>6, <1>7, <1>8, <1>9, <1>10, <1>11
     DEF Next, CacheTask, Arrive

-----------------------------------------------------------------------------
\* Values that were copied in the order of the layout they name appear under
\* their own names in the client, whatever was uploaded, compiled, activated
\* or published meanwhile, unless the controller restarted in between.
THEOREM FittingIsLabelled == Spec => []FittingValuesAreLabelled
<1>1. Init => IInv
  BY InitInvariant
<1>2. IInv /\ [Next]_vars => IInv'
  BY Inductive
<1>3. IInv => FittingValuesAreLabelled
  BY DEF IInv, Honest, FittingValuesAreLabelled
<1>4. QED
  BY <1>1, <1>2, <1>3, PTL DEF Spec

=============================================================================
