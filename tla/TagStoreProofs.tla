--------------------------- MODULE TagStoreProofs ---------------------------
(***************************************************************************)
(* Proofs about TagStore, for every set of names, every capacity and every *)
(* set of registries, declarations and values.                             *)
(*                                                                         *)
(* The first part says what the operators on tables do: an update keeps    *)
(* names, types and places; a merge and the ensured tags are appended.     *)
(* The second part is the inductive invariant IInv: what it adds to the    *)
(* properties is that the check of an upload stays true until the merge,   *)
(* but for the tags that compiles declared in between (CheckStillHolds).   *)
(***************************************************************************)
EXTENDS TagStore, FiniteSetTheorems, SequenceTheorems, TLAPS

-----------------------------------------------------------------------------
\* A table that OneCellPerName and TypeOK allow.
Distinct(t) == \A i, j \in 1 .. Len(t) : t[i].name = t[j].name => i = j

Good(t) == t \in Seq(Cells) /\ Len(t) <= Capacity /\ Distinct(t)

\* A table in which the cells of t keep their places, names and types.
Keeps(t, u) ==
  /\ Len(t) <= Len(u)
  /\ \A i \in 1 .. Len(t) : u[i].name = t[i].name /\ u[i].type = t[i].type

\* A registry that came from a client, a file or the defaults.
GoodRegistry(r) ==
  /\ DOMAIN r \subseteq UserNames
  /\ \A n \in DOMAIN r : r[n].type \in Types /\ r[n].value \in Int

-----------------------------------------------------------------------------
(***************************************************************************)
(* The operators                                                           *)
(***************************************************************************)
\* What reading and printing make of a number is a number.
LEMMA ParsedIsInt ==
  ASSUME NEW type, NEW v \in Int PROVE Parsed(type, v) \in Int
<1> DEFINE magnitude == IF v < 0 THEN -v ELSE v
<1> DEFINE rounded == IF magnitude <= 16777216 \/ magnitude % 2 = 0 THEN magnitude
                      ELSE IF magnitude % 4 = 1 THEN magnitude - 1
                      ELSE magnitude + 1
<1>1. magnitude \in Int
  OBVIOUS
<1> HIDE DEF magnitude
<1>2. rounded \in Int
  BY <1>1
<1> HIDE DEF rounded
<1>3. Parsed(type, v) = IF type = "bool" THEN v ELSE IF v < 0 THEN -rounded ELSE rounded
  BY DEF Parsed, rounded, magnitude
<1>4. QED
  BY <1>2, <1>3

LEMMA PrintedIsInt ==
  ASSUME NEW type, NEW v \in Int PROVE Printed(type, v) \in Int
  BY DEF Printed

\* The sequences of a set list each element once.
LEMMA SequencesOf ==
  ASSUME NEW S, IsFiniteSet(S), NEW s \in SetToSeqs(S)
  PROVE  /\ s \in Seq(S) /\ Len(s) = Cardinality(S) /\ Len(s) \in Nat
         /\ \A i, j \in 1 .. Len(s) : s[i] = s[j] => i = j
         /\ \A i \in 1 .. Len(s) : s[i] \in S
         /\ \A x \in S : \E i \in 1 .. Len(s) : s[i] = x
<1> DEFINE n == Cardinality(S)
<1>1. n \in Nat
  BY FS_CardinalityType
<1>2. s \in [1 .. n -> S] /\ \A i, j \in 1 .. n : i # j => s[i] # s[j]
  BY DEF SetToSeqs
<1>3. s \in Seq(S) /\ Len(s) = n
  BY <1>1, <1>2
<1>4. s \in Injection(1 .. n, S)
  BY <1>2 DEF Injection, IsInjective
<1>5. Cardinality(1 .. n) = n
  <2>1. 1 \in Int /\ n \in Int
    BY <1>1
  <2>2. Cardinality(1 .. n) = IF 1 > n THEN 0 ELSE n - 1 + 1
    BY <2>1, FS_Interval
  <2>3. QED
    BY <1>1, <2>2
<1>6. s \in Surjection(1 .. n, S)
  BY <1>4, <1>5, FS_Injection
<1>7. \A x \in S : \E i \in 1 .. n : s[i] = x
  BY <1>6 DEF Surjection
<1>8. QED
  BY <1>1, <1>2, <1>3, <1>7

\* Names are finitely many.
LEMMA FiniteNames ==
  ASSUME NEW S, S \subseteq Names
  PROVE  IsFiniteSet(S) /\ Cardinality(S) \in Nat
  BY TagStoreAssumption, FS_Subset, FS_CardinalityType

\* The cells appended for new tags of a registry.
LEMMA AppendedCells ==
  ASSUME NEW r, GoodRegistry(r), NEW S, S \subseteq DOMAIN r, NEW new \in SetToSeqs(S)
  PROVE  LET a == Appended(r, new)
         IN  /\ a \in Seq(Cells) /\ Len(a) = Cardinality(S) /\ Distinct(a)
             /\ \A i \in 1 .. Len(a) : a[i].name \in S
             /\ \A n \in S : \E i \in 1 .. Len(a) :
                  a[i].name = n /\ a[i].type = r[n].type
                    /\ a[i].initial = Parsed(r[n].type, r[n].value)
<1> DEFINE a == Appended(r, new)
<1>1. S \subseteq Names /\ IsFiniteSet(S)
  BY FiniteNames DEF GoodRegistry, UserNames
<1>2. /\ new \in Seq(S) /\ Len(new) = Cardinality(S) /\ Len(new) \in Nat
      /\ \A i, j \in 1 .. Len(new) : new[i] = new[j] => i = j
      /\ \A i \in 1 .. Len(new) : new[i] \in S
      /\ \A x \in S : \E i \in 1 .. Len(new) : new[i] = x
  BY <1>1, SequencesOf
<1>3. DOMAIN new = 1 .. Len(new)
  BY <1>2, LenProperties
<1>4. a = [i \in 1 .. Len(new) |->
             Cell(new[i], r[new[i]].type, Parsed(r[new[i]].type, r[new[i]].value))]
  BY <1>3 DEF Appended
<1>5. \A i \in 1 .. Len(new) :
        Cell(new[i], r[new[i]].type, Parsed(r[new[i]].type, r[new[i]].value)) \in Cells
  BY <1>1, <1>2, ParsedIsInt DEF Cell, Cells, GoodRegistry
<1>6. a \in Seq(Cells) /\ Len(a) = Len(new)
  <2> HIDE DEF a
  <2>1. a \in [1 .. Len(new) -> Cells]
    BY <1>4, <1>5
  <2>2. QED
    BY <1>2, <2>1
<1>7. \A i \in 1 .. Len(a) :
        /\ a[i].name = new[i] /\ a[i].type = r[new[i]].type
        /\ a[i].initial = Parsed(r[new[i]].type, r[new[i]].value)
  <2> HIDE DEF a
  <2> QED
    BY <1>4, <1>6 DEF Cell
<1>8. QED
  <2> HIDE DEF a
  <2>1. Distinct(a)
    BY <1>2, <1>6, <1>7 DEF Distinct
  <2>2. \A i \in 1 .. Len(a) : a[i].name \in S
    BY <1>2, <1>6, <1>7
  <2>3. \A n \in S : \E i \in 1 .. Len(a) :
          a[i].name = n /\ a[i].type = r[n].type
            /\ a[i].initial = Parsed(r[n].type, r[n].value)
    BY <1>2, <1>6, <1>7
  <2>4. QED
    BY <1>2, <1>6, <2>1, <2>2, <2>3 DEF a

\* The names of a table.
LEMMA NamesOfTable ==
  ASSUME NEW t \in Seq(Cells)
  PROVE  /\ DOMAIN t = 1 .. Len(t) /\ Len(t) \in Nat
         /\ NamesIn(t) = {t[i].name : i \in 1 .. Len(t)}
         /\ \A i \in 1 .. Len(t) : /\ t[i] \in Cells /\ t[i].name \in Names
                                   /\ t[i].type \in Types
<1>1. DOMAIN t = 1 .. Len(t) /\ Len(t) \in Nat
  BY LenProperties
<1>2. \A i \in 1 .. Len(t) : t[i] \in Cells
  BY ElementOfSeq
<1>3. QED
  BY <1>1, <1>2 DEF NamesIn, Cells

\* New cells behind the cells of a table.
LEMMA JoinedTable ==
  ASSUME NEW t, Good(t), NEW a \in Seq(Cells), Distinct(a),
         Len(t) + Len(a) <= Capacity,
         \A i \in 1 .. Len(a) : a[i].name \notin NamesIn(t)
  PROVE  /\ Good(t \o a) /\ Keeps(t, t \o a)
         /\ Len(t \o a) = Len(t) + Len(a)
         /\ \A i \in 1 .. Len(t) : (t \o a)[i] = t[i]
         /\ \A i \in 1 .. Len(a) : (t \o a)[Len(t) + i] = a[i]
         /\ NamesIn(t \o a) = NamesIn(t) \cup NamesIn(a)
<1> DEFINE u == t \o a
<1>1. t \in Seq(Cells) /\ Len(t) \in Nat /\ Len(a) \in Nat /\ Distinct(t)
  BY LenProperties DEF Good
<1>2. /\ u \in Seq(Cells) /\ Len(u) = Len(t) + Len(a)
      /\ \A i \in 1 .. Len(t) + Len(a) : u[i] = IF i <= Len(t) THEN t[i] ELSE a[i - Len(t)]
  BY <1>1, ConcatProperties
<1> HIDE DEF u
<1>3. \A i \in 1 .. Len(t) : u[i] = t[i]
  BY <1>1, <1>2
<1>4. \A i \in 1 .. Len(a) : u[Len(t) + i] = a[i]
  <2> SUFFICES ASSUME NEW i \in 1 .. Len(a) PROVE u[Len(t) + i] = a[i]
    OBVIOUS
  <2>1. /\ Len(t) + i \in 1 .. Len(t) + Len(a)
        /\ ~(Len(t) + i <= Len(t)) /\ Len(t) + i - Len(t) = i
    BY <1>1
  <2>2. QED
    BY <1>2, <2>1
<1>5. \A i \in 1 .. Len(u) :
        \/ i \in 1 .. Len(t) /\ u[i] = t[i]
        \/ i - Len(t) \in 1 .. Len(a) /\ u[i] = a[i - Len(t)]
  BY <1>1, <1>2
<1>6. NamesIn(t) = {t[i].name : i \in 1 .. Len(t)} /\ NamesIn(a) = {a[i].name : i \in 1 .. Len(a)}
  BY <1>1, NamesOfTable
<1>7. Distinct(u)
  <2> SUFFICES ASSUME NEW i \in 1 .. Len(u), NEW j \in 1 .. Len(u), u[i].name = u[j].name
               PROVE  i = j
    BY DEF Distinct
  <2>1. CASE i \in 1 .. Len(t) /\ j \in 1 .. Len(t)
    BY <1>1, <1>3, <2>1 DEF Distinct
  <2>2. CASE i - Len(t) \in 1 .. Len(a) /\ j - Len(t) \in 1 .. Len(a)
    <3>1. u[i] = a[i - Len(t)] /\ u[j] = a[j - Len(t)]
      BY <1>1, <1>2, <1>5, <2>2
    <3>2. i - Len(t) = j - Len(t)
      BY <2>2, <3>1 DEF Distinct
    <3>3. QED
      BY <1>1, <1>2, <3>2
  <2>3. ASSUME NEW k \in 1 .. Len(u), NEW m \in 1 .. Len(t), k - Len(t) \in 1 .. Len(a)
        PROVE  u[k].name # u[m].name
    <3>1. ~(k <= Len(t)) /\ k \in 1 .. Len(t) + Len(a)
      BY <1>1, <1>2, <2>3
    <3>2. u[k] = a[k - Len(t)] /\ u[m] = t[m]
      BY <1>2, <1>3, <3>1
    <3>3. u[k].name \notin NamesIn(t) /\ u[m].name \in NamesIn(t)
      BY <1>6, <2>3, <3>2
    <3>4. QED
      BY <3>3
  <2>4. /\ ~(i \in 1 .. Len(t) /\ j - Len(t) \in 1 .. Len(a))
        /\ ~(i - Len(t) \in 1 .. Len(a) /\ j \in 1 .. Len(t))
    BY <2>3
  <2>5. QED
    BY <1>5, <2>1, <2>2, <2>4
<1>8. NamesIn(u) = NamesIn(t) \cup NamesIn(a)
  <2>1. NamesIn(u) = {u[i].name : i \in 1 .. Len(u)}
    BY <1>2, NamesOfTable
  <2>2. NamesIn(u) \subseteq NamesIn(t) \cup NamesIn(a)
    BY <1>5, <1>6, <2>1
  <2>3. \A i \in 1 .. Len(t) : i \in 1 .. Len(u)
    BY <1>1, <1>2
  <2>4. \A i \in 1 .. Len(a) : Len(t) + i \in 1 .. Len(u)
    BY <1>1, <1>2
  <2>5. NamesIn(t) \subseteq NamesIn(u)
    BY <1>3, <1>6, <2>1, <2>3
  <2>6. NamesIn(a) \subseteq NamesIn(u)
    BY <1>4, <1>6, <2>1, <2>4
  <2>7. QED
    BY <2>2, <2>5, <2>6
<1>9. Keeps(t, u)
  BY <1>1, <1>2, <1>3 DEF Keeps
<1>10. Good(u)
  BY <1>2, <1>7 DEF Good
<1>11. QED
  BY <1>2, <1>3, <1>4, <1>8, <1>9, <1>10 DEF u

\* An update in place.
LEMMA UpdatedTable ==
  ASSUME NEW t, Good(t), NEW r, GoodRegistry(r), NEW names, names \subseteq DOMAIN r,
         NEW junk \in Int
  PROVE  LET u == Updated(t, r, names, junk)
         IN  /\ Good(u) /\ Keeps(t, u) /\ Len(u) = Len(t) /\ NamesIn(u) = NamesIn(t)
             /\ \A i \in 1 .. Len(t) :
                  t[i].name \in names /\ t[i].type = r[t[i].name].type
                    => u[i].initial = Parsed(t[i].type, r[t[i].name].value)
<1> DEFINE u == Updated(t, r, names, junk)
<1>1. /\ t \in Seq(Cells) /\ Len(t) \in Nat /\ DOMAIN t = 1 .. Len(t)
      /\ \A i \in 1 .. Len(t) : t[i] \in Cells
  BY NamesOfTable DEF Good
<1>2. u = [i \in 1 .. Len(t) |-> IF t[i].name \in names
                                 THEN UpdatedCell(t[i], r[t[i].name], junk) ELSE t[i]]
  BY <1>1 DEF Updated
<1>3. ASSUME NEW c \in Cells, c.name \in names
      PROVE  LET d == UpdatedCell(c, r[c.name], junk)
             IN  /\ d \in Cells /\ d.name = c.name /\ d.type = c.type
                 /\ c.type = r[c.name].type => d.initial = Parsed(c.type, r[c.name].value)
  <2>1. c.name \in Names /\ c.type \in Types /\ r[c.name].value \in Int
    BY <1>3 DEF Cells, GoodRegistry
  <2>2. Parsed(c.type, r[c.name].value) \in Int /\ junk % 2 \in Int
    BY <2>1, ParsedIsInt
  <2> DEFINE v == IF c.type = r[c.name].type THEN Parsed(c.type, r[c.name].value)
                  ELSE IF c.type = "bool" THEN junk % 2
                  ELSE junk
  <2>3. UpdatedCell(c, r[c.name], junk) = Cell(c.name, c.type, v)
    BY DEF UpdatedCell
  <2>4. v \in Int /\ (c.type = r[c.name].type => v = Parsed(c.type, r[c.name].value))
    BY <2>2
  <2> HIDE DEF v
  <2>5. QED
    BY <2>1, <2>3, <2>4 DEF Cell, Cells
<1> HIDE DEF u
<1>4. u \in [1 .. Len(t) -> Cells]
  BY <1>1, <1>2, <1>3
<1>5. u \in Seq(Cells) /\ Len(u) = Len(t)
  BY <1>1, <1>4
<1>6. \A i \in 1 .. Len(t) : u[i].name = t[i].name /\ u[i].type = t[i].type
  BY <1>1, <1>2, <1>3
<1>7. Good(u) /\ Keeps(t, u)
  BY <1>1, <1>5, <1>6 DEF Good, Distinct, Keeps
<1>8. NamesIn(u) = NamesIn(t)
  <2>1. NamesIn(u) = {u[i].name : i \in 1 .. Len(u)}
    BY <1>5, NamesOfTable
  <2>2. NamesIn(t) = {t[i].name : i \in 1 .. Len(t)}
    BY <1>1, NamesOfTable
  <2>3. QED
    BY <1>5, <1>6, <2>1, <2>2
<1>9. \A i \in 1 .. Len(t) :
        t[i].name \in names /\ t[i].type = r[t[i].name].type
          => u[i].initial = Parsed(t[i].type, r[t[i].name].value)
  BY <1>1, <1>2, <1>3
<1>10. QED
  BY <1>5, <1>7, <1>8, <1>9 DEF u

\* What a merge makes of a table t: updates in place, new tags behind.
Merged(t, r, names, u) ==
  /\ Good(u) /\ Keeps(t, u)
  /\ NamesIn(u) = NamesIn(t) \cup names
  /\ Len(u) = Len(t) + Cardinality(Fresh(t, names))
  /\ \A i \in 1 .. Len(t) :
       t[i].name \in names /\ t[i].type = r[t[i].name].type
         => u[i].initial = Parsed(t[i].type, r[t[i].name].value)
  /\ \A n \in names \ NamesIn(t) : \E i \in 1 .. Len(u) :
       /\ u[i].name = n /\ u[i].type = r[n].type
       /\ u[i].initial = Parsed(r[n].type, r[n].value)

LEMMA MergedTable ==
  ASSUME NEW t, Good(t), NEW r, GoodRegistry(r), NEW names, names \subseteq DOMAIN r,
         NEW junk \in Int, Cardinality(Fresh(t, names)) <= Room(t),
         NEW new \in SetToSeqs(Fresh(t, names)),
         NEW u, u = Updated(t, r, names, junk) \o Appended(r, new)
  PROVE  Merged(t, r, names, u)
<1> DEFINE v == Updated(t, r, names, junk)
           a == Appended(r, new)
<1>0. u = v \o a
  OBVIOUS
<1>1. /\ Good(v) /\ Keeps(t, v) /\ Len(v) = Len(t) /\ NamesIn(v) = NamesIn(t)
      /\ \A i \in 1 .. Len(t) :
           t[i].name \in names /\ t[i].type = r[t[i].name].type
             => v[i].initial = Parsed(t[i].type, r[t[i].name].value)
  BY UpdatedTable
<1>2. Fresh(t, names) \subseteq DOMAIN r /\ Fresh(t, names) = names \ NamesIn(t)
  BY DEF Fresh
<1>3. /\ a \in Seq(Cells) /\ Len(a) = Cardinality(Fresh(t, names)) /\ Distinct(a)
      /\ \A i \in 1 .. Len(a) : a[i].name \in Fresh(t, names)
      /\ \A n \in Fresh(t, names) : \E i \in 1 .. Len(a) :
           a[i].name = n /\ a[i].type = r[n].type
             /\ a[i].initial = Parsed(r[n].type, r[n].value)
  BY <1>2, AppendedCells
<1>4. Len(t) \in Nat /\ Len(a) \in Nat
  BY <1>3, LenProperties DEF Good
<1> HIDE DEF v, a
<1>5. Len(v) + Len(a) <= Capacity
  BY <1>1, <1>3, <1>4, TagStoreAssumption DEF Room
<1>6. \A i \in 1 .. Len(a) : a[i].name \notin NamesIn(v)
  BY <1>1, <1>2, <1>3
<1>7. /\ Good(u) /\ Keeps(v, u) /\ Len(u) = Len(v) + Len(a)
      /\ \A i \in 1 .. Len(v) : u[i] = v[i]
      /\ \A i \in 1 .. Len(a) : u[Len(v) + i] = a[i]
      /\ NamesIn(u) = NamesIn(v) \cup NamesIn(a)
  <2>1. Good(v) /\ a \in Seq(Cells) /\ Distinct(a)
    BY <1>1, <1>3
  <2>2. QED
    BY <2>1, <1>0, <1>5, <1>6, JoinedTable
<1>8. NamesIn(a) = Fresh(t, names)
  <2>1. NamesIn(a) = {a[i].name : i \in 1 .. Len(a)}
    BY <1>3, NamesOfTable
  <2>2. QED
    BY <1>3, <2>1
<1>9. NamesIn(u) = NamesIn(t) \cup names
  BY <1>1, <1>2, <1>7, <1>8
<1>10. Keeps(t, u)
  BY <1>1, <1>4, <1>7 DEF Keeps
<1>11. \A n \in names \ NamesIn(t) : \E i \in 1 .. Len(u) :
         /\ u[i].name = n /\ u[i].type = r[n].type
         /\ u[i].initial = Parsed(r[n].type, r[n].value)
  <2> SUFFICES ASSUME NEW n \in names \ NamesIn(t)
               PROVE  \E i \in 1 .. Len(u) :
                        /\ u[i].name = n /\ u[i].type = r[n].type
                        /\ u[i].initial = Parsed(r[n].type, r[n].value)
    OBVIOUS
  <2>1. PICK i \in 1 .. Len(a) :
          a[i].name = n /\ a[i].type = r[n].type
            /\ a[i].initial = Parsed(r[n].type, r[n].value)
    BY <1>2, <1>3
  <2>2. Len(v) + i \in 1 .. Len(u) /\ u[Len(v) + i] = a[i]
    BY <1>1, <1>4, <1>7
  <2>3. QED
    BY <2>1, <2>2
<1>12. \A i \in 1 .. Len(t) :
         t[i].name \in names /\ t[i].type = r[t[i].name].type
           => u[i].initial = Parsed(t[i].type, r[t[i].name].value)
  BY <1>1, <1>7
<1>13. Len(u) = Len(t) + Cardinality(Fresh(t, names))
  BY <1>1, <1>3, <1>7
<1>14. QED
  BY <1>7, <1>9, <1>10, <1>11, <1>12, <1>13 DEF Merged

\* The ensured tags behind the others.
LEMMA EnsuredTable ==
  ASSUME NEW t, Good(t), NEW u \in EnsuredTables(t)
  PROVE  /\ Good(u) /\ Keeps(t, u)
         /\ \A i \in 1 .. Len(t) : u[i] = t[i]
         /\ NamesIn(t) \subseteq NamesIn(u)
         /\ Cardinality(DOMAIN Ensured \ NamesIn(t)) <= Room(t)
              => NamesIn(u) = NamesIn(t) \cup DOMAIN Ensured
<1> DEFINE Missing == DOMAIN Ensured \ NamesIn(t)
<1>1. PICK S \in SUBSET Missing : \E new \in SetToSeqs(S) :
        /\ u = t \o [i \in DOMAIN new |-> Cell(new[i], Ensured[new[i]], 0)]
        /\ \/ S = Missing /\ Cardinality(S) <= Room(t)
           \/ S # Missing /\ Cardinality(S) = Room(t)
  BY DEF EnsuredTables
<1>2. PICK new \in SetToSeqs(S) :
        u = t \o [i \in DOMAIN new |-> Cell(new[i], Ensured[new[i]], 0)]
  BY <1>1
<1> DEFINE a == [i \in DOMAIN new |-> Cell(new[i], Ensured[new[i]], 0)]
<1>3. /\ \A n \in DOMAIN Ensured : n \in Names /\ Ensured[n] \in Types
  BY TagStoreAssumption
<1>4. IsFiniteSet(S) /\ Cardinality(S) \in Nat /\ S \subseteq Names
  BY <1>3, FiniteNames
<1>5. /\ new \in Seq(S) /\ Len(new) = Cardinality(S) /\ Len(new) \in Nat
      /\ \A i, j \in 1 .. Len(new) : new[i] = new[j] => i = j
      /\ \A i \in 1 .. Len(new) : new[i] \in S
      /\ \A x \in S : \E i \in 1 .. Len(new) : new[i] = x
  BY <1>4, SequencesOf
<1>6. DOMAIN new = 1 .. Len(new)
  BY <1>5, LenProperties
<1>7. a \in [1 .. Len(new) -> Cells]
  BY <1>3, <1>5, <1>6 DEF Cell, Cells
<1>8. \A i \in 1 .. Len(new) : a[i].name = new[i]
  BY <1>6 DEF Cell
<1> HIDE DEF a
<1>9. a \in Seq(Cells) /\ Len(a) = Len(new)
  BY <1>5, <1>7
<1>10. Distinct(a) /\ \A i \in 1 .. Len(a) : a[i].name \in S
  BY <1>5, <1>8, <1>9 DEF Distinct
<1>11. Len(t) \in Nat /\ Len(t) + Len(a) <= Capacity
  <2>1. Len(t) \in Nat
    BY LenProperties DEF Good
  <2>2. Cardinality(S) <= Capacity - Len(t)
    BY <1>1, <1>4, <2>1, TagStoreAssumption DEF Room
  <2>3. QED
    BY <1>4, <1>5, <1>9, <2>1, <2>2, TagStoreAssumption
<1>12. \A i \in 1 .. Len(a) : a[i].name \notin NamesIn(t)
  BY <1>10
<1>13. u = t \o a
  BY <1>2 DEF a
<1>14. /\ Good(u) /\ Keeps(t, u)
       /\ \A i \in 1 .. Len(t) : u[i] = t[i]
       /\ NamesIn(u) = NamesIn(t) \cup NamesIn(a)
  BY <1>9, <1>10, <1>11, <1>12, <1>13, JoinedTable
<1>15. NamesIn(a) = S
  <2>1. NamesIn(a) = {a[i].name : i \in 1 .. Len(a)}
    BY <1>9, NamesOfTable
  <2>2. QED
    BY <1>5, <1>8, <1>9, <2>1
<1>16. ASSUME Cardinality(Missing) <= Room(t) PROVE S = Missing
  <2> SUFFICES ASSUME Cardinality(S) = Room(t) PROVE S = Missing
    BY <1>1
  <2>1. IsFiniteSet(Missing) /\ Cardinality(Missing) \in Nat
    BY <1>3, FiniteNames
  <2>2. Cardinality(S) <= Cardinality(Missing)
    BY <2>1, FS_Subset
  <2>3. Cardinality(S) = Cardinality(Missing)
    BY <1>4, <1>16, <2>1, <2>2
  <2>4. QED
    BY <2>1, <2>3, FS_Subset
<1>17. QED
  BY <1>14, <1>15, <1>16

-----------------------------------------------------------------------------
(***************************************************************************)
(* The tables of a start                                                   *)
(***************************************************************************)
LEMMA GoodRegistries ==
  /\ \A r \in Registries : GoodRegistry(r)
  /\ GoodRegistry(NoRegistry) /\ DOMAIN NoRegistry = {}
<1>1. \A r \in Registries : GoodRegistry(r)
  <2> SUFFICES ASSUME NEW r \in Registries PROVE GoodRegistry(r)
    OBVIOUS
  <2>1. PICK S \in SUBSET UserNames : r \in [S -> Entries]
    BY DEF Registries
  <2>2. \A e \in Entries : e.type \in Types /\ e.value \in Int
    BY TagStoreAssumption DEF Entries
  <2>3. QED
    BY <2>1, <2>2 DEF GoodRegistry
<1>2. DOMAIN NoRegistry = {}
  BY DEF NoRegistry
<1>3. QED
  BY <1>1, <1>2 DEF GoodRegistry

LEMMA DefaultTable ==
  ASSUME NEW t \in DefaultTables
  PROVE  Good(t) /\ NamesIn(t) = DOMAIN Defaults /\ Len(t) = Cardinality(DOMAIN Defaults)
<1>1. GoodRegistry(Defaults) /\ DOMAIN Defaults \subseteq Names
  BY GoodRegistries, TagStoreAssumption DEF GoodRegistry, UserNames
<1>2. PICK new \in SetToSeqs(DOMAIN Defaults) :
        t = Appended([n \in DOMAIN Defaults |-> Defaults[n]], new)
  BY DEF DefaultTables
<1>3. [n \in DOMAIN Defaults |-> Defaults[n]] = Defaults
  BY TagStoreAssumption DEF Registries
<1>4. t = Appended(Defaults, new)
  BY <1>2, <1>3
<1>5. /\ t \in Seq(Cells) /\ Len(t) = Cardinality(DOMAIN Defaults) /\ Distinct(t)
      /\ \A i \in 1 .. Len(t) : t[i].name \in DOMAIN Defaults
      /\ \A n \in DOMAIN Defaults : \E i \in 1 .. Len(t) : t[i].name = n
  BY <1>1, <1>4, AppendedCells
<1>6. Len(t) <= Capacity
  <2>1. DOMAIN Defaults \cup DOMAIN Ensured \subseteq Names
    BY <1>1, TagStoreAssumption
  <2>2. IsFiniteSet(DOMAIN Defaults \cup DOMAIN Ensured)
    BY <2>1, FiniteNames
  <2>3. Cardinality(DOMAIN Defaults) <= Cardinality(DOMAIN Defaults \cup DOMAIN Ensured)
    BY <2>2, FS_Subset
  <2>4. /\ Cardinality(DOMAIN Defaults) \in Nat
        /\ Cardinality(DOMAIN Defaults \cup DOMAIN Ensured) \in Nat
    BY <1>1, <2>1, FiniteNames
  <2>5. QED
    BY <1>5, <2>3, <2>4, TagStoreAssumption
<1>7. NamesIn(t) = DOMAIN Defaults
  <2>1. NamesIn(t) = {t[i].name : i \in 1 .. Len(t)}
    BY <1>5, NamesOfTable
  <2>2. QED
    BY <1>5, <2>1
<1>8. QED
  BY <1>5, <1>6, <1>7 DEF Good

\* Fits speaks of the names of the registry that the table has not yet.
LEMMA FitsIsRoom ==
  ASSUME NEW t, NEW r
  PROVE  Fits(t, r) <=> Cardinality(Fresh(t, DOMAIN r)) <= Room(t)
  BY DEF Fits, Fresh

LEMMA StartedTable ==
  ASSUME NEW f, GoodRegistry(f), NEW u \in StartedTables(f)
  PROVE  Good(u)
<1>1. PICK t \in LoadedTables(f) : u \in EnsuredTables(t)
  BY DEF StartedTables
<1>2. PICK d \in DefaultTables :
        t \in IF Loadable(f, d)
              THEN {Updated(d, f, DOMAIN f, 0) \o Appended(f, new) :
                      new \in SetToSeqs(Fresh(d, DOMAIN f))}
              ELSE {d}
  BY DEF LoadedTables
<1>3. Good(d)
  BY DefaultTable
<1>4. Good(t)
  <2>1. CASE Loadable(f, d)
    <3>1. PICK new \in SetToSeqs(Fresh(d, DOMAIN f)) :
            t = Updated(d, f, DOMAIN f, 0) \o Appended(f, new)
      BY <1>2, <2>1
    <3>2. Cardinality(Fresh(d, DOMAIN f)) <= Room(d) /\ 0 \in Int
      BY <2>1, FitsIsRoom DEF Loadable
    <3>3. QED
      BY <1>3, <3>1, <3>2, MergedTable DEF Merged
  <2>2. CASE ~Loadable(f, d)
    BY <1>2, <1>3, <2>2
  <2>3. QED
    BY <2>1, <2>2
<1>5. QED
  BY <1>1, <1>4, EnsuredTable

\* The indices of the UDP bank lead to its tags.
LEMMA BankIsValid ==
  ASSUME NEW t, Good(t)
  PROVE  /\ BankOf(t) \in [UdpNames -> -1 .. Capacity]
         /\ \A n \in UdpNames : BankOf(t)[n] # -1 =>
              BankOf(t)[n] \in DOMAIN t /\ t[BankOf(t)[n]].name = n
<1>1. DOMAIN t = 1 .. Len(t) /\ Len(t) \in Nat /\ Len(t) <= Capacity
  BY LenProperties DEF Good
<1>2. ASSUME NEW n \in UdpNames
      PROVE  /\ BankOf(t)[n] \in -1 .. Capacity
             /\ BankOf(t)[n] # -1 => BankOf(t)[n] \in DOMAIN t /\ t[BankOf(t)[n]].name = n
  <2>1. CASE \E i \in DOMAIN t : t[i].name = n
    <3>1. BankOf(t)[n] = CHOOSE i \in DOMAIN t : t[i].name = n
      BY <2>1 DEF BankOf
    <3>2. BankOf(t)[n] \in DOMAIN t /\ t[BankOf(t)[n]].name = n
      BY <2>1, <3>1
    <3>3. QED
      BY <1>1, <3>2, TagStoreAssumption
  <2>2. CASE ~\E i \in DOMAIN t : t[i].name = n
    <3>1. BankOf(t)[n] = -1
      BY <2>2 DEF BankOf
    <3>2. QED
      BY <3>1, TagStoreAssumption
  <2>3. QED
    BY <2>1, <2>2
<1>3. BankOf(t) = [n \in UdpNames |-> BankOf(t)[n]]
  BY DEF BankOf
<1>4. QED
  BY <1>2, <1>3

-----------------------------------------------------------------------------
(***************************************************************************)
(* The inductive invariant                                                 *)
(***************************************************************************)
Files == GoodRegistry(file) /\ GoodRegistry(tmp) /\ GoodRegistry(upload)

\* What UploadCheck saw is still so, but for tags that compiles declared.
CheckStillHolds ==
  web = "checked" =>
    /\ \A i \in 1 .. Len(table) :
         table[i].name \in DOMAIN upload /\ table[i].name \notin declaredSince
           => table[i].type = upload[table[i].name].type
    /\ declaredSince = {} => Fits(table, upload)

IInv == TypeOK /\ Distinct(table) /\ Files /\ ReferencesStayValid
          /\ CheckStillHolds /\ UploadTookEffect /\ PartialOnlyAfterDeclare

LEMMA InvariantIsGood ==
  IInv => Good(table) /\ DOMAIN table = 1 .. Len(table) /\ Len(table) \in Nat
  BY LenProperties DEF IInv, TypeOK, Good

LEMMA InitInvariant == Init => IInv
<1> SUFFICES ASSUME Init PROVE IInv
  OBVIOUS
<1>1. Good(table)
  BY StartedTable, GoodRegistries DEF Init
<1>2. Files
  BY GoodRegistries DEF Init, Files
<1>3. ReferencesStayValid /\ bank \in [UdpNames -> -1 .. Capacity]
  BY <1>1, BankIsValid DEF Init, ReferencesStayValid
<1>4. TypeOK
  BY <1>1, <1>3 DEF Init, TypeOK, Good
<1>5. QED
  BY <1>1, <1>2, <1>3, <1>4
     DEF Init, IInv, Good, CheckStillHolds, UploadTookEffect, PartialOnlyAfterDeclare

\* A live value that is written.
LEMMA WriteEffect ==
  ASSUME IInv, NEW i \in DOMAIN table, NEW v \in Values, WriteValue(i, v)
  PROVE  /\ Good(table') /\ Keeps(table, table')
         /\ Len(table') = Len(table) /\ NamesIn(table') = NamesIn(table)
         /\ \A j \in 1 .. Len(table) : table'[j].initial = table[j].initial
<1>1. Good(table) /\ DOMAIN table = 1 .. Len(table) /\ Len(table) \in Nat
  BY InvariantIsGood
<1>2. table' = [table EXCEPT ![i] = [table[i] EXCEPT !.value = v]]
  BY DEF WriteValue
<1>3. table[i] \in Cells /\ v \in Int
  BY <1>1, NamesOfTable, TagStoreAssumption DEF Good
<1>4. [table[i] EXCEPT !.value = v] \in Cells
  BY <1>3 DEF Cells
<1>5. /\ [table[i] EXCEPT !.value = v].name = table[i].name
      /\ [table[i] EXCEPT !.value = v].type = table[i].type
      /\ [table[i] EXCEPT !.value = v].initial = table[i].initial
  BY <1>3 DEF Cells
<1>6. table' \in Seq(Cells) /\ Len(table') = Len(table)
  BY <1>1, <1>2, <1>4, ExceptSeq DEF Good
<1>7. \A j \in 1 .. Len(table) : /\ table'[j].name = table[j].name
                                 /\ table'[j].type = table[j].type
                                 /\ table'[j].initial = table[j].initial
  BY <1>1, <1>2, <1>5
<1>8. Good(table') /\ Keeps(table, table')
  BY <1>1, <1>6, <1>7 DEF Good, Distinct, Keeps
<1>9. NamesIn(table') = NamesIn(table)
  <2>1. NamesIn(table') = {table'[j].name : j \in 1 .. Len(table')}
    BY <1>6, NamesOfTable
  <2>2. NamesIn(table) = {table[j].name : j \in 1 .. Len(table)}
    BY <1>1, NamesOfTable DEF Good
  <2>3. QED
    BY <1>6, <1>7, <2>1, <2>2
<1>10. QED
  BY <1>6, <1>7, <1>8, <1>9

\* A tag that is declared.
LEMMA DeclareEffect ==
  ASSUME IInv, NEW d \in Declarations, CompileDeclare(d)
  PROVE  /\ Good(table') /\ Keeps(table, table')
         /\ Len(table') = Len(table) + 1
         /\ \A i \in 1 .. Len(table) : table'[i] = table[i]
         /\ table'[Len(table) + 1].name = d.name
<1>1. Good(table) /\ DOMAIN table = 1 .. Len(table) /\ Len(table) \in Nat
  BY InvariantIsGood
<1> DEFINE c == Cell(d.name, d.type, d.value)
<1>2. c \in Cells /\ c.name = d.name
  BY TagStoreAssumption DEF Cell, Cells
<1> HIDE DEF c
<1>3. table' = Append(table, c) /\ d.name \notin NamesIn(table) /\ Room(table) > 0
  BY DEF CompileDeclare, c
<1>4. /\ table' \in Seq(Cells) /\ Len(table') = Len(table) + 1
      /\ \A i \in 1 .. Len(table) : table'[i] = table[i]
      /\ table'[Len(table) + 1] = c
  BY <1>1, <1>2, <1>3 DEF Good
<1>5. \A i \in 1 .. Len(table) : table[i].name # d.name
  BY <1>1, <1>3 DEF NamesIn
<1>6. Distinct(table')
  <2> SUFFICES ASSUME NEW i \in 1 .. Len(table) + 1, NEW j \in 1 .. Len(table) + 1,
                      table'[i].name = table'[j].name
               PROVE  i = j
    BY <1>4 DEF Distinct
  <2>1. \A k \in 1 .. Len(table) + 1 : k \in 1 .. Len(table) \/ k = Len(table) + 1
    BY <1>1
  <2>2. CASE i \in 1 .. Len(table) /\ j \in 1 .. Len(table)
    BY <1>1, <1>4, <2>2 DEF Good, Distinct
  <2>3. QED
    BY <1>2, <1>4, <1>5, <2>1, <2>2
<1>7. Len(table') <= Capacity
  BY <1>1, <1>3, <1>4, TagStoreAssumption DEF Room
<1>8. QED
  BY <1>1, <1>2, <1>4, <1>6, <1>7 DEF Good, Keeps

\* A merged upload, with the ensured tags.
LEMMA ApplyEffect ==
  ASSUME IInv, UploadApply
  PROVE  /\ Good(table') /\ Keeps(table, table') /\ bank' = BankOf(table')
         /\ \A n \in DOMAIN upload : \E i \in 1 .. Len(table') :
              /\ table'[i].name = n
              /\ \/ table'[i].type = upload[n].type
                    /\ table'[i].initial = Parsed(upload[n].type, upload[n].value)
                 \/ n \in declaredSince
<1>1. Good(table) /\ DOMAIN table = 1 .. Len(table) /\ Len(table) \in Nat /\ GoodRegistry(upload)
  BY InvariantIsGood DEF IInv, Files
<1>2. PICK new \in SetToSeqs(Fresh(table, DOMAIN upload)), junk \in Values :
        table' \in EnsuredTables(Updated(table, upload, DOMAIN upload, junk)
                                   \o Appended(upload, new))
  BY DEF UploadApply
<1> DEFINE u == Updated(table, upload, DOMAIN upload, junk) \o Appended(upload, new)
<1>3. junk \in Int /\ Cardinality(Fresh(table, DOMAIN upload)) <= Room(table)
  BY TagStoreAssumption DEF UploadApply
<1>4. /\ Good(u) /\ Keeps(table, u)
      /\ NamesIn(u) = NamesIn(table) \cup DOMAIN upload
      /\ \A i \in 1 .. Len(table) :
           table[i].name \in DOMAIN upload /\ table[i].type = upload[table[i].name].type
             => u[i].initial = Parsed(table[i].type, upload[table[i].name].value)
      /\ \A n \in DOMAIN upload \ NamesIn(table) : \E i \in 1 .. Len(u) :
           /\ u[i].name = n /\ u[i].type = upload[n].type
           /\ u[i].initial = Parsed(upload[n].type, upload[n].value)
  <2>1. u = Updated(table, upload, DOMAIN upload, junk) \o Appended(upload, new)
    OBVIOUS
  <2> HIDE DEF u
  <2>2. Good(table) /\ GoodRegistry(upload) /\ junk \in Int
    BY <1>1, <1>3
  <2>3. Merged(table, upload, DOMAIN upload, u)
    BY <1>3, <2>1, <2>2, MergedTable
  <2>4. QED
    BY <2>3 DEF Merged
<1>5. table' \in EnsuredTables(u)
  BY <1>2
<1> HIDE DEF u
<1>6. Good(table') /\ Keeps(u, table') /\ \A i \in 1 .. Len(u) : table'[i] = u[i]
  BY <1>4, <1>5, EnsuredTable
<1>7. Len(u) \in Nat /\ Len(table') \in Nat /\ Len(table) <= Len(u) /\ Len(u) <= Len(table')
  BY <1>4, <1>6, LenProperties DEF Good, Keeps
<1>8. Keeps(table, table')
  BY <1>1, <1>4, <1>6, <1>7 DEF Keeps
<1>9. ASSUME NEW n \in DOMAIN upload
      PROVE  \E i \in 1 .. Len(table') :
               /\ table'[i].name = n
               /\ \/ table'[i].type = upload[n].type
                     /\ table'[i].initial = Parsed(upload[n].type, upload[n].value)
                  \/ n \in declaredSince
  <2>1. CASE n \in NamesIn(table)
    <3>1. PICK i \in 1 .. Len(table) : table[i].name = n
      BY <1>1, <2>1 DEF NamesIn
    <3>2. i \in 1 .. Len(table') /\ table'[i].name = n /\ table'[i].type = table[i].type
      BY <1>1, <1>7, <1>8, <3>1 DEF Keeps
    <3>3. n \notin declaredSince => table[i].type = upload[n].type
      BY <3>1 DEF IInv, CheckStillHolds, UploadApply
    <3>4. table[i].type = upload[n].type
            => table'[i].initial = Parsed(upload[n].type, upload[n].value)
      <4>1. i \in 1 .. Len(u) /\ table'[i] = u[i]
        BY <1>1, <1>6, <1>7
      <4>2. QED
        BY <1>4, <3>1, <4>1
    <3>5. QED
      BY <3>2, <3>3, <3>4
  <2>2. CASE n \notin NamesIn(table)
    <3>1. PICK i \in 1 .. Len(u) :
            /\ u[i].name = n /\ u[i].type = upload[n].type
            /\ u[i].initial = Parsed(upload[n].type, upload[n].value)
      BY <1>4, <2>2
    <3>2. i \in 1 .. Len(table') /\ table'[i] = u[i]
      BY <1>6, <1>7
    <3>3. QED
      BY <3>1, <3>2
  <2>3. QED
    BY <2>1, <2>2
<1>10. QED
  BY <1>6, <1>8, <1>9 DEF UploadApply

\* A merge that stops halfway.
LEMMA PartialEffect ==
  ASSUME IInv, UploadAppliesPartway
  PROVE  Good(table') /\ Keeps(table, table')
<1>1. Good(table) /\ DOMAIN table = 1 .. Len(table) /\ Len(table) \in Nat /\ GoodRegistry(upload)
  BY InvariantIsGood DEF IInv, Files
<1>2. PICK done \in SUBSET DOMAIN upload, junk \in Values :
        /\ Cardinality(Fresh(table, done)) = Room(table)
        /\ \E new \in SetToSeqs(Fresh(table, done)) :
             table' = Updated(table, upload, done, junk) \o Appended(upload, new)
  BY DEF UploadAppliesPartway
<1>3. PICK new \in SetToSeqs(Fresh(table, done)) :
        table' = Updated(table, upload, done, junk) \o Appended(upload, new)
  BY <1>2
<1>4. junk \in Int /\ Cardinality(Fresh(table, done)) <= Room(table)
  BY <1>1, <1>2, TagStoreAssumption DEF Room
<1>5. QED
  BY <1>1, <1>3, <1>4, MergedTable DEF Merged

\* The table after a restart.
LEMMA RestartEffect ==
  ASSUME IInv, Restart
  PROVE  Good(table') /\ bank' = BankOf(table') /\ references' = {}
  BY StartedTable DEF IInv, Files, Restart

\* Every step leaves a good table, and but for a restart every cell keeps its
\* place, name and type.
LEMMA TableStep ==
  ASSUME IInv, [Next]_vars
  PROVE  Good(table') /\ (Restart \/ Keeps(table, table'))
<1>1. Good(table) /\ Len(table) \in Nat
  BY InvariantIsGood
<1>2. ASSUME table' = table PROVE Good(table') /\ Keeps(table, table')
  BY <1>1, <1>2 DEF Keeps
<1> USE DEF tableVars, vars
<1>3. CASE Upload
  <2>1. CASE UploadApply BY <2>1, ApplyEffect
  <2>2. CASE UploadAppliesPartway BY <2>2, PartialEffect
  <2>3. CASE ~UploadApply /\ ~UploadAppliesPartway
    <3>1. table' = table
      BY <1>3, <2>3 DEF Upload, UploadCheck, UploadReply
    <3>2. QED BY <1>2, <3>1
  <2>4. QED BY <2>1, <2>2, <2>3
<1>4. CASE Save
  BY <1>2, <1>4 DEF Save, SaveBegin, SaveWrite, SaveWriteFails, SaveUnlink,
                    SaveRename, SaveRenameFails
<1>5. CASE Compile
  <2>1. ASSUME NEW d \in Declarations, CompileDeclare(d)
        PROVE  Good(table') /\ Keeps(table, table')
    BY <2>1, DeclareEffect
  <2>2. CASE CompileBegin \/ CompileFails \/ CompileRegister
    BY <1>2, <2>2 DEF CompileBegin, CompileFails, CompileRegister
  <2>3. QED BY <1>5, <2>1, <2>2 DEF Compile
<1>6. CASE Write
  BY <1>6, WriteEffect DEF Write
<1>7. CASE Restart
  BY <1>7, RestartEffect
<1>8. CASE UNCHANGED vars
  BY <1>2, <1>8
<1>9. QED
  BY <1>3, <1>4, <1>5, <1>6, <1>7, <1>8 DEF Next

\* Addresses and indices stay valid.
LEMMA ReferencesStep ==
  ASSUME IInv, [Next]_vars
  PROVE  ReferencesStayValid' /\ bank' \in [UdpNames -> -1 .. Capacity]
           /\ references' \subseteq [cell : 1 .. Capacity, name : Names, type : Types]
<1>1. /\ Good(table) /\ DOMAIN table = 1 .. Len(table) /\ Len(table) \in Nat
      /\ Len(table) <= Capacity
  BY InvariantIsGood DEF Good
<1>2. Good(table') /\ DOMAIN table' = 1 .. Len(table') /\ Len(table') \in Nat
  BY TableStep, LenProperties DEF Good
<1>3. \/ bank' = BankOf(table')
      \/ bank' = bank /\ ~Restart
  BY DEF Next, vars, tableVars, Upload, Save, Compile, Write, UploadCheck, UploadApply,
         UploadAppliesPartway, UploadReply, SaveBegin, SaveWrite, SaveWriteFails,
         SaveUnlink, SaveRename, SaveRenameFails, CompileBegin, CompileDeclare,
         CompileFails, CompileRegister, WriteValue, Restart
<1>4. \/ references' = {}
      \/ references' = references /\ ~Restart
      \/ CompileRegister
  BY DEF Next, vars, tableVars, Upload, Save, Compile, Write, UploadCheck, UploadApply,
         UploadAppliesPartway, UploadReply, SaveBegin, SaveWrite, SaveWriteFails,
         SaveUnlink, SaveRename, SaveRenameFails, CompileBegin, CompileDeclare,
         CompileFails, WriteValue, Restart
<1>5. ~Restart => Keeps(table, table')
  BY TableStep
<1>6. /\ bank' \in [UdpNames -> -1 .. Capacity]
      /\ \A n \in UdpNames : bank'[n] # -1 =>
           bank'[n] \in DOMAIN table' /\ table'[bank'[n]].name = n
  <2>1. CASE bank' = BankOf(table')
    BY <1>2, <2>1, BankIsValid
  <2>2. CASE bank' = bank /\ ~Restart
    BY <1>1, <1>2, <1>5, <2>2 DEF Keeps, IInv, TypeOK, ReferencesStayValid
  <2>3. QED
    BY <1>3, <2>1, <2>2
<1>7. /\ references' \subseteq [cell : 1 .. Capacity, name : Names, type : Types]
      /\ \A r \in references' :
           r.cell \in DOMAIN table' /\ table'[r.cell].name = r.name
             /\ table'[r.cell].type = r.type
  <2>1. CASE references' = {}
    BY <2>1
  <2>2. CASE references' = references /\ ~Restart
    BY <1>1, <1>2, <1>5, <2>2 DEF Keeps, IInv, TypeOK, ReferencesStayValid
  <2>3. CASE CompileRegister
    <3>1. table' = table
      BY <2>3 DEF CompileRegister
    <3>2. references' = references \cup
            {[cell |-> i, name |-> table[i].name, type |-> table[i].type] :
               i \in 1 .. Len(table)}
      BY <1>1, <2>3 DEF CompileRegister
    <3>3. \A i \in 1 .. Len(table) :
            i \in 1 .. Capacity /\ table[i].name \in Names /\ table[i].type \in Types
      BY <1>1, NamesOfTable, TagStoreAssumption DEF Good
    <3>4. QED
      BY <1>1, <3>1, <3>2, <3>3 DEF IInv, TypeOK, ReferencesStayValid
  <2>4. QED
    BY <1>4, <2>1, <2>2, <2>3
<1>8. QED
  BY <1>6, <1>7 DEF ReferencesStayValid

\* The steps but those that check or merge an upload or change the table.
LEMMA OtherSteps ==
  ASSUME [Next]_vars, ~(\E registry \in Uploads : UploadCheck(registry)),
         ~UploadApply, ~UploadAppliesPartway, ~Restart, ~Write,
         ~(\E d \in Declarations : CompileDeclare(d))
  PROVE  /\ table' = table
         /\ \/ UNCHANGED <<web, uploadVars>>
            \/ web' \in {"idle", "writing", "written", "unlinked"}
  BY DEF Next, vars, tableVars, uploadVars, Upload, Save, Compile, UploadReply,
         SaveBegin, SaveWrite, SaveWriteFails, SaveUnlink, SaveRename,
         SaveRenameFails, CompileBegin, CompileFails, CompileRegister

\* What a save writes can be loaded.
LEMMA SavedIsGood ==
  ASSUME NEW t \in Seq(Cells) PROVE GoodRegistry(SavedRegistry(t))
<1>1. /\ NamesIn(t) = {t[i].name : i \in 1 .. Len(t)} /\ DOMAIN t = 1 .. Len(t)
      /\ \A i \in 1 .. Len(t) : t[i] \in Cells /\ t[i].name \in Names
  BY NamesOfTable
<1>2. DOMAIN SavedRegistry(t) = NamesIn(t) \ SystemNames
  BY DEF SavedRegistry
<1>3. ASSUME NEW n \in NamesIn(t) \ SystemNames
      PROVE  SavedRegistry(t)[n].type \in Types /\ SavedRegistry(t)[n].value \in Int
  <2> DEFINE c == CHOOSE c \in Range(t) : c.name = n
  <2>1. SavedRegistry(t)[n] = [type |-> c.type, value |-> Printed(c.type, c.initial)]
    BY DEF SavedRegistry
  <2>2. \E d \in Range(t) : d.name = n
    BY <1>1 DEF Range
  <2>3. c \in Range(t)
    BY <2>2
  <2> HIDE DEF c
  <2>4. c \in Cells
    BY <1>1, <2>3 DEF Range
  <2>5. c.type \in Types /\ c.initial \in Int
    BY <2>4 DEF Cells
  <2>6. Printed(c.type, c.initial) \in Int
    BY <2>5, PrintedIsInt
  <2>7. QED
    BY <2>1, <2>5, <2>6
<1>4. NamesIn(t) \ SystemNames \subseteq UserNames
  BY <1>1 DEF UserNames
<1>5. QED
  BY <1>2, <1>3, <1>4 DEF GoodRegistry

LEMMA FilesStep ==
  ASSUME IInv, [Next]_vars
  PROVE  Files' /\ (upload = NoRegistry \/ upload \in Uploads)'
<1>1. Files /\ (upload = NoRegistry \/ upload \in Uploads) /\ table \in Seq(Cells)
  BY DEF IInv, TypeOK
<1>2. GoodRegistry(NoRegistry) /\ GoodRegistry(SavedRegistry(table))
  BY <1>1, GoodRegistries, SavedIsGood
<1>3. \A r \in Uploads : GoodRegistry(r)
  BY GoodRegistries, TagStoreAssumption
<1>4. upload' = upload \/ upload' = NoRegistry \/ upload' \in Uploads
  BY DEF Next, vars, uploadVars, Upload, Save, Compile, Write, UploadCheck, UploadApply,
         UploadAppliesPartway, UploadReply, SaveBegin, SaveWrite, SaveWriteFails,
         SaveUnlink, SaveRename, SaveRenameFails, CompileBegin, CompileDeclare,
         CompileFails, CompileRegister, WriteValue, Restart
<1>5. /\ tmp' = tmp \/ tmp' = NoRegistry \/ tmp' = SavedRegistry(table)
      /\ file' = file \/ file' = NoRegistry \/ file' = tmp
  BY DEF Next, vars, flashVars, Upload, Save, Compile, Write, UploadCheck, UploadApply,
         UploadAppliesPartway, UploadReply, SaveBegin, SaveWrite, SaveWriteFails,
         SaveUnlink, SaveRename, SaveRenameFails, CompileBegin, CompileDeclare,
         CompileFails, CompileRegister, WriteValue, Restart
<1>6. GoodRegistry(upload') /\ GoodRegistry(tmp') /\ GoodRegistry(file')
  BY <1>1, <1>2, <1>3, <1>4, <1>5 DEF Files
<1>7. QED
  BY <1>1, <1>4, <1>6 DEF Files, GoodRegistry

LEMMA TypeStep ==
  ASSUME IInv, [Next]_vars
  PROVE  TypeOK' /\ Distinct(table)'
<1>1. Good(table')
  BY TableStep
<1>2. /\ bank' \in [UdpNames -> -1 .. Capacity]
      /\ references' \subseteq [cell : 1 .. Capacity, name : Names, type : Types]
  BY ReferencesStep
<1>3. upload' = NoRegistry \/ upload' \in Uploads
  BY FilesStep
<1>4. \A d \in Declarations : d.name \in Names
  BY TagStoreAssumption
<1>5. /\ web' \in {"idle", "checked", "accepted", "partial",
                   "writing", "written", "unlinked"}
      /\ declaredSince' \subseteq Names
      /\ compiler' \in {"idle", "declaring"}
      /\ hole' \in BOOLEAN
  BY <1>4 DEF IInv, TypeOK, Next, vars, uploadVars, flashVars, Upload, Save, Compile,
         Write, UploadCheck, UploadApply,
         UploadAppliesPartway, UploadReply, SaveBegin, SaveWrite, SaveWriteFails,
         SaveUnlink, SaveRename, SaveRenameFails, CompileBegin, CompileDeclare,
         CompileFails, CompileRegister, WriteValue, Restart
<1>6. QED
  BY <1>1, <1>2, <1>3, <1>5 DEF TypeOK, Good, Distinct

\* The check stays true until the merge, but for what compiles declare.
LEMMA CheckStep ==
  ASSUME IInv, [Next]_vars
  PROVE  CheckStillHolds'
<1>1. Good(table) /\ DOMAIN table = 1 .. Len(table) /\ Len(table) \in Nat
  BY InvariantIsGood
<1>2. ASSUME NEW registry \in Uploads, UploadCheck(registry) PROVE CheckStillHolds'
  <2>1. upload' = registry /\ table' = table /\ declaredSince' = {}
    BY <1>2 DEF UploadCheck, tableVars
  <2>2. \A i \in 1 .. Len(table) : table[i].name \in DOMAIN registry =>
          table[i].type = registry[table[i].name].type
    BY <1>1, <1>2 DEF UploadCheck, TypesAgree
  <2>3. Fits(table, registry)
    BY <1>2 DEF UploadCheck
  <2>4. QED
    BY <2>1, <2>2, <2>3 DEF CheckStillHolds, Fits, Room, NamesIn
<1>3. CASE UploadApply
  BY <1>3 DEF UploadApply, CheckStillHolds
<1>4. CASE UploadAppliesPartway
  BY <1>4 DEF UploadAppliesPartway, CheckStillHolds
<1>5. CASE Restart
  BY <1>5 DEF Restart, CheckStillHolds
<1>6. CASE Write
  <2>1. PICK i \in DOMAIN table, v \in Values : WriteValue(i, v)
    BY <1>6 DEF Write
  <2>2. /\ Len(table') = Len(table) /\ NamesIn(table') = NamesIn(table)
        /\ \A j \in 1 .. Len(table) :
             table'[j].name = table[j].name /\ table'[j].type = table[j].type
    BY <2>1, WriteEffect DEF Keeps
  <2>3. web' = web /\ upload' = upload /\ declaredSince' = declaredSince
    BY <2>1 DEF WriteValue, uploadVars
  <2>4. Fits(table, upload) => Fits(table, upload)'
    BY <2>2, <2>3 DEF Fits, Room, NamesIn
  <2>5. QED
    BY <2>2, <2>3, <2>4 DEF IInv, CheckStillHolds
<1>7. ASSUME NEW d \in Declarations, CompileDeclare(d) PROVE CheckStillHolds'
  <2>1. /\ Len(table') = Len(table) + 1
        /\ \A i \in 1 .. Len(table) : table'[i] = table[i]
        /\ table'[Len(table) + 1].name = d.name
    BY <1>7, DeclareEffect
  <2>2. web' = web /\ upload' = upload
    BY <1>7 DEF CompileDeclare
  <2>3. web = "checked" => declaredSince' = declaredSince \cup {d.name}
    BY <1>7 DEF CompileDeclare
  <2>4. \A i \in 1 .. Len(table) + 1 : i \in 1 .. Len(table) \/ i = Len(table) + 1
    BY <1>1
  <2>5. QED
    BY <2>1, <2>2, <2>3, <2>4 DEF IInv, CheckStillHolds
<1>8. CASE /\ table' = table
           /\ \/ UNCHANGED <<web, uploadVars>>
              \/ web' \in {"idle", "writing", "written", "unlinked"}
  BY <1>8 DEF IInv, CheckStillHolds, uploadVars, Fits, Room, NamesIn
<1>9. QED
  BY <1>2, <1>3, <1>4, <1>5, <1>6, <1>7, <1>8, OtherSteps

\* An upload that was merged stays in the table until it is answered.
LEMMA EffectStep ==
  ASSUME IInv, [Next]_vars
  PROVE  UploadTookEffect'
<1>1. Good(table) /\ DOMAIN table = 1 .. Len(table) /\ Len(table) \in Nat
  BY InvariantIsGood
<1>2. Good(table') /\ DOMAIN table' = 1 .. Len(table') /\ Len(table') \in Nat
  BY TableStep, LenProperties DEF Good
<1>3. ASSUME NEW registry \in Uploads, UploadCheck(registry) PROVE UploadTookEffect'
  BY <1>3 DEF UploadCheck, UploadTookEffect
<1>4. CASE UploadApply
  <2>1. upload' = upload /\ declaredSince' = declaredSince
    BY <1>4 DEF UploadApply, uploadVars
  <2>2. \A n \in DOMAIN upload : \E i \in 1 .. Len(table') :
          /\ table'[i].name = n
          /\ \/ table'[i].type = upload[n].type
                /\ table'[i].initial = Parsed(upload[n].type, upload[n].value)
             \/ n \in declaredSince
    BY <1>4, ApplyEffect
  <2>3. QED
    BY <1>2, <2>1, <2>2 DEF UploadTookEffect
<1>5. CASE UploadAppliesPartway
  BY <1>5 DEF UploadAppliesPartway, UploadTookEffect
<1>6. CASE Restart
  BY <1>6 DEF Restart, UploadTookEffect
<1>7. ASSUME UNCHANGED <<web, uploadVars>>, Len(table) <= Len(table'),
             \A j \in 1 .. Len(table) : /\ table'[j].name = table[j].name
                                        /\ table'[j].type = table[j].type
                                        /\ table'[j].initial = table[j].initial
      PROVE  UploadTookEffect'
  <2>1. \A j \in 1 .. Len(table) : j \in 1 .. Len(table')
    BY <1>1, <1>2, <1>7
  <2>2. SUFFICES ASSUME web = "accepted", NEW n \in DOMAIN upload
                 PROVE  \E i \in DOMAIN table' :
                          /\ table'[i].name = n
                          /\ \/ table'[i].type = upload[n].type
                                /\ table'[i].initial = Parsed(upload[n].type, upload[n].value)
                             \/ n \in declaredSince
    BY <1>7 DEF UploadTookEffect, uploadVars
  <2>3. PICK i \in 1 .. Len(table) :
          /\ table[i].name = n
          /\ \/ table[i].type = upload[n].type
                /\ table[i].initial = Parsed(upload[n].type, upload[n].value)
             \/ n \in declaredSince
    BY <1>1, <2>2 DEF IInv, UploadTookEffect
  <2>4. QED
    BY <1>2, <1>7, <2>1, <2>3
<1>8. CASE Write
  <2>1. PICK i \in DOMAIN table, v \in Values : WriteValue(i, v)
    BY <1>8 DEF Write
  <2>2. UNCHANGED <<web, uploadVars>>
    BY <2>1 DEF WriteValue
  <2>3. QED
    BY <1>1, <1>7, <2>1, <2>2, WriteEffect DEF Keeps
<1>9. ASSUME NEW d \in Declarations, CompileDeclare(d) PROVE UploadTookEffect'
  <2>1. CASE web = "checked"
    BY <1>9, <2>1 DEF CompileDeclare, UploadTookEffect
  <2>2. CASE web # "checked"
    <3>1. UNCHANGED <<web, uploadVars>>
      BY <1>9, <2>2 DEF CompileDeclare, uploadVars
    <3>2. QED
      BY <1>1, <1>7, <1>9, <3>1, DeclareEffect
  <2>3. QED
    BY <2>1, <2>2
<1>10. CASE /\ table' = table
            /\ \/ UNCHANGED <<web, uploadVars>>
               \/ web' \in {"idle", "writing", "written", "unlinked"}
  <2>1. CASE UNCHANGED <<web, uploadVars>>
    BY <1>1, <1>7, <1>10, <2>1
  <2>2. CASE web' \in {"idle", "writing", "written", "unlinked"}
    BY <2>2 DEF UploadTookEffect
  <2>3. QED
    BY <1>10, <2>1, <2>2
<1>11. QED
  BY <1>3, <1>4, <1>5, <1>6, <1>8, <1>9, <1>10, OtherSteps

\* A merge that was checked has room, unless a compile took it.
LEMMA PartialStep ==
  ASSUME IInv, [Next]_vars
  PROVE  PartialOnlyAfterDeclare'
<1>1. Good(table) /\ Len(table) \in Nat /\ GoodRegistry(upload)
  BY InvariantIsGood DEF IInv, Files
<1>2. CASE UploadAppliesPartway
  <2>1. Cardinality(Fresh(table, DOMAIN upload)) > Room(table) /\ web = "checked"
    BY <1>2 DEF UploadAppliesPartway
  <2>2. Cardinality(Fresh(table, DOMAIN upload)) \in Nat
    BY <1>1, FiniteNames DEF Fresh, GoodRegistry, UserNames
  <2>3. Room(table) \in Int
    BY <1>1, TagStoreAssumption DEF Room
  <2>4. ~Fits(table, upload)
    BY <2>1, <2>2, <2>3, FitsIsRoom
  <2>5. declaredSince # {}
    BY <2>1, <2>4 DEF IInv, CheckStillHolds
  <2>6. QED
    BY <1>2, <2>5 DEF UploadAppliesPartway, uploadVars, PartialOnlyAfterDeclare
<1>3. ASSUME NEW registry \in Uploads, UploadCheck(registry) PROVE PartialOnlyAfterDeclare'
  BY <1>3 DEF UploadCheck, PartialOnlyAfterDeclare
<1>4. CASE UploadApply \/ Restart
  BY <1>4 DEF UploadApply, Restart, PartialOnlyAfterDeclare
<1>5. CASE Write
  BY <1>5 DEF Write, WriteValue, uploadVars, IInv, PartialOnlyAfterDeclare
<1>6. ASSUME NEW d \in Declarations, CompileDeclare(d) PROVE PartialOnlyAfterDeclare'
  BY <1>6 DEF CompileDeclare, IInv, PartialOnlyAfterDeclare
<1>7. CASE \/ UNCHANGED <<web, uploadVars>>
           \/ web' \in {"idle", "writing", "written", "unlinked"}
  BY <1>7 DEF uploadVars, IInv, PartialOnlyAfterDeclare
<1>8. QED
  BY <1>2, <1>3, <1>4, <1>5, <1>6, <1>7, OtherSteps

LEMMA Inductive == IInv /\ [Next]_vars => IInv'
<1> SUFFICES ASSUME IInv, [Next]_vars PROVE IInv'
  OBVIOUS
<1>1. TypeOK' /\ Distinct(table)'
  BY TypeStep
<1>2. ReferencesStayValid'
  BY ReferencesStep
<1>3. QED
  BY <1>1, <1>2, FilesStep, CheckStep, EffectStep, PartialStep DEF IInv

LEMMA SpecInvariant == Spec => []IInv
<1>1. Init => IInv
  BY InitInvariant
<1>2. IInv /\ [Next]_vars => IInv'
  BY Inductive
<1>3. QED
  BY <1>1, <1>2, PTL DEF Spec

-----------------------------------------------------------------------------
(***************************************************************************)
(* The theorems                                                            *)
(***************************************************************************)
\* The table, the references, the bank and the tasks keep their types, and the
\* table never outgrows PLC_TAG_MAX_COUNT.
THEOREM TypeCorrect == Spec => []TypeOK
<1>1. IInv => TypeOK
  BY DEF IInv
<1>2. QED
  BY <1>1, SpecInvariant, PTL

\* However uploads, compiles, saves and restarts interleave, a name has one
\* cell.
THEOREM NamesAreUnique == Spec => []OneCellPerName
<1>1. IInv => OneCellPerName
  BY InvariantIsGood DEF IInv, OneCellPerName, Distinct
<1>2. QED
  BY <1>1, SpecInvariant, PTL

\* The addresses of script engines and the indices of the UDP bank lead to the
\* cells they were taken from.
THEOREM ReferencesAreValid == Spec => []ReferencesStayValid
<1>1. IInv => ReferencesStayValid
  BY DEF IInv
<1>2. QED
  BY <1>1, SpecInvariant, PTL

\* An upload that was answered with OK is in the table.
THEOREM UploadsTakeEffect == Spec => []UploadTookEffect
<1>1. IInv => UploadTookEffect
  BY DEF IInv
<1>2. QED
  BY <1>1, SpecInvariant, PTL

\* A merge stops halfway only if a compile declared tags after its check.
THEOREM PartialHasCause == Spec => []PartialOnlyAfterDeclare
<1>1. IInv => PartialOnlyAfterDeclare
  BY DEF IInv
<1>2. QED
  BY <1>1, SpecInvariant, PTL

-----------------------------------------------------------------------------
(***************************************************************************)
(* Proof that a completed save survives a restart (SavedTagsRestored).     *)
(*                                                                         *)
(* A file loads if its types agree with the default tags and if there is   *)
(* room.  Both follow from where it comes from: it was saved from a table  *)
(* that held every default and every ensured tag (Complete), so that file, *)
(* defaults and ensured tags together were one table's names.              *)
(***************************************************************************)
HasDefaults(t) ==
  /\ DOMAIN Defaults \subseteq NamesIn(t)
  /\ \A i \in 1 .. Len(t) : t[i].name \in DOMAIN Defaults =>
       t[i].type = Defaults[t[i].name].type

\* What every table holds from the start on.
Complete(t) == HasDefaults(t) /\ DOMAIN Ensured \subseteq NamesIn(t)

FirmwareNames == DOMAIN Defaults \cup DOMAIN Ensured

\* A file that the types and the number of its tags let load.
Loads(f) ==
  /\ \A n \in DOMAIN f \cap DOMAIN Defaults : f[n].type = Defaults[n].type
  /\ Cardinality(DOMAIN f \cup FirmwareNames) <= Capacity

\* A file that was written from what "durable" remembers.
Prints(f, d) ==
  /\ DOMAIN f = DOMAIN d
  /\ \A n \in DOMAIN d : /\ f[n].type = d[n].type
                         /\ f[n].value = Printed(d[n].type, d[n].value)
                         /\ d[n].value \in Int

-----------------------------------------------------------------------------
(***************************************************************************)
(* Counting names                                                          *)
(***************************************************************************)
\* A table has as many names as cells.
LEMMA CountNames ==
  ASSUME NEW t, Good(t)
  PROVE  /\ IsFiniteSet(NamesIn(t)) /\ NamesIn(t) \subseteq Names
         /\ Cardinality(NamesIn(t)) = Len(t) /\ Len(t) \in Nat
<1>1. /\ NamesIn(t) = {t[i].name : i \in 1 .. Len(t)} /\ Len(t) \in Nat
      /\ \A i \in 1 .. Len(t) : t[i].name \in Names
  BY NamesOfTable DEF Good
<1> DEFINE f == [i \in 1 .. Len(t) |-> t[i].name]
<1>2. f \in [1 .. Len(t) -> NamesIn(t)] /\ \A i \in 1 .. Len(t) : f[i] = t[i].name
  BY <1>1
<1> HIDE DEF f
<1>3. f \in Injection(1 .. Len(t), NamesIn(t))
  BY <1>2 DEF Injection, IsInjective, Good, Distinct
<1>4. f \in Surjection(1 .. Len(t), NamesIn(t))
  BY <1>1, <1>2 DEF Surjection
<1>5. IsFiniteSet(1 .. Len(t)) /\ Cardinality(1 .. Len(t)) = Len(t)
  <2>1. 1 \in Int /\ Len(t) \in Int
    BY <1>1
  <2>2. /\ IsFiniteSet(1 .. Len(t))
        /\ Cardinality(1 .. Len(t)) = IF 1 > Len(t) THEN 0 ELSE Len(t) - 1 + 1
    BY <2>1, FS_Interval
  <2>3. QED
    BY <1>1, <2>2
<1>6. Cardinality(NamesIn(t)) = Cardinality(1 .. Len(t)) /\ IsFiniteSet(NamesIn(t))
  BY <1>3, <1>4, <1>5, FS_Surjection
<1>7. QED
  BY <1>1, <1>5, <1>6

\* Names that fit a table's names in number find room behind its cells.
LEMMA RoomForNames ==
  ASSUME NEW t, Good(t), NEW S, S \subseteq Names,
         Cardinality(NamesIn(t) \cup S) <= Capacity
  PROVE  Cardinality(S \ NamesIn(t)) <= Room(t)
<1> DEFINE N == NamesIn(t)
           D == S \ NamesIn(t)
<1>1. IsFiniteSet(N) /\ N \subseteq Names /\ Cardinality(N) = Len(t) /\ Len(t) \in Nat
  BY CountNames
<1>2. IsFiniteSet(D) /\ Cardinality(D) \in Nat
  BY FiniteNames
<1>3. N \cup S = N \cup D /\ N \cap D = {}
  OBVIOUS
<1>4. Cardinality(N \cup D) <= Capacity
  BY <1>3, Zenon
<1> HIDE DEF N, D
<1>5. Cardinality(N \cup D) = Cardinality(N) + Cardinality(D) - Cardinality(N \cap D)
  BY <1>1, <1>2, FS_Union
<1>6. Cardinality(N \cap D) = 0
  BY <1>3, FS_EmptySet
<1>7. Cardinality(D) <= Capacity - Len(t)
  BY <1>1, <1>2, <1>5, <1>6, <1>4, TagStoreAssumption
<1>8. QED
  BY <1>7 DEF Room, D

LEMMA FirmwareIsNames == FirmwareNames \subseteq Names
  BY GoodRegistries, TagStoreAssumption DEF FirmwareNames, GoodRegistry, UserNames

\* Fewer names than fit, fit.
LEMMA FewerNames ==
  ASSUME NEW S, NEW T, S \subseteq T, T \subseteq Names, Cardinality(T) <= Capacity
  PROVE  Cardinality(S) <= Capacity
<1>1. IsFiniteSet(T) /\ Cardinality(T) \in Nat /\ Cardinality(S) \in Nat
  BY FiniteNames
<1>2. Cardinality(S) <= Cardinality(T)
  BY <1>1, FS_Subset
<1>3. QED
  BY <1>1, <1>2, TagStoreAssumption

-----------------------------------------------------------------------------
(***************************************************************************)
(* Completeness                                                            *)
(***************************************************************************)
LEMMA KeepsDefaults ==
  ASSUME NEW t, NEW u, Good(t), Good(u), HasDefaults(t), Keeps(t, u)
  PROVE  HasDefaults(u) /\ NamesIn(t) \subseteq NamesIn(u)
<1>1. /\ NamesIn(t) = {t[i].name : i \in 1 .. Len(t)} /\ Len(t) \in Nat
      /\ NamesIn(u) = {u[i].name : i \in 1 .. Len(u)} /\ Len(u) \in Nat
  BY NamesOfTable DEF Good
<1>2. \A i \in 1 .. Len(t) : i \in 1 .. Len(u) /\ u[i].name = t[i].name
                               /\ u[i].type = t[i].type
  BY <1>1 DEF Keeps
<1>3. NamesIn(t) \subseteq NamesIn(u)
  BY <1>1, <1>2
<1>4. ASSUME NEW i \in 1 .. Len(u), u[i].name \in DOMAIN Defaults
      PROVE  u[i].type = Defaults[u[i].name].type
  <2>1. PICK k \in 1 .. Len(t) : t[k].name = u[i].name
    BY <1>1, <1>4 DEF HasDefaults
  <2>2. k = i
    BY <1>2, <2>1 DEF Good, Distinct
  <2>3. QED
    BY <1>2, <1>4, <2>1, <2>2 DEF HasDefaults
<1>5. QED
  BY <1>3, <1>4 DEF HasDefaults

LEMMA DefaultTableHasDefaults ==
  ASSUME NEW t \in DefaultTables PROVE HasDefaults(t)
<1>1. GoodRegistry(Defaults)
  BY GoodRegistries, TagStoreAssumption
<1>2. PICK new \in SetToSeqs(DOMAIN Defaults) :
        t = Appended([n \in DOMAIN Defaults |-> Defaults[n]], new)
  BY DEF DefaultTables
<1>3. [n \in DOMAIN Defaults |-> Defaults[n]] = Defaults
  BY TagStoreAssumption DEF Registries
<1>4. t = Appended(Defaults, new)
  BY <1>2, <1>3
<1>5. /\ Distinct(t)
      /\ \A n \in DOMAIN Defaults : \E i \in 1 .. Len(t) :
           t[i].name = n /\ t[i].type = Defaults[n].type
  BY <1>1, <1>4, AppendedCells
<1>6. \A i \in 1 .. Len(t) : t[i].name \in DOMAIN Defaults =>
        t[i].type = Defaults[t[i].name].type
  BY <1>5 DEF Distinct
<1>7. NamesIn(t) = DOMAIN Defaults
  BY DefaultTable
<1>8. QED
  BY <1>6, <1>7 DEF HasDefaults

\* Every start from a file that loads leaves a complete table, and finds in it
\* what the file says, as far as reading keeps it.
LEMMA StartIsComplete ==
  ASSUME NEW f, GoodRegistry(f), Loads(f), NEW u \in StartedTables(f)
  PROVE  /\ Complete(u)
         /\ f # NoRegistry /\ Cardinality(DOMAIN f) < LoadLimit =>
              \A n \in DOMAIN f : \E i \in 1 .. Len(u) :
                /\ u[i].name = n /\ u[i].type = f[n].type
                /\ u[i].initial = Parsed(f[n].type, f[n].value)
<1>1. PICK t \in LoadedTables(f) : u \in EnsuredTables(t)
  BY DEF StartedTables
<1>2. PICK d \in DefaultTables :
        t \in IF Loadable(f, d)
              THEN {Updated(d, f, DOMAIN f, 0) \o Appended(f, new) :
                      new \in SetToSeqs(Fresh(d, DOMAIN f))}
              ELSE {d}
  BY DEF LoadedTables
<1>3. Good(d) /\ HasDefaults(d) /\ NamesIn(d) = DOMAIN Defaults
  BY DefaultTable, DefaultTableHasDefaults
<1>4. DOMAIN d = 1 .. Len(d) /\ Len(d) \in Nat
  BY <1>3, NamesOfTable DEF Good
<1>5. DOMAIN f \cup FirmwareNames \subseteq Names /\ DOMAIN f \subseteq Names
  BY FirmwareIsNames DEF GoodRegistry, UserNames
<1>6. TypesAgree(d, f)
  <2>1. \A i \in 1 .. Len(d) : d[i].name \in DOMAIN Defaults
    BY <1>3, <1>4 DEF NamesIn
  <2>2. QED
    BY <1>3, <1>4, <2>1 DEF TypesAgree, HasDefaults, Loads
<1>7. Fits(d, f)
  <2>1. NamesIn(d) \cup DOMAIN f \subseteq DOMAIN f \cup FirmwareNames
    BY <1>3 DEF FirmwareNames
  <2>2. Cardinality(NamesIn(d) \cup DOMAIN f) <= Capacity
    BY <1>5, <2>1, FewerNames DEF Loads
  <2>3. QED
    BY <1>3, <1>5, <2>2, RoomForNames DEF Fits
<1>8. ASSUME Loadable(f, d) PROVE Merged(d, f, DOMAIN f, t)
  <2>1. PICK new \in SetToSeqs(Fresh(d, DOMAIN f)) :
          t = Updated(d, f, DOMAIN f, 0) \o Appended(f, new)
    BY <1>2, <1>8
  <2>2. Cardinality(Fresh(d, DOMAIN f)) <= Room(d) /\ 0 \in Int
    BY <1>7, FitsIsRoom
  <2>3. QED
    BY <1>3, <2>1, <2>2, MergedTable
<1>9. ~Loadable(f, d) => t = d
  BY <1>2
<1>10. /\ Good(t) /\ HasDefaults(t)
       /\ NamesIn(t) \subseteq DOMAIN f \cup FirmwareNames
  <2>1. CASE Loadable(f, d)
    <3>1. Good(t) /\ Keeps(d, t) /\ NamesIn(t) = NamesIn(d) \cup DOMAIN f
      BY <1>8, <2>1 DEF Merged
    <3>2. HasDefaults(t)
      BY <1>3, <3>1, KeepsDefaults
    <3>3. QED
      BY <1>3, <3>1, <3>2 DEF FirmwareNames
  <2>2. CASE ~Loadable(f, d)
    BY <1>3, <1>9, <2>2 DEF FirmwareNames
  <2>3. QED
    BY <2>1, <2>2
<1>11. Cardinality(DOMAIN Ensured \ NamesIn(t)) <= Room(t)
  <2>1. NamesIn(t) \cup DOMAIN Ensured \subseteq DOMAIN f \cup FirmwareNames
    BY <1>10 DEF FirmwareNames
  <2>2. Cardinality(NamesIn(t) \cup DOMAIN Ensured) <= Capacity
    BY <1>5, <2>1, FewerNames DEF Loads
  <2>3. DOMAIN Ensured \subseteq Names
    BY FirmwareIsNames DEF FirmwareNames
  <2>4. QED
    BY <1>10, <2>2, <2>3, RoomForNames
<1>12. /\ Good(u) /\ Keeps(t, u)
       /\ \A i \in 1 .. Len(t) : u[i] = t[i]
       /\ NamesIn(u) = NamesIn(t) \cup DOMAIN Ensured
  BY <1>1, <1>10, <1>11, EnsuredTable
<1>13. Complete(u)
  BY <1>10, <1>12, KeepsDefaults DEF Complete
<1>14. ASSUME f # NoRegistry, Cardinality(DOMAIN f) < LoadLimit, NEW n \in DOMAIN f
       PROVE  \E i \in 1 .. Len(u) :
                /\ u[i].name = n /\ u[i].type = f[n].type
                /\ u[i].initial = Parsed(f[n].type, f[n].value)
  <2>1. Merged(d, f, DOMAIN f, t)
    BY <1>6, <1>7, <1>8, <1>14 DEF Loadable
  <2>2. \E i \in 1 .. Len(t) :
          /\ t[i].name = n /\ t[i].type = f[n].type
          /\ t[i].initial = Parsed(f[n].type, f[n].value)
    <3>1. CASE n \in NamesIn(d)
      <4>1. PICK i \in 1 .. Len(d) : d[i].name = n
        BY <1>4, <3>1 DEF NamesIn
      <4>2. d[i].type = f[n].type
        BY <1>4, <1>6, <1>14, <4>1 DEF TypesAgree
      <4>3. t[i].initial = Parsed(f[n].type, f[n].value)
        BY <1>14, <2>1, <4>1, <4>2 DEF Merged
      <4>4. Len(t) \in Nat
        BY <1>10, CountNames
      <4>5. i \in 1 .. Len(t) /\ t[i].name = n /\ t[i].type = f[n].type
        BY <1>4, <2>1, <4>1, <4>2, <4>4 DEF Merged, Keeps
      <4>6. QED
        BY <4>3, <4>5
    <3>2. CASE n \notin NamesIn(d)
      BY <1>14, <2>1, <3>2 DEF Merged
    <3>3. QED
      BY <3>1, <3>2
  <2>3. Len(t) \in Nat /\ Len(u) \in Nat /\ Len(t) <= Len(u)
    BY <1>10, <1>12, CountNames DEF Keeps
  <2>4. QED
    BY <1>12, <2>2, <2>3
<1>15. QED
  BY <1>13, <1>14

\* What a save writes from a complete table loads.
LEMMA SavedLoads ==
  ASSUME NEW t, Good(t), Complete(t)
  PROVE  Loads(SavedRegistry(t))
<1>1. /\ NamesIn(t) = {t[i].name : i \in 1 .. Len(t)} /\ DOMAIN t = 1 .. Len(t)
  BY NamesOfTable DEF Good
<1>2. DOMAIN SavedRegistry(t) = NamesIn(t) \ SystemNames
  BY DEF SavedRegistry
<1>3. ASSUME NEW n \in DOMAIN SavedRegistry(t) \cap DOMAIN Defaults
      PROVE  SavedRegistry(t)[n].type = Defaults[n].type
  <2> DEFINE c == CHOOSE c \in Range(t) : c.name = n
  <2>1. SavedRegistry(t)[n] = [type |-> c.type, value |-> Printed(c.type, c.initial)]
    BY <1>2 DEF SavedRegistry
  <2>2. \E e \in Range(t) : e.name = n
    BY <1>1, <1>2 DEF Range
  <2>3. c \in Range(t) /\ c.name = n
    BY <2>2
  <2> HIDE DEF c
  <2>4. c.type = Defaults[n].type
    BY <1>1, <1>3, <2>3 DEF Range, Complete, HasDefaults
  <2>5. QED
    BY <2>1, <2>4
<1>4. DOMAIN SavedRegistry(t) \cup FirmwareNames \subseteq NamesIn(t)
  BY <1>2 DEF Complete, HasDefaults, FirmwareNames
<1>5. Cardinality(NamesIn(t)) <= Capacity /\ NamesIn(t) \subseteq Names
  BY CountNames DEF Good
<1>6. QED
  BY <1>3, <1>4, <1>5, FewerNames DEF Loads

\* What reading and printing leave alone.
LEMMA BoolIsKept ==
  ASSUME NEW v
  PROVE  Parsed("bool", v) = v /\ Printed("bool", v) = v
<1> DEFINE magnitude == IF v < 0 THEN -v ELSE v
<1> DEFINE rounded == IF magnitude <= 16777216 \/ magnitude % 2 = 0 THEN magnitude
                      ELSE IF magnitude % 4 = 1 THEN magnitude - 1
                      ELSE magnitude + 1
<1> DEFINE short == v > -1000000 /\ v < 1000000
<1> DEFINE unit == IF v > -10000000 /\ v < 10000000 THEN 10 ELSE 100
<1> DEFINE cut == ((v + unit \div 2) \div unit) * unit
<1>1. Parsed("bool", v) = IF "bool" = "bool" THEN v ELSE IF v < 0 THEN -rounded ELSE rounded
  BY DEF Parsed
<1>2. Printed("bool", v) = IF "bool" # "float" \/ short THEN v ELSE cut
  BY DEF Printed
<1> HIDE DEF rounded, short, cut
<1>3. QED
  BY <1>1, <1>2

LEMMA SmallIsRead ==
  ASSUME NEW type, NEW v \in Int, v >= -16777216, v <= 16777216
  PROVE  Parsed(type, v) = v
<1> DEFINE magnitude == IF v < 0 THEN -v ELSE v
<1> DEFINE rounded == IF magnitude <= 16777216 \/ magnitude % 2 = 0 THEN magnitude
                      ELSE IF magnitude % 4 = 1 THEN magnitude - 1
                      ELSE magnitude + 1
<1>1. magnitude <= 16777216
  OBVIOUS
<1>2. rounded = magnitude
  <2> HIDE DEF magnitude
  <2> QED
    BY <1>1
<1> HIDE DEF rounded
<1>3. Parsed(type, v) = IF type = "bool" THEN v ELSE IF v < 0 THEN -rounded ELSE rounded
  BY DEF Parsed, rounded, magnitude
<1>4. QED
  BY <1>2, <1>3

\* Reading gives back what was printed, within what both keep.
LEMMA ReadBack ==
  ASSUME NEW type \in Types, NEW v \in Int, Exact(type, v)
  PROVE  Parsed(type, Printed(type, v)) = v
<1>1. CASE type = "bool"
  BY <1>1, BoolIsKept
<1>2. CASE type = "int"
  <2>1. v >= -16777216 /\ v <= 16777216
    BY <1>2 DEF Exact
  <2>2. Printed(type, v) = v
    BY <1>2 DEF Printed
  <2>3. QED
    BY <2>1, <2>2, SmallIsRead
<1>3. CASE type = "float"
  <2>1. v > -1000000 /\ v < 1000000
    BY <1>3 DEF Exact
  <2>2. Printed(type, v) = v
    BY <2>1 DEF Printed
  <2>3. v >= -16777216 /\ v <= 16777216
    BY <2>1
  <2>4. QED
    BY <2>2, <2>3, SmallIsRead
<1>4. QED
  BY <1>1, <1>2, <1>3 DEF Types

-----------------------------------------------------------------------------
(***************************************************************************)
(* The invariant                                                           *)
(***************************************************************************)
\* The table does not change between what is written and the rename.
WrittenIsSaved == web \in {"written", "unlinked"} => tmp = SavedRegistry(table)

FileIsDurable == hole \/ durable = NoRegistry \/ Prints(file, durable)

RInv == IInv /\ Complete(table) /\ Loads(file) /\ Loads(tmp)
          /\ WrittenIsSaved /\ FileIsDurable

LEMMA NoRegistryLoads == Loads(NoRegistry) /\ GoodRegistry(NoRegistry)
<1>1. DOMAIN NoRegistry = {} /\ GoodRegistry(NoRegistry)
  BY GoodRegistries
<1>2. DOMAIN NoRegistry \cup FirmwareNames = FirmwareNames
  BY <1>1
<1>3. QED
  BY <1>1, <1>2, TagStoreAssumption DEF Loads, FirmwareNames

LEMMA InitRInv == Init => RInv
<1> SUFFICES ASSUME Init PROVE RInv
  OBVIOUS
<1>1. IInv
  BY InitInvariant
<1>2. Complete(table)
  BY NoRegistryLoads, StartIsComplete DEF Init
<1>3. Loads(file) /\ Loads(tmp)
  BY NoRegistryLoads DEF Init
<1>4. QED
  BY <1>1, <1>2, <1>3 DEF Init, RInv, WrittenIsSaved, FileIsDurable

LEMMA CompleteStep ==
  ASSUME RInv, [Next]_vars
  PROVE  Complete(table')
<1>1. IInv /\ Complete(table)
  BY DEF RInv
<1>2. CASE Restart
  <2>1. GoodRegistry(file) /\ Loads(file) /\ table' \in StartedTables(file)
    BY <1>2 DEF RInv, IInv, Files, Restart
  <2>2. QED
    BY <2>1, StartIsComplete
<1>3. CASE ~Restart
  <2>1. Good(table) /\ Good(table') /\ Keeps(table, table')
    BY <1>1, <1>3, TableStep, InvariantIsGood
  <2>2. HasDefaults(table') /\ NamesIn(table) \subseteq NamesIn(table')
    BY <1>1, <2>1, KeepsDefaults DEF Complete
  <2>3. QED
    BY <1>1, <2>2 DEF Complete
<1>4. QED
  BY <1>2, <1>3

LEMMA LoadsStep ==
  ASSUME RInv, [Next]_vars
  PROVE  Loads(file') /\ Loads(tmp')
<1>1. Loads(file) /\ Loads(tmp) /\ Good(table) /\ Complete(table)
  BY InvariantIsGood DEF RInv
<1>2. Loads(NoRegistry) /\ Loads(SavedRegistry(table))
  BY <1>1, NoRegistryLoads, SavedLoads
<1>3. /\ tmp' = tmp \/ tmp' = NoRegistry \/ tmp' = SavedRegistry(table)
      /\ file' = file \/ file' = NoRegistry \/ file' = tmp
  BY DEF Next, vars, flashVars, Upload, Save, Compile, Write, UploadCheck, UploadApply,
         UploadAppliesPartway, UploadReply, SaveBegin, SaveWrite, SaveWriteFails,
         SaveUnlink, SaveRename, SaveRenameFails, CompileBegin, CompileDeclare,
         CompileFails, CompileRegister, WriteValue, Restart
<1>4. QED
  BY <1>1, <1>2, <1>3

LEMMA WrittenStep ==
  ASSUME RInv, [Next]_vars
  PROVE  WrittenIsSaved'
<1>1. WrittenIsSaved
  BY DEF RInv
<1>2. CASE Save
  BY <1>1, <1>2 DEF Save, SaveBegin, SaveWrite, SaveWriteFails, SaveUnlink, SaveRename,
                    SaveRenameFails, tableVars, WrittenIsSaved, SavedRegistry, NamesIn
<1>3. ASSUME web' \notin {"written", "unlinked"} PROVE WrittenIsSaved'
  BY <1>3 DEF WrittenIsSaved
<1>4. ASSUME table' = table, tmp' = tmp, web' = web PROVE WrittenIsSaved'
  BY <1>1, <1>4 DEF WrittenIsSaved, SavedRegistry, NamesIn
<1>5. CASE Upload \/ Restart
  <2>1. web' \notin {"written", "unlinked"}
    BY <1>5 DEF Upload, UploadCheck, UploadApply, UploadAppliesPartway, UploadReply,
                Restart
  <2>2. QED
    BY <1>3, <2>1
<1>6. CASE Write
  <2>1. web' = web /\ ~Saving
    BY <1>6 DEF Write, WriteValue
  <2>2. QED
    BY <1>3, <2>1 DEF Saving
<1>7. CASE Compile
  <2>1. ASSUME NEW d \in Declarations, CompileDeclare(d) PROVE WrittenIsSaved'
    <3>1. web' = web /\ ~Saving
      BY <2>1 DEF CompileDeclare
    <3>2. QED
      BY <1>3, <3>1 DEF Saving
  <2>2. CASE CompileBegin \/ CompileFails \/ CompileRegister
    <3>1. table' = table /\ tmp' = tmp /\ web' = web
      BY <2>2 DEF CompileBegin, CompileFails, CompileRegister, tableVars, flashVars
    <3>2. QED
      BY <1>4, <3>1
  <2>3. QED
    BY <1>7, <2>1, <2>2 DEF Compile
<1>8. CASE UNCHANGED vars
  BY <1>4, <1>8 DEF vars, tableVars, flashVars
<1>9. QED
  BY <1>2, <1>5, <1>6, <1>7, <1>8 DEF Next

LEMMA DurableStep ==
  ASSUME RInv, [Next]_vars
  PROVE  FileIsDurable'
<1>1. FileIsDurable
  BY DEF RInv
<1>2. CASE SaveRename
  <2>1. file' = SavedRegistry(table)
    BY <1>2 DEF SaveRename, RInv, WrittenIsSaved
  <2>2. durable' = [n \in NamesIn(table) \ SystemNames |->
                      LET c == CHOOSE c \in Range(table) : c.name = n
                      IN  [type |-> c.type, value |-> c.initial]]
    BY <1>2 DEF SaveRename
  <2>3. ASSUME NEW n \in NamesIn(table) \ SystemNames
        PROVE  durable'[n].value \in Int
    <3> DEFINE c == CHOOSE c \in Range(table) : c.name = n
    <3>1. durable'[n] = [type |-> c.type, value |-> c.initial]
      BY <2>2
    <3>2. \E e \in Range(table) : e.name = n
      BY DEF Range, NamesIn
    <3>3. c \in Range(table)
      BY <3>2
    <3> HIDE DEF c
    <3>4. Good(table) /\ DOMAIN table = 1 .. Len(table)
      BY InvariantIsGood DEF RInv
    <3>5. c \in Cells
      BY <3>3, <3>4, NamesOfTable DEF Range, Good
    <3>6. QED
      BY <3>1, <3>5 DEF Cells
  <2>4. Prints(file', durable')
    BY <2>1, <2>2, <2>3 DEF Prints, SavedRegistry
  <2>5. QED
    BY <2>4 DEF FileIsDurable
<1>3. CASE ~SaveRename
  <2>1. (file' = file /\ durable' = durable /\ hole' = hole) \/ hole'
    <3>1. CASE SaveUnlink
      BY <3>1 DEF SaveUnlink
    <3>2. CASE ~SaveUnlink
      BY <1>3, <3>2 DEF Next, vars, flashVars, Upload, Save, Compile, Write,
           UploadCheck, UploadApply, UploadAppliesPartway, UploadReply, SaveBegin,
           SaveWrite, SaveWriteFails, SaveRenameFails, CompileBegin,
           CompileDeclare, CompileFails, CompileRegister, WriteValue, Restart
    <3>3. QED
      BY <3>1, <3>2
  <2>2. QED
    BY <1>1, <2>1 DEF FileIsDurable
<1>4. QED
  BY <1>2, <1>3

LEMMA RInductive == RInv /\ [Next]_vars => RInv'
<1> SUFFICES ASSUME RInv, [Next]_vars PROVE RInv'
  OBVIOUS
<1>1. IInv'
  BY Inductive DEF RInv
<1>2. Complete(table)' /\ Loads(file)' /\ Loads(tmp)'
  BY CompleteStep, LoadsStep
<1>3. QED
  BY <1>1, <1>2, WrittenStep, DurableStep DEF RInv

-----------------------------------------------------------------------------
\* A restart brings back the user tags of the last completed save, with types
\* and with initial values as far as they survive text and strtof, and finds
\* the UDP bank, unless the old file was removed and not replaced, or the file
\* is too large to load.
THEOREM SavedTagsAreRestored == Spec => SavedTagsRestored
<1>1. RInv /\ [Next]_vars
        => [Restart /\ durable # NoRegistry /\ ~hole
              /\ Cardinality(DOMAIN durable) < LoadLimit
            => /\ \A n \in DOMAIN durable : Restored(n)
               /\ \A n \in UdpNames : bank'[n] # -1]_vars
  <2> SUFFICES ASSUME RInv, Restart, durable # NoRegistry, ~hole,
                      Cardinality(DOMAIN durable) < LoadLimit
               PROVE  /\ \A n \in DOMAIN durable : Restored(n)
                      /\ \A n \in UdpNames : bank'[n] # -1
    OBVIOUS
  <2>1. Prints(file, durable) /\ GoodRegistry(file) /\ Loads(file)
    BY DEF RInv, FileIsDurable, IInv, Files
  <2>2. table' \in StartedTables(file)
    BY DEF Restart
  <2>3. /\ Good(table') /\ Complete(table')
        /\ file # NoRegistry /\ Cardinality(DOMAIN file) < LoadLimit =>
             \A n \in DOMAIN file : \E i \in 1 .. Len(table') :
               /\ table'[i].name = n /\ table'[i].type = file[n].type
               /\ table'[i].initial = Parsed(file[n].type, file[n].value)
    BY <2>1, <2>2, StartIsComplete, StartedTable
  <2>4. DOMAIN table' = 1 .. Len(table') /\ Len(table') \in Nat
    BY <2>3, LenProperties DEF Good
  <2>5. ASSUME NEW n \in DOMAIN durable PROVE Restored(n)
    <3>1. DOMAIN file = DOMAIN durable /\ file # NoRegistry
      BY <2>1, <2>5, GoodRegistries DEF Prints
    <3>2. PICK i \in 1 .. Len(table') :
            /\ table'[i].name = n /\ table'[i].type = file[n].type
            /\ table'[i].initial = Parsed(file[n].type, file[n].value)
      BY <2>3, <2>5, <3>1
    <3>3. /\ file[n].type = durable[n].type /\ file[n].type \in Types
          /\ file[n].value = Printed(durable[n].type, durable[n].value)
          /\ durable[n].value \in Int
      BY <2>1, <2>5, <3>1 DEF Prints, GoodRegistry
    <3>4. Exact(durable[n].type, durable[n].value)
            => table'[i].initial = durable[n].value
      BY <3>2, <3>3, ReadBack
    <3>5. QED
      BY <2>4, <3>2, <3>3, <3>4 DEF Restored
  <2>6. ASSUME NEW n \in UdpNames PROVE bank'[n] # -1
    <3>1. bank' = BankOf(table')
      BY DEF Restart
    <3>2. n \in NamesIn(table')
      BY <2>3, TagStoreAssumption DEF Complete
    <3>3. \E i \in DOMAIN table' : table'[i].name = n
      BY <3>2 DEF NamesIn
    <3>4. bank'[n] \in DOMAIN table'
      BY <3>1, <3>3 DEF BankOf
    <3>5. QED
      BY <2>4, <3>4
  <2>7. QED
    BY <2>5, <2>6
<1>2. Init => RInv
  BY InitRInv
<1>3. RInv /\ [Next]_vars => RInv'
  BY RInductive
<1>4. QED
  BY <1>1, <1>2, <1>3, PTL DEF Spec, SavedTagsRestored

=============================================================================
