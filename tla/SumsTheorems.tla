---------------------------- MODULE SumsTheorems ----------------------------
(* How the sum of a column answers to a write of one row and of what counts  *)
(* add up to, and least and greatest numbers of a set.                       *)
EXTENDS Sums, Integers, FiniteSetTheorems, WellFoundedInduction, TLAPS

\* A set of natural numbers has a least one.
THEOREM LeastOfNaturals ==
    ASSUME NEW T \in SUBSET Nat, T # {}
    PROVE  \E x \in T : \A y \in T : x <= y
<1>1. IsWellFoundedOn({p \in Nat \X Nat : p[1] < p[2]}, Nat)
  BY NatLessThanWellFounded, Zenon DEF OpToRel
<1>2. PICK x \in T : \A y \in T : <<y, x>> \notin {p \in Nat \X Nat : p[1] < p[2]}
  BY <1>1, WFMin, Zenon
<1>3. ASSUME NEW y \in T PROVE x <= y
  <2>1. x \in Nat /\ y \in Nat
    OBVIOUS
  <2> DEFINE pair == <<y, x>>
  <2>2. pair \in Nat \X Nat /\ pair[1] = y /\ pair[2] = x
    BY <2>1
  <2>3. pair \notin {p \in Nat \X Nat : p[1] < p[2]}
    BY <1>2
  <2> HIDE DEF pair
  <2> QED
    BY <2>1, <2>2, <2>3
<1> QED
  BY <1>3

\* A set of numbers up to a bound has a greatest one.
THEOREM GreatestOfInterval ==
    ASSUME NEW n \in Nat, NEW T, T \subseteq 1..n, T # {}
    PROVE  \E x \in T : \A y \in T : y <= x
<1> DEFINE D == {n - x : x \in T}
<1>1. D \in SUBSET Nat /\ D # {}
  <2>1. PICK x \in T : TRUE
    OBVIOUS
  <2>2. n - x \in D
    BY <2>1
  <2>3. \A d \in D : d \in Nat
    OBVIOUS
  <2> HIDE DEF D
  <2> QED
    BY <2>2, <2>3
<1>2. \E d \in D : \A e \in D : d <= e
  <2> HIDE DEF D
  <2> QED
    BY <1>1, LeastOfNaturals, Zenon
<1> PICK d \in D : \A e \in D : d <= e
  BY <1>2
<1>3. PICK x \in T : d = n - x
  OBVIOUS
<1>4. ASSUME NEW y \in T PROVE y <= x
  <2>1. n - y \in D
    OBVIOUS
  <2>2. n - x <= n - y
    BY <1>3, <2>1
  <2> QED
    BY <2>2
<1> QED
  BY <1>4

\* What holds of 0 and passes from each number to the next holds of all.
THEOREM StepByStep ==
    ASSUME NEW S, 0 \in S, \A n \in Nat : n \in S => n + 1 \in S
    PROVE  Nat \subseteq S
<1> SUFFICES ASSUME Nat \ S # {} PROVE FALSE
  OBVIOUS
<1>1. PICK x \in Nat \ S : \A y \in Nat \ S : x <= y
  BY LeastOfNaturals
<1>2. x # 0 /\ x - 1 \in Nat /\ x - 1 \in S
  BY <1>1
<1> QED
  BY <1>1, <1>2
-----------------------------------------------------------------------------

(* A column counts as finite when its units are; this is what bookkeeping    *)
(* invariants carry along, starting from an empty table.                     *)

\* The units of a column are the pairs of a row and a number up to its value.
LEMMA UnitsMembership ==
    ASSUME NEW f, NEW u
    PROVE  u \in Units(f) <=>
             \E x \in DOMAIN f : \E i \in 1..f[x] : u = <<x, i>>
  BY DEF Units

\* A table whose column is 0 everywhere sums to 0.
THEOREM TotalOfZeros ==
    ASSUME NEW S, NEW f \in [S -> {0}]
    PROVE  IsFiniteSet(Units(f)) /\ Total(f) = 0
  <1>1. \A x \in DOMAIN f : 1..f[x] = {}
    OBVIOUS
  <1>2. Units(f) = {}
    BY <1>1, UnitsMembership
  <1> QED
    BY <1>2, FS_EmptySet DEF Total

\* A column below another one, row by row, has the smaller sum.
THEOREM TotalMonotone ==
    ASSUME NEW S, NEW f \in [S -> Nat], NEW g \in [S -> Nat],
           \A x \in S : f[x] <= g[x],
           IsFiniteSet(Units(g))
    PROVE  /\ IsFiniteSet(Units(f))
           /\ Total(f) <= Total(g)
           /\ Total(f) \in Nat /\ Total(g) \in Nat
  <1>1. \A x \in S : 1..f[x] \subseteq 1..g[x]
    OBVIOUS
  <1>2. Units(f) \subseteq Units(g)
    BY <1>1 DEF Units
  <1> QED
    BY <1>2, FS_Subset, FS_CardinalityType DEF Total

\* Adding n to one row adds n to the sum.
THEOREM TotalOfIncrease ==
    ASSUME NEW S, NEW f \in [S -> Nat], NEW x \in S, NEW n \in Nat,
           IsFiniteSet(Units(f))
    PROVE  LET g == [f EXCEPT ![x] = f[x] + n]
           IN  IsFiniteSet(Units(g)) /\ Total(g) = Total(f) + n
  <1> DEFINE g == [f EXCEPT ![x] = f[x] + n]
             I == (f[x] + 1)..(f[x] + n)
             New == {x} \X I
             h == [i \in I |-> <<x, i>>]
  <1>1. IsFiniteSet(I) /\ Cardinality(I) = n
    <2> DEFINE a == f[x] + 1
               b == f[x] + n
    <2>1. a \in Int /\ b \in Int /\ b - a + 1 = n
      BY f[x] \in Nat
    <2>2. a > b <=> n = 0
      BY f[x] \in Nat
    <2> HIDE DEF a, b
    <2>3. IsFiniteSet(a..b) /\ Cardinality(a..b) = IF a > b THEN 0 ELSE b - a + 1
      BY <2>1, FS_Interval
    <2>4. IsFiniteSet(a..b) /\ Cardinality(a..b) = n
      BY <2>1, <2>2, <2>3
    <2> QED
      BY <2>4 DEF a, b
  <1>2. h \in Bijection(I, New)
    <2>1. h \in [I -> New]
      OBVIOUS
    <2>2. \A a, b \in I : h[a] = h[b] => a = b
      OBVIOUS
    <2>3. \A t \in New : \E i \in I : h[i] = t
      OBVIOUS
    <2> QED
      BY <2>1, <2>2, <2>3, Zenon DEF Bijection, Injection, Surjection, IsInjective
  <1>3. IsFiniteSet(New) /\ Cardinality(New) = n
    BY <1>1, <1>2, FS_Bijection DEF ExistsBijection
  <1>4. Units(g) = Units(f) \cup New
    <2>1. ASSUME NEW u \in Units(g) PROVE u \in Units(f) \cup New
      <3>1. PICK y \in S : \E k \in 1..g[y] : u = <<y, k>>
        BY <2>1 DEF Units
      <3>1a. PICK i \in 1..g[y] : u = <<y, i>>
        BY <3>1
      <3>2. CASE y # x
        BY <3>1a, <3>2, UnitsMembership
      <3>3. CASE y = x /\ i <= f[x]
        BY <3>1a, <3>3, UnitsMembership
      <3>4. CASE y = x /\ ~(i <= f[x])
        <4>1. i \in I
          BY <3>1a, <3>4
        <4> QED
          BY <3>1a, <3>4, <4>1
      <3> QED
        BY <3>2, <3>3, <3>4
    <2>2. ASSUME NEW u \in Units(f) PROVE u \in Units(g)
      <3>1. PICK y \in S : \E k \in 1..f[y] : u = <<y, k>>
        BY <2>2, UnitsMembership
      <3>1a. PICK i \in 1..f[y] : u = <<y, i>>
        BY <3>1
      <3>2. i \in 1..g[y]
        BY <3>1a
      <3> QED
        BY <3>1a, <3>2, UnitsMembership
    <2>3. ASSUME NEW u \in New PROVE u \in Units(g)
      <3>1. PICK i \in I : u = <<x, i>>
        BY <2>3
      <3>2. i \in 1..g[x]
        BY <3>1
      <3> QED
        BY <3>1, <3>2, UnitsMembership
    <2> QED
      BY <2>1, <2>2, <2>3
  <1>5. Units(f) \cap New = {}
    <2> SUFFICES ASSUME NEW u \in Units(f), u \in New PROVE FALSE
      OBVIOUS
    <2>1. PICK y \in S : \E k \in 1..f[y] : u = <<y, k>>
      BY UnitsMembership
    <2>1a. PICK i \in 1..f[y] : u = <<y, i>>
      BY <2>1
    <2>2. PICK j \in I : u = <<x, j>>
      OBVIOUS
    <2> QED
      BY <2>1a, <2>2
  <1>6. Cardinality(Units(f) \cap New) = 0
    BY <1>5, FS_EmptySet
  <1>7. IsFiniteSet(Units(g)) /\ Cardinality(Units(g)) = Cardinality(Units(f)) + n
    <2> HIDE DEF g, New
    <2>1. /\ IsFiniteSet(Units(f) \cup New)
          /\ Cardinality(Units(f) \cup New)
               = Cardinality(Units(f)) + Cardinality(New) - Cardinality(Units(f) \cap New)
      BY <1>3, FS_Union
    <2>2. Cardinality(Units(f)) \in Nat
      BY FS_CardinalityType
    <2> QED
      BY <1>3, <1>4, <1>6, <2>1, <2>2
  <1> QED
    BY <1>7 DEF Total

\* The same, for two tables that agree except on one row.
LEMMA TotalOfRowIncrease ==
    ASSUME NEW S, NEW f \in [S -> Nat], NEW g \in [S -> Nat], NEW x \in S, NEW n \in Nat,
           IsFiniteSet(Units(f)), g[x] = f[x] + n, \A z \in S \ {x} : g[z] = f[z]
    PROVE  IsFiniteSet(Units(g)) /\ Total(g) = Total(f) + n
  <1>1. g = [f EXCEPT ![x] = f[x] + n]
    OBVIOUS
  <1>2. /\ IsFiniteSet(Units([f EXCEPT ![x] = f[x] + n]))
        /\ Total([f EXCEPT ![x] = f[x] + n]) = Total(f) + n
    BY TotalOfIncrease
  <1> QED
    BY <1>1, <1>2

\* Table g is table f with row x increased by n.
Increased(S, f, g, x, n) ==
    /\ f \in [S -> Nat] /\ g \in [S -> Nat] /\ x \in S /\ n \in Nat
    /\ g[x] = f[x] + n /\ \A z \in S \ {x} : g[z] = f[z]

\* Two tables with the same sum have the same sum after the same increase of a row.
LEMMA EqualTotalsStayEqual ==
    ASSUME NEW S, NEW n, NEW x, NEW f, NEW f2, NEW y, NEW g, NEW g2,
           Increased(S, f, f2, x, n), Increased(S, g, g2, y, n),
           IsFiniteSet(Units(f)), IsFiniteSet(Units(g)), Total(f) = Total(g)
    PROVE  /\ IsFiniteSet(Units(f2)) /\ IsFiniteSet(Units(g2))
           /\ Total(f2) = Total(g2)
  <1>1. IsFiniteSet(Units(f2)) /\ Total(f2) = Total(f) + n
    BY TotalOfRowIncrease DEF Increased
  <1>2. IsFiniteSet(Units(g2)) /\ Total(g2) = Total(g) + n
    BY TotalOfRowIncrease DEF Increased
  <1> QED
    BY <1>1, <1>2

\* What one row gives to another leaves the sum.
LEMMA TotalOfMove ==
    ASSUME NEW S, NEW f \in [S -> Nat], NEW g \in [S -> Nat], NEW x \in S, NEW y \in S, NEW n \in Nat,
           IsFiniteSet(Units(f)), x # y, n <= f[x], g[x] = f[x] - n, g[y] = f[y] + n,
           \A z \in S \ {x, y} : g[z] = f[z]
    PROVE  IsFiniteSet(Units(g)) /\ Total(g) = Total(f)
  <1> DEFINE h == [z \in S |-> IF z = x THEN f[x] - n ELSE f[z]]
  <1>1. h \in [S -> Nat] /\ h[x] = f[x] - n /\ \A z \in S \ {x} : h[z] = f[z]
    OBVIOUS
  <1> HIDE DEF h
  <1>2. IsFiniteSet(Units(h))
    BY <1>1, TotalMonotone
  <1>3. f[x] = h[x] + n /\ \A z \in S \ {x} : f[z] = h[z]
    BY <1>1
  <1>4. Total(f) = Total(h) + n
    BY <1>1, <1>2, <1>3, TotalOfRowIncrease
  <1>5. g[y] = h[y] + n /\ \A z \in S \ {y} : g[z] = h[z]
    BY <1>1
  <1>6. IsFiniteSet(Units(g)) /\ Total(g) = Total(h) + n
    BY <1>1, <1>2, <1>5, TotalOfRowIncrease
  <1> QED
    BY <1>4, <1>6
-----------------------------------------------------------------------------
(* Sums of integers                                                          *)

\* The sums of the sets of rows in a family.
SumsUpTo(upTo, column, family) ==
    upTo = [rows \in family |->
              IF rows = {} THEN 0
              ELSE column[CHOOSE x \in rows : TRUE] + upTo[rows \ {CHOOSE x \in rows : TRUE}]]

\* The sets of at most k rows.
UpToRows(D, k) == {rows \in SUBSET D : Cardinality(rows) <= k}

\* Sums of no rows are there, and those of k + 1 rows follow from those of k.
LEMMA SumsOfFewer ==
    ASSUME NEW column, NEW D, IsFiniteSet(D), NEW k \in Nat, NEW f, SumsUpTo(f, column, UpToRows(D, k))
    PROVE  \E g : SumsUpTo(g, column, UpToRows(D, k + 1))
<1> DEFINE pick(rows) == CHOOSE x \in rows : TRUE
           g == [rows \in UpToRows(D, k + 1) |->
                   IF rows = {} THEN 0 ELSE column[pick(rows)] + f[rows \ {pick(rows)}]]
<1>1. ASSUME NEW rows \in UpToRows(D, k + 1), rows # {}
      PROVE  rows \ {pick(rows)} \in UpToRows(D, k) /\ rows \ {pick(rows)} \in UpToRows(D, k + 1)
  <2>1. pick(rows) \in rows /\ rows \subseteq D /\ IsFiniteSet(rows) /\ Cardinality(rows) <= k + 1
    BY <1>1, FS_Subset DEF UpToRows
  <2>2. Cardinality(rows \ {pick(rows)}) = Cardinality(rows) - 1 /\ Cardinality(rows) \in Nat
    BY <2>1, FS_RemoveElement, FS_CardinalityType
  <2> QED
    BY <2>1, <2>2 DEF UpToRows
<1>2. ASSUME NEW rows \in UpToRows(D, k)
      PROVE  rows \in UpToRows(D, k + 1) /\ g[rows] = f[rows]
  <2>1. rows \in UpToRows(D, k + 1)
    BY FS_Subset, FS_CardinalityType DEF UpToRows
  <2>2. f[rows] = IF rows = {} THEN 0 ELSE column[pick(rows)] + f[rows \ {pick(rows)}]
    BY DEF SumsUpTo
  <2> QED
    BY <2>1, <2>2
<1>3. ASSUME NEW rows \in UpToRows(D, k + 1)
      PROVE  g[rows] = IF rows = {} THEN 0 ELSE column[pick(rows)] + g[rows \ {pick(rows)}]
  <2>1. g[rows] = IF rows = {} THEN 0 ELSE column[pick(rows)] + f[rows \ {pick(rows)}]
    OBVIOUS
  <2>2. rows # {} => g[rows \ {pick(rows)}] = f[rows \ {pick(rows)}]
    <3> HIDE DEF g
    <3> QED
      BY <1>1, <1>2
  <2> QED
    BY <2>1, <2>2
<1>4. SumsUpTo(g, column, UpToRows(D, k + 1))
  <2>1. g = [rows \in UpToRows(D, k + 1) |-> g[rows]]
    OBVIOUS
  <2> HIDE DEF g
  <2>2. g = [rows \in UpToRows(D, k + 1) |->
               IF rows = {} THEN 0 ELSE column[pick(rows)] + g[rows \ {pick(rows)}]]
    BY <1>3, <2>1
  <2> QED
    BY <2>2 DEF SumsUpTo
<1> QED
  BY <1>4

\* A column of finitely many rows has a sum, the last of such sums.
LEMMA SumIsUpTo ==
    ASSUME NEW column, IsFiniteSet(DOMAIN column)
    PROVE  \E upTo : SumsUpTo(upTo, column, SUBSET DOMAIN column) /\ Sum(column) = upTo[DOMAIN column]
<1> DEFINE D == DOMAIN column
           S == {k \in Nat : \E f : SumsUpTo(f, column, UpToRows(D, k))}
<1>1. 0 \in S
  <2> DEFINE f == [rows \in UpToRows(D, 0) |-> 0]
  <2>1. ASSUME NEW rows \in UpToRows(D, 0)
        PROVE  rows = {}
    BY FS_Subset, FS_EmptySet, FS_CardinalityType DEF UpToRows
  <2>2. SumsUpTo(f, column, UpToRows(D, 0))
    BY <2>1 DEF SumsUpTo
  <2> HIDE DEF f
  <2> QED
    BY <2>2
<1>2. ASSUME NEW k \in Nat, k \in S PROVE k + 1 \in S
  BY <1>2, SumsOfFewer
<1>3. Cardinality(D) \in S
  <2> HIDE DEF S
  <2> QED
    BY <1>1, <1>2, StepByStep, FS_CardinalityType
<1>4. UpToRows(D, Cardinality(D)) = SUBSET D
  BY FS_Subset, FS_CardinalityType DEF UpToRows
<1>5. \E f : SumsUpTo(f, column, SUBSET D)
  BY <1>3, <1>4
<1> DEFINE upTo == CHOOSE f : SumsUpTo(f, column, SUBSET D)
<1>6. SumsUpTo(upTo, column, SUBSET D)
  BY <1>5, Zenon
<1>7. Sum(column) = upTo[DOMAIN column]
  BY Zenon DEF Sum, SumsUpTo
<1> HIDE DEF upTo
<1> QED
  BY <1>6, <1>7

\* Of nothing it is nothing; and a set of rows has the sum of the rows but one, and that one.
SumsStepwise(upTo, column, D) ==
    /\ upTo[{}] = 0
    /\ \A rows \in SUBSET D : rows # {} =>
          \E x \in rows : upTo[rows] = column[x] + upTo[rows \ {x}]

\* Sums add a row at a time.
LEMMA SumsStep ==
    ASSUME NEW column, NEW D, NEW upTo, SumsUpTo(upTo, column, SUBSET D)
    PROVE  SumsStepwise(upTo, column, D)
<1>1. upTo[{}] = 0
  BY DEF SumsUpTo
<1>2. ASSUME NEW rows \in SUBSET D, rows # {}
      PROVE  \E x \in rows : upTo[rows] = column[x] + upTo[rows \ {x}]
  <2> DEFINE x == CHOOSE x \in rows : TRUE
  <2>1. x \in rows
    BY <1>2
  <2>2. upTo[rows] = column[x] + upTo[rows \ {x}]
    BY <1>2 DEF SumsUpTo
  <2> QED
    BY <2>1, <2>2
<1> QED
  BY <1>1, <1>2 DEF SumsStepwise

\* Two parts of a set have as many members as the set.
LEMMA TwoParts ==
    ASSUME NEW A, NEW B, NEW C, IsFiniteSet(A), IsFiniteSet(B), C = A \cup B /\ A \cap B = {}
    PROVE  Cardinality(C) = Cardinality(A) + Cardinality(B)
<1>1. Cardinality(A \cup B) = Cardinality(A) + Cardinality(B) - Cardinality(A \cap B)
  BY FS_Union, Zenon
<1>2. Cardinality(A \cap B) = 0
  <2>1. A \cap B = {}
    OBVIOUS
  <2> QED
    BY <2>1, FS_EmptySet, Zenon
<1>3. Cardinality(A) \in Nat /\ Cardinality(B) \in Nat
  BY FS_CardinalityType
<1> DEFINE a == Cardinality(A)
           b == Cardinality(B)
<1>4. Cardinality(A \cup B) = a + b - 0 /\ a \in Nat /\ b \in Nat
  BY <1>1, <1>2, <1>3
<1>5. C = A \cup B
  OBVIOUS
<1> QED
  BY <1>4, <1>5

\* How many members of a set have each key is, over all keys, how many there are.
THEOREM SumOfCounts ==
    ASSUME NEW S, IsFiniteSet(S), NEW key, NEW D, IsFiniteSet(D), \A v \in S : key[v] \in D
    PROVE  Sum([d \in D |-> Cardinality({v \in S : key[v] = d})]) = Cardinality(S)
<1> DEFINE column == [d \in D |-> Cardinality({v \in S : key[v] = d})]
           Of(rows) == {v \in S : key[v] \in rows}
<1>0. DOMAIN column = D
  OBVIOUS
<1>1. PICK upTo : SumsUpTo(upTo, column, SUBSET D) /\ Sum(column) = upTo[D]
  <2> HIDE DEF column
  <2> QED
    BY <1>0, SumIsUpTo
<1> DEFINE T == {k \in Nat : \A rows \in SUBSET D : Cardinality(rows) = k => upTo[rows] = Cardinality(Of(rows))}
<1>2. 0 \in T
  <2>1. ASSUME NEW rows \in SUBSET D, Cardinality(rows) = 0
        PROVE  upTo[rows] = Cardinality(Of(rows))
    <3>1. rows = {}
      BY <2>1, FS_Subset, FS_EmptySet
    <3>2. Of(rows) = {}
      BY <3>1
    <3>3. upTo[{}] = 0
      BY <1>1, SumsStep DEF SumsStepwise
    <3> QED
      BY <3>1, <3>2, <3>3, FS_EmptySet
  <2> QED
    BY <2>1
<1>3. ASSUME NEW k \in Nat, k \in T PROVE k + 1 \in T
  <2>1. ASSUME NEW rows \in SUBSET D, Cardinality(rows) = k + 1
        PROVE  upTo[rows] = Cardinality(Of(rows))
    <3>1. IsFiniteSet(rows) /\ rows # {}
      BY <2>1, FS_Subset, FS_EmptySet
    <3>2. PICK x \in rows : upTo[rows] = column[x] + upTo[rows \ {x}]
      <4> HIDE DEF column, T
      <4>1. \A some \in SUBSET D : some # {} =>
               \E x \in some : upTo[some] = column[x] + upTo[some \ {x}]
        <5>1. SumsStepwise(upTo, column, D)
          BY <1>1, SumsStep, Zenon
        <5> QED
          BY <5>1, Zenon DEF SumsStepwise
      <4> QED
        BY <3>1, <4>1
    <3>3. Cardinality(rows \ {x}) = k /\ rows \ {x} \in SUBSET D
      <4> HIDE DEF column, T
      <4>1. Cardinality(rows \ {x}) = Cardinality(rows) - 1
        BY <3>1, FS_RemoveElement
      <4> QED
        BY <2>1, <4>1
    <3>4. upTo[rows \ {x}] = Cardinality(Of(rows \ {x}))
      BY <1>3, <3>3
    <3>5. column[x] = Cardinality(Of({x}))
      <4>1. Of({x}) = {v \in S : key[v] = x}
        OBVIOUS
      <4> QED
        BY <4>1
    <3>6. /\ Of(rows) = Of({x}) \cup Of(rows \ {x})
          /\ Of({x}) \cap Of(rows \ {x}) = {}
      OBVIOUS
    <3>7. IsFiniteSet(Of({x})) /\ IsFiniteSet(Of(rows \ {x}))
      BY FS_Subset
    <3>8. Cardinality(Of(rows)) = Cardinality(Of({x})) + Cardinality(Of(rows \ {x}))
      <4> HIDE DEF Of, column, T
      <4> QED
        BY <3>6, <3>7, TwoParts, Zenon
    <3> QED
      BY <3>2, <3>4, <3>5, <3>8
  <2> QED
    BY <2>1
<1>4. Cardinality(D) \in T
  <2> HIDE DEF T
  <2> QED
    BY <1>2, <1>3, StepByStep, FS_CardinalityType
<1>5. Of(D) = S
  OBVIOUS
<1>6. upTo[D] = Cardinality(Of(D))
  BY <1>4
<1> QED
  BY <1>1, <1>5, <1>6
-----------------------------------------------------------------------------
(* Sums of integers                                                             *)

\* What is true of no rows, and of one more whenever it is of some, is of all there are.
THEOREM RowByRow ==
    ASSUME NEW D, IsFiniteSet(D), NEW F, {} \in F,
           \A rows \in SUBSET D : \A x \in D \ rows : rows \in F => rows \cup {x} \in F
    PROVE  D \in F
<1> DEFINE S == {k \in Nat : \A rows \in UpToRows(D, k) : rows \in F}
<1>1. 0 \in S
  <2>1. ASSUME NEW rows \in UpToRows(D, 0) PROVE rows = {}
    BY FS_Subset, FS_EmptySet, FS_CardinalityType DEF UpToRows
  <2> QED
    BY <2>1
<1>2. ASSUME NEW k \in Nat, k \in S PROVE k + 1 \in S
  <2>1. ASSUME NEW rows \in UpToRows(D, k + 1), rows # {} PROVE rows \in F
    <3>1. rows \subseteq D /\ IsFiniteSet(rows) /\ Cardinality(rows) <= k + 1
      BY FS_Subset DEF UpToRows
    <3>2. PICK x \in rows : TRUE
      BY <2>1
    <3>3. Cardinality(rows \ {x}) = Cardinality(rows) - 1 /\ Cardinality(rows) \in Nat
      BY <3>1, FS_RemoveElement, FS_CardinalityType
    <3>4. rows \ {x} \in F
      BY <1>2, <3>1, <3>3 DEF UpToRows
    <3>5. (rows \ {x}) \cup {x} = rows
      OBVIOUS
    <3> QED
      BY <3>1, <3>4, <3>5
  <2>2. \A rows \in UpToRows(D, k + 1) : rows \in F
    BY <2>1, Zenon
  <2> HIDE DEF S
  <2> QED
    BY <2>2 DEF S
<1>3. Cardinality(D) \in S
  <2> HIDE DEF S
  <2> QED
    BY <1>1, <1>2, StepByStep, FS_CardinalityType
<1>4. D \in UpToRows(D, Cardinality(D))
  BY FS_CardinalityType DEF UpToRows
<1> QED
  BY <1>3, <1>4

\* The part of a column that some rows hold.
OnRows(column, rows) == [x \in rows |-> column[x]]

\* A sum takes the rows in any order.
Orderless(upTo, column, D) ==
    \A rows \in SUBSET D :
        upTo[rows] \in Int /\ \A x \in rows : upTo[rows] = column[x] + upTo[rows \ {x}]

LEMMA AnyRowFirst ==
    ASSUME NEW column, NEW D, IsFiniteSet(D), \A x \in D : column[x] \in Int,
           NEW upTo, SumsUpTo(upTo, column, SUBSET D)
    PROVE  Orderless(upTo, column, D)
<1> DEFINE Good(rows) == upTo[rows] \in Int /\ \A x \in rows : upTo[rows] = column[x] + upTo[rows \ {x}]
           S == {k \in Nat : \A rows \in UpToRows(D, k) : Good(rows)}
<1>0. SumsStepwise(upTo, column, D)
  BY SumsStep
<1>1. 0 \in S
  <2>1. ASSUME NEW rows \in UpToRows(D, 0) PROVE rows = {}
    BY FS_Subset, FS_EmptySet, FS_CardinalityType DEF UpToRows
  <2>2. Good({})
    BY <1>0 DEF SumsStepwise
  <2> HIDE DEF Good
  <2> QED
    BY <2>1, <2>2
<1>2. ASSUME NEW k \in Nat, k \in S PROVE k + 1 \in S
  <2>1. ASSUME NEW rows \in UpToRows(D, k + 1), rows # {} PROVE Good(rows)
    <3>1. rows \subseteq D /\ IsFiniteSet(rows) /\ Cardinality(rows) <= k + 1
      BY FS_Subset DEF UpToRows
    <3>2. ASSUME NEW x \in rows PROVE Good(rows \ {x})
      <4>1. Cardinality(rows \ {x}) = Cardinality(rows) - 1 /\ Cardinality(rows) \in Nat
        BY <3>1, FS_RemoveElement, FS_CardinalityType
      <4>2. rows \ {x} \in UpToRows(D, k)
        BY <3>1, <4>1 DEF UpToRows
      <4> QED
        BY <1>2, <4>2
    <3>3. PICK c \in rows : upTo[rows] = column[c] + upTo[rows \ {c}]
      BY <1>0, <2>1, <3>1 DEF SumsStepwise
    <3>4. upTo[rows] \in Int
      BY <3>1, <3>2, <3>3
    <3>5. ASSUME NEW x \in rows PROVE upTo[rows] = column[x] + upTo[rows \ {x}]
      <4>1. CASE x # c
        <5>1. (rows \ {c}) \ {x} = (rows \ {x}) \ {c}
          OBVIOUS
        <5>2. upTo[rows \ {c}] = column[x] + upTo[(rows \ {c}) \ {x}] /\ upTo[(rows \ {c}) \ {x}] \in Int
          <6>1. upTo[(rows \ {x}) \ {c}] \in Int
            <7>1. IsFiniteSet(rows \ {x}) /\ Cardinality(rows \ {x}) = Cardinality(rows) - 1
              BY <3>1, FS_RemoveElement
            <7>2. Cardinality((rows \ {x}) \ {c}) = Cardinality(rows \ {x}) - 1
              BY <7>1, <4>1, FS_RemoveElement
            <7>3. (rows \ {x}) \ {c} \in UpToRows(D, k)
              BY <3>1, <7>1, <7>2, FS_CardinalityType DEF UpToRows
            <7> QED
              BY <1>2, <7>3
          <6> QED
            BY <3>2, <4>1, <5>1, <6>1
        <5>3. upTo[rows \ {x}] = column[c] + upTo[(rows \ {x}) \ {c}]
          BY <3>2, <4>1
        <5>4. column[c] \in Int /\ column[x] \in Int
          BY <3>1
        <5> DEFINE u == upTo[(rows \ {c}) \ {x}]
        <5>5. upTo[rows \ {c}] = column[x] + u /\ u \in Int
          BY <5>2
        <5>6. upTo[rows \ {x}] = column[c] + u
          BY <5>1, <5>3
        <5> HIDE DEF u
        <5>7. upTo[rows] = column[c] + (column[x] + u)
          BY <3>3, <5>5
        <5> QED
          BY <5>4, <5>5, <5>6, <5>7
      <4> QED
        BY <3>3, <4>1
    <3> QED
      BY <3>4, <3>5
  <2>2. Good({})
    BY <1>0 DEF SumsStepwise
  <2> HIDE DEF Good
  <2>3. \A rows \in UpToRows(D, k + 1) : Good(rows)
    BY <2>1, <2>2, Zenon
  <2> QED
    BY <2>3
<1>3. Cardinality(D) \in S
  <2> HIDE DEF S
  <2> QED
    BY <1>1, <1>2, StepByStep, FS_CardinalityType
<1>4. UpToRows(D, Cardinality(D)) = SUBSET D
  BY FS_Subset, FS_CardinalityType DEF UpToRows
<1>5. \A rows \in SUBSET D : Good(rows)
  BY <1>3, <1>4
<1> QED
  BY <1>5 DEF Orderless

\* The sum of a part is that of the whole up to these rows.
LEMMA SumOfPart ==
    ASSUME NEW column, NEW D, IsFiniteSet(D), NEW upTo, SumsUpTo(upTo, column, SUBSET D),
           NEW part \in SUBSET D
    PROVE  Sum(OnRows(column, part)) = upTo[part]
<1> DEFINE small == OnRows(column, part)
           pick(rows) == CHOOSE x \in rows : TRUE
<1>0. DOMAIN small = part /\ IsFiniteSet(part)
  BY FS_Subset DEF OnRows
<1>1. PICK up : SumsUpTo(up, small, SUBSET part) /\ Sum(small) = up[part]
  <2> HIDE DEF small
  <2> QED
    BY <1>0, SumIsUpTo
<1> DEFINE S == {k \in Nat : \A rows \in UpToRows(part, k) : up[rows] = upTo[rows]}
<1>2. up[{}] = 0 /\ upTo[{}] = 0
  BY <1>1 DEF SumsUpTo
<1>3. 0 \in S
  <2>1. ASSUME NEW rows \in UpToRows(part, 0) PROVE rows = {}
    BY <1>0, FS_Subset, FS_EmptySet, FS_CardinalityType DEF UpToRows
  <2> QED
    BY <2>1, <1>2
<1>4. ASSUME NEW k \in Nat, k \in S PROVE k + 1 \in S
  <2>1. ASSUME NEW rows \in UpToRows(part, k + 1), rows # {} PROVE up[rows] = upTo[rows]
    <3>1. rows \subseteq part /\ IsFiniteSet(rows) /\ Cardinality(rows) <= k + 1
      BY <1>0, FS_Subset DEF UpToRows
    <3>2. pick(rows) \in rows
      BY <2>1
    <3>3. Cardinality(rows \ {pick(rows)}) = Cardinality(rows) - 1 /\ Cardinality(rows) \in Nat
      BY <3>1, <3>2, FS_RemoveElement, FS_CardinalityType
    <3>4. rows \ {pick(rows)} \in UpToRows(part, k)
      BY <3>1, <3>3 DEF UpToRows
    <3>5. up[rows] = small[pick(rows)] + up[rows \ {pick(rows)}]
      <4> HIDE DEF small
      <4> QED
        BY <1>1, <2>1, <3>1 DEF SumsUpTo
    <3>6. upTo[rows] = column[pick(rows)] + upTo[rows \ {pick(rows)}]
      <4>1. rows \in SUBSET D
        BY <3>1
      <4> QED
        BY <2>1, <4>1 DEF SumsUpTo
    <3>7. small[pick(rows)] = column[pick(rows)]
      BY <3>1, <3>2 DEF OnRows
    <3> QED
      BY <1>4, <3>4, <3>5, <3>6, <3>7
  <2>2. \A rows \in UpToRows(part, k + 1) : up[rows] = upTo[rows]
    BY <2>1, <1>2
  <2> QED
    BY <2>2
<1>5. Cardinality(part) \in S
  <2> HIDE DEF S
  <2> QED
    BY <1>0, <1>3, <1>4, StepByStep, FS_CardinalityType
<1>6. part \in UpToRows(part, Cardinality(part))
  BY <1>0, FS_CardinalityType DEF UpToRows
<1> QED
  BY <1>1, <1>5, <1>6

\* No rows add up to nothing.
LEMMA SumOfNone ==
    ASSUME NEW column, DOMAIN column = {}
    PROVE  Sum(column) = 0
<1>1. PICK upTo : SumsUpTo(upTo, column, SUBSET DOMAIN column) /\ Sum(column) = upTo[DOMAIN column]
  BY SumIsUpTo, FS_EmptySet
<1> QED
  BY <1>1 DEF SumsUpTo

\* One row more adds its number; a sum of integers is one.
THEOREM SumOfMore ==
    ASSUME NEW column, NEW rows, IsFiniteSet(rows), NEW x, x \notin rows,
           \A y \in rows \cup {x} : column[y] \in Int
    PROVE  /\ Sum(OnRows(column, rows)) \in Int
           /\ Sum(OnRows(column, rows \cup {x})) = column[x] + Sum(OnRows(column, rows))
<1> DEFINE D == rows \cup {x}
           whole == OnRows(column, D)
<1>0. IsFiniteSet(D) /\ DOMAIN whole = D /\ \A y \in D : whole[y] = column[y]
  BY FS_AddElement DEF OnRows
<1>1. PICK upTo : SumsUpTo(upTo, whole, SUBSET D) /\ Sum(whole) = upTo[D]
  <2> HIDE DEF whole
  <2> QED
    BY <1>0, SumIsUpTo
<1>2. rows \in SUBSET D /\ D \in SUBSET D /\ x \in D /\ D \ {x} = rows
  OBVIOUS
<1>3. upTo[rows] \in Int /\ upTo[D] = whole[x] + upTo[rows]
  <2> HIDE DEF whole, D
  <2>1. \A y \in D : whole[y] \in Int
    BY <1>0 DEF D
  <2>2. Orderless(upTo, whole, D)
    BY <1>0, <1>1, <2>1, AnyRowFirst
  <2>3. upTo[D] = whole[x] + upTo[D \ {x}] /\ upTo[rows] \in Int
    BY <1>2, <2>2, Zenon DEF Orderless
  <2> QED
    BY <1>2, <2>3, Zenon
<1>4. Sum(OnRows(whole, rows)) = upTo[rows]
  <2> HIDE DEF whole, D
  <2> QED
    BY <1>0, <1>1, <1>2, SumOfPart
<1>5. OnRows(whole, rows) = OnRows(column, rows)
  BY DEF OnRows
<1> QED
  BY <1>0, <1>1, <1>2, <1>3, <1>4, <1>5

\* A sum of integers is one; the sum of one number is the number, of noughts nought.
LEMMA SumType ==
    ASSUME NEW D, IsFiniteSet(D), NEW column, \A x \in D : column[x] \in Int
    PROVE  Sum(OnRows(column, D)) \in Int
<1>1. PICK x : x \notin D
  <2>1. ~\A x : x \in D
    <3> SUFFICES ASSUME \A x : x \in D PROVE FALSE
      OBVIOUS
    <3>1. {x \in D : x \notin x} \in D
      OBVIOUS
    <3> QED
      BY <3>1
  <2> QED
    BY <2>1
<1> DEFINE more == [y \in D \cup {x} |-> IF y \in D THEN column[y] ELSE 0]
<1>2. Sum(OnRows(more, D)) \in Int
  <2>1. \A y \in D \cup {x} : more[y] \in Int
    OBVIOUS
  <2> HIDE DEF more
  <2> QED
    BY <1>1, <2>1, SumOfMore
<1>3. OnRows(more, D) = OnRows(column, D)
  BY DEF OnRows
<1> QED
  BY <1>2, <1>3

LEMMA SumOfOne ==
    ASSUME NEW column, NEW x, column[x] \in Int
    PROVE  Sum(OnRows(column, {x})) = column[x]
<1>1. Sum(OnRows(column, {})) = 0
  BY SumOfNone DEF OnRows
<1>2. Sum(OnRows(column, {} \cup {x})) = column[x] + Sum(OnRows(column, {}))
  BY SumOfMore, FS_EmptySet
<1>3. {} \cup {x} = {x}
  OBVIOUS
<1> QED
  BY <1>1, <1>2, <1>3

\* Sums of naturals grow with their rows.
THEOREM SumOfFewerRows ==
    ASSUME NEW D, IsFiniteSet(D), NEW part \in SUBSET D, NEW column, \A x \in D : column[x] \in Nat
    PROVE  Sum(OnRows(column, part)) <= Sum(OnRows(column, D))
<1> DEFINE rest == D \ part
           F == {rows \in SUBSET rest : Sum(OnRows(column, part)) <= Sum(OnRows(column, part \cup rows))}
<1>1. IsFiniteSet(part) /\ IsFiniteSet(rest) /\ part \cup rest = D
  BY FS_Subset
<1>2. Sum(OnRows(column, part)) \in Int
  BY <1>1, SumType
<1>3. {} \in F
  <2>1. part \cup {} = part
    OBVIOUS
  <2> QED
    BY <1>2, <2>1
<1>4. ASSUME NEW rows \in SUBSET rest, NEW x \in rest \ rows, rows \in F
      PROVE  rows \cup {x} \in F
  <2> DEFINE before == part \cup rows
  <2>1. IsFiniteSet(before) /\ x \notin before /\ \A y \in before \cup {x} : column[y] \in Int
    BY FS_Subset
  <2>2. /\ Sum(OnRows(column, before)) \in Int
        /\ Sum(OnRows(column, before \cup {x})) = column[x] + Sum(OnRows(column, before))
    <3> HIDE DEF before
    <3> QED
      BY <2>1, SumOfMore
  <2>3. before \cup {x} = part \cup (rows \cup {x}) /\ column[x] \in Nat
    OBVIOUS
  <2> QED
    BY <1>2, <1>4, <2>2, <2>3
<1>5. rest \in F
  <2> HIDE DEF F
  <2> QED
    BY <1>1, <1>3, <1>4, RowByRow
<1> QED
  BY <1>1, <1>5

LEMMA SumOfNoughts ==
    ASSUME NEW D, IsFiniteSet(D), NEW column, \A x \in D : column[x] = 0
    PROVE  Sum(OnRows(column, D)) = 0
<1> DEFINE F == {rows \in SUBSET D : Sum(OnRows(column, rows)) = 0}
<1>1. {} \in F
  BY SumOfNone DEF OnRows
<1>2. ASSUME NEW rows \in SUBSET D, NEW x \in D \ rows, rows \in F
      PROVE  rows \cup {x} \in F
  <2>1. Sum(OnRows(column, rows \cup {x})) = column[x] + Sum(OnRows(column, rows))
    BY SumOfMore, FS_Subset
  <2> QED
    BY <1>2, <2>1
<1>3. D \in F
  <2> HIDE DEF F
  <2> QED
    BY <1>1, <1>2, RowByRow
<1> QED
  BY <1>3

\* Where every number of a column is the sum of those of two others, so is its sum.
THEOREM SumOfPairs ==
    ASSUME NEW D, IsFiniteSet(D), NEW f, NEW g, NEW h,
           \A x \in D : f[x] \in Int /\ g[x] \in Int /\ h[x] = f[x] + g[x]
    PROVE  Sum(OnRows(h, D)) = Sum(OnRows(f, D)) + Sum(OnRows(g, D))
<1> DEFINE F == {rows \in SUBSET D :
                   Sum(OnRows(h, rows)) = Sum(OnRows(f, rows)) + Sum(OnRows(g, rows))}
<1>1. {} \in F
  BY SumOfNone DEF OnRows
<1>2. ASSUME NEW rows \in SUBSET D, NEW x \in D \ rows, rows \in F
      PROVE  rows \cup {x} \in F
  <2>1. IsFiniteSet(rows)
    BY FS_Subset
  <2>2. /\ Sum(OnRows(f, rows)) \in Int
        /\ Sum(OnRows(f, rows \cup {x})) = f[x] + Sum(OnRows(f, rows))
    BY <2>1, SumOfMore
  <2>3. /\ Sum(OnRows(g, rows)) \in Int
        /\ Sum(OnRows(g, rows \cup {x})) = g[x] + Sum(OnRows(g, rows))
    BY <2>1, SumOfMore
  <2>4. Sum(OnRows(h, rows \cup {x})) = h[x] + Sum(OnRows(h, rows))
    BY <2>1, SumOfMore
  <2> QED
    BY <1>2, <2>2, <2>3, <2>4
<1>3. D \in F
  <2> HIDE DEF F
  <2> QED
    BY <1>1, <1>2, RowByRow
<1> QED
  BY <1>3

\* Columns that differ in one row differ by that in their sums.
LEMMA SumOfAnother ==
    ASSUME NEW D, IsFiniteSet(D), NEW d \in D, NEW f, NEW g, \A x \in D : f[x] \in Int /\ g[x] \in Int,
           \A x \in D \ {d} : f[x] = g[x]
    PROVE  Sum(OnRows(g, D)) = Sum(OnRows(f, D)) + (g[d] - f[d])
<1> DEFINE rest == D \ {d}
<1>1. IsFiniteSet(rest) /\ d \notin rest /\ rest \cup {d} = D
  BY FS_Subset
<1>2. OnRows(f, rest) = OnRows(g, rest)
  BY DEF OnRows
<1>3. Sum(OnRows(f, rest)) \in Int /\ Sum(OnRows(f, rest \cup {d})) = f[d] + Sum(OnRows(f, rest))
  BY <1>1, SumOfMore
<1>4. Sum(OnRows(g, rest \cup {d})) = g[d] + Sum(OnRows(g, rest))
  BY <1>1, SumOfMore
<1>5. f[d] \in Int /\ g[d] \in Int
  OBVIOUS
<1> HIDE DEF rest
<1>6. Sum(OnRows(f, D)) = f[d] + Sum(OnRows(f, rest)) /\ Sum(OnRows(g, D)) = g[d] + Sum(OnRows(f, rest))
  BY <1>1, <1>2, <1>3, <1>4, Zenon
<1> QED
  BY <1>3, <1>5, <1>6

\* The rows of a key, and what they add up to for each key.
OfKey(key, rows, d) == {v \in rows : key[v] = d}
ByKey(column, key, rows, D) == [d \in D |-> Sum(OnRows(column, OfKey(key, rows, d)))]

\* Sums over the rows of each key make up the sum over all rows.
THEOREM SumByKey ==
    ASSUME NEW S, IsFiniteSet(S), NEW key, NEW D, IsFiniteSet(D), \A v \in S : key[v] \in D,
           NEW column, \A v \in S : column[v] \in Int
    PROVE  Sum(ByKey(column, key, S, D)) = Sum(OnRows(column, S))
<1> DEFINE F == {rows \in SUBSET S : Sum(ByKey(column, key, rows, D)) = Sum(OnRows(column, rows))}
<1>1. {} \in F
  <2> DEFINE c == ByKey(column, key, {}, D)
  <2>1. \A d \in D : c[d] = 0
    <3> SUFFICES ASSUME NEW d \in D PROVE c[d] = 0
      OBVIOUS
    <3>1. DOMAIN OnRows(column, OfKey(key, {}, d)) = {}
      BY DEF OnRows, OfKey
    <3> QED
      BY <3>1, SumOfNone DEF ByKey
  <2>2. OnRows(c, D) = c
    BY DEF OnRows, ByKey
  <2>3. Sum(OnRows(c, D)) = 0
    <3> HIDE DEF c
    <3> QED
      BY <2>1, SumOfNoughts
  <2>4. Sum(OnRows(column, {})) = 0
    BY SumOfNone DEF OnRows
  <2> QED
    BY <2>2, <2>3, <2>4
<1>2. ASSUME NEW rows \in SUBSET S, NEW x \in S \ rows, rows \in F
      PROVE  rows \cup {x} \in F
  <2> DEFINE more == rows \cup {x}
             f == ByKey(column, key, rows, D)
             g == ByKey(column, key, more, D)
             d == key[x]
  <2>0. IsFiniteSet(rows) /\ IsFiniteSet(more) /\ d \in D
    BY FS_Subset
  <2>1. \A e \in D : /\ f[e] = Sum(OnRows(column, OfKey(key, rows, e)))
                     /\ g[e] = Sum(OnRows(column, OfKey(key, more, e)))
    BY DEF ByKey
  <2>2. \A e \in D : f[e] \in Int /\ g[e] \in Int
    <3> SUFFICES ASSUME NEW e \in D PROVE f[e] \in Int /\ g[e] \in Int
      OBVIOUS
    <3>1. /\ IsFiniteSet(OfKey(key, rows, e)) /\ IsFiniteSet(OfKey(key, more, e))
          /\ OfKey(key, rows, e) \subseteq S /\ OfKey(key, more, e) \subseteq S
      BY <2>0, FS_Subset DEF OfKey
    <3>2. /\ Sum(OnRows(column, OfKey(key, rows, e))) \in Int
          /\ Sum(OnRows(column, OfKey(key, more, e))) \in Int
      BY <3>1, SumType
    <3> HIDE DEF f, g
    <3> QED
      BY <2>1, <3>2
  <2>3. \A e \in D \ {d} : f[e] = g[e]
    <3> SUFFICES ASSUME NEW e \in D \ {d} PROVE f[e] = g[e]
      OBVIOUS
    <3>1. OfKey(key, rows, e) = OfKey(key, more, e)
      BY DEF OfKey
    <3> QED
      BY <2>1, <3>1
  <2>4. g[d] - f[d] = column[x]
    <3>1. /\ OfKey(key, more, d) = OfKey(key, rows, d) \cup {x} /\ x \notin OfKey(key, rows, d)
          /\ OfKey(key, rows, d) \subseteq S /\ IsFiniteSet(OfKey(key, rows, d))
      BY <2>0, FS_Subset DEF OfKey
    <3>2. /\ Sum(OnRows(column, OfKey(key, rows, d))) \in Int
          /\ Sum(OnRows(column, OfKey(key, more, d))) = column[x] + Sum(OnRows(column, OfKey(key, rows, d)))
      <4> HIDE DEF more, d
      <4> QED
        BY <3>1, SumOfMore
    <3> HIDE DEF f, g, d, more
    <3> QED
      BY <2>0, <2>1, <3>2
  <2>5. OnRows(f, D) = f /\ OnRows(g, D) = g
    BY DEF OnRows, ByKey
  <2>6. Sum(g) = Sum(f) + (g[d] - f[d])
    <3> HIDE DEF f, g, d, more
    <3> QED
      BY <2>0, <2>2, <2>3, <2>5, SumOfAnother
  <2>7. Sum(OnRows(column, more)) = column[x] + Sum(OnRows(column, rows))
    BY <2>0, SumOfMore
  <2>8. Sum(f) = Sum(OnRows(column, rows)) /\ Sum(OnRows(column, rows)) \in Int
    BY <1>2, <2>0, SumType
  <2>9. Sum(g) = Sum(OnRows(column, more))
    <3> HIDE DEF f, g, d, more
    <3> QED
      BY <2>4, <2>6, <2>7, <2>8
  <2> QED
    BY <2>9
<1>3. S \in F
  <2> HIDE DEF F
  <2> QED
    BY <1>1, <1>2, RowByRow
<1> QED
  BY <1>3

\* A column read under other names for its rows has the same sum.
THEOREM SumRenamed ==
    ASSUME NEW D, IsFiniteSet(D), NEW column, \A d \in D : column[d] \in Int,
           NEW I, IsFiniteSet(I), NEW names, \A i \in I : names[i] \in D,
           \A d \in D : \E i \in I : names[i] = d,
           \A i, j \in I : names[i] = names[j] => i = j
    PROVE  Sum([i \in I |-> column[names[i]]]) = Sum(OnRows(column, D))
<1> DEFINE f == [i \in I |-> column[names[i]]]
<1>1. Sum(ByKey(f, names, I, D)) = Sum(OnRows(f, I))
  BY SumByKey
<1>2. OnRows(f, I) = f
  BY DEF OnRows
<1>3. ByKey(f, names, I, D) = OnRows(column, D)
  <2>1. ASSUME NEW d \in D
        PROVE  Sum(OnRows(f, OfKey(names, I, d))) = column[d]
    <3>1. PICK i \in I : names[i] = d
      OBVIOUS
    <3>2. OfKey(names, I, d) = {i}
      BY <3>1 DEF OfKey
    <3>3. f[i] = column[d] /\ f[i] \in Int
      BY <3>1
    <3> HIDE DEF f
    <3>4. Sum(OnRows(f, {i})) = f[i]
      BY <3>3, SumOfOne
    <3> QED
      BY <3>2, <3>3, <3>4
  <2> HIDE DEF f
  <2> QED
    BY <2>1 DEF ByKey, OnRows
<1> QED
  BY <1>1, <1>2, <1>3

\* The sums down the columns of a table add up to those along its rows.
THEOREM SumOfTable ==
    ASSUME NEW A, IsFiniteSet(A), NEW B, IsFiniteSet(B), NEW table,
           \A a \in A, b \in B : table[a][b] \in Int
    PROVE  Sum([a \in A |-> Sum([b \in B |-> table[a][b]])]) = Sum([b \in B |-> Sum([a \in A |-> table[a][b]])])
<1> DEFINE Along(a) == Sum([b \in B |-> table[a][b]])
           down(rows) == [b \in B |-> Sum([a \in rows |-> table[a][b]])]
           along == [a \in A |-> Along(a)]
           F == {rows \in SUBSET A : Sum(OnRows(along, rows)) = Sum(down(rows))}
<1>0. \A a \in A : along[a] \in Int
  <2> SUFFICES ASSUME NEW a \in A PROVE Along(a) \in Int
    OBVIOUS
  <2>1. Sum(OnRows(table[a], B)) \in Int
    BY SumType
  <2> QED
    BY <2>1 DEF OnRows
<1>1. {} \in F
  <2>1. \A b \in B : down({})[b] = 0
    BY SumOfNone
  <2>2. OnRows(down({}), B) = down({})
    BY DEF OnRows
  <2>3. Sum(OnRows(down({}), B)) = 0
    <3> HIDE DEF down
    <3> QED
      BY <2>1, SumOfNoughts
  <2>4. Sum(OnRows(along, {})) = 0
    BY SumOfNone DEF OnRows
  <2> QED
    BY <2>2, <2>3, <2>4
<1>2. ASSUME NEW rows \in SUBSET A, NEW x \in A \ rows, rows \in F
      PROVE  rows \cup {x} \in F
  <2> DEFINE more == rows \cup {x}
             f == [b \in B |-> table[x][b]]
  <2>0. IsFiniteSet(rows)
    BY FS_Subset
  <2>1. ASSUME NEW b \in B
        PROVE  /\ f[b] \in Int /\ down(rows)[b] \in Int
               /\ down(more)[b] = f[b] + down(rows)[b]
    <3> DEFINE c == [a \in A |-> table[a][b]]
    <3>1. /\ Sum(OnRows(c, rows)) \in Int
          /\ Sum(OnRows(c, rows \cup {x})) = c[x] + Sum(OnRows(c, rows))
      <4>1. \A y \in rows \cup {x} : c[y] \in Int
        OBVIOUS
      <4> HIDE DEF c
      <4> QED
        BY <2>0, <4>1, SumOfMore
    <3>2. OnRows(c, rows) = [a \in rows |-> table[a][b]] /\ OnRows(c, rows \cup {x}) = [a \in more |-> table[a][b]]
      BY DEF OnRows
    <3>3. c[x] = f[b] /\ f[b] \in Int
      OBVIOUS
    <3> HIDE DEF c
    <3> QED
      BY <3>1, <3>2, <3>3
  <2>2. OnRows(down(more), B) = down(more) /\ OnRows(f, B) = f /\ OnRows(down(rows), B) = down(rows)
    BY DEF OnRows
  <2>3. Sum(OnRows(down(more), B)) = Sum(OnRows(f, B)) + Sum(OnRows(down(rows), B))
    <3> HIDE DEF down, f, more
    <3> QED
      BY <2>1, SumOfPairs
  <2>4. Sum(OnRows(along, more)) = along[x] + Sum(OnRows(along, rows))
    <3> HIDE DEF along
    <3> QED
      BY <1>0, <2>0, SumOfMore
  <2>5. along[x] = Sum(f)
    OBVIOUS
  <2>6. Sum(OnRows(along, more)) = Sum(down(more))
    <3> HIDE DEF along, f, down, more
    <3> QED
      BY <1>2, <2>2, <2>3, <2>4, <2>5
  <2> QED
    BY <2>6
<1>3. A \in F
  <2> HIDE DEF F
  <2> QED
    BY <1>1, <1>2, RowByRow
<1>4. OnRows(along, A) = along
  BY DEF OnRows
<1> QED
  BY <1>3, <1>4
\* Parts of a total, each rounded to a whole share out of ten thousand, make up ten thousand
\* to half a share for each.
Rounded(share, part, total) == 2 * (total * share) - 20000 * part \in (0 - total)..total

THEOREM SharesOfTotal ==
    ASSUME NEW D, IsFiniteSet(D), NEW total \in Nat \ {0}, NEW part, NEW share,
           \A d \in D : part[d] \in Int /\ share[d] \in Int /\ Rounded(share[d], part[d], total),
           Sum(OnRows(part, D)) = total
    PROVE  /\ 2 * (Sum(OnRows(share, D)) - 10000) <= Cardinality(D)
           /\ 2 * (10000 - Sum(OnRows(share, D))) <= Cardinality(D)
<1> DEFINE Parts(rows) == Sum(OnRows(part, rows))
           Shares(rows) == Sum(OnRows(share, rows))
           Close(s, p, n) == /\ 2 * (total * s) - 20000 * p <= total * n
                             /\ 0 - total * n <= 2 * (total * s) - 20000 * p
           F == {rows \in SUBSET D : Close(Shares(rows), Parts(rows), Cardinality(rows))}
<1>1. {} \in F
  <2>1. Parts({}) = 0 /\ Shares({}) = 0 /\ Cardinality({}) = 0
    BY SumOfNone, FS_EmptySet DEF OnRows
  <2>2. Close(0, 0, 0)
    OBVIOUS
  <2> HIDE DEF Parts, Shares, Close
  <2> QED
    BY <2>1, <2>2
<1>2. ASSUME NEW rows \in SUBSET D, NEW x \in D \ rows, rows \in F
      PROVE  rows \cup {x} \in F
  <2>1. IsFiniteSet(rows)
    BY FS_Subset
  <2>2. Parts(rows) \in Int /\ Parts(rows \cup {x}) = part[x] + Parts(rows)
    BY <2>1, SumOfMore
  <2>3. Shares(rows) \in Int /\ Shares(rows \cup {x}) = share[x] + Shares(rows)
    BY <2>1, SumOfMore
  <2>4. Cardinality(rows) \in Nat /\ Cardinality(rows \cup {x}) = Cardinality(rows) + 1
    BY <2>1, FS_AddElement, FS_CardinalityType
  <2>5. ASSUME NEW s \in Int, NEW p \in Int, NEW n \in Nat, NEW s1 \in Int, NEW p1 \in Int,
               Close(s, p, n), Rounded(s1, p1, total)
        PROVE  Close(s1 + s, p1 + p, n + 1)
    <3>1. total * (s1 + s) = total * s1 + total * s /\ total * (n + 1) = total * n + total
      OBVIOUS
    <3> DEFINE a == total * s1
               b == total * s
               c == total * n
    <3>2. a \in Int /\ b \in Int /\ c \in Int
      OBVIOUS
    <3>3. 2 * b - 20000 * p <= c /\ 0 - c <= 2 * b - 20000 * p
      BY <2>5
    <3>4. 2 * a - 20000 * p1 <= total /\ 0 - total <= 2 * a - 20000 * p1
      BY <2>5 DEF Rounded
    <3> HIDE DEF a, b, c
    <3>5. /\ 2 * (a + b) - 20000 * (p1 + p) <= c + total
          /\ 0 - (c + total) <= 2 * (a + b) - 20000 * (p1 + p)
      BY <3>2, <3>3, <3>4
    <3> QED
      BY <3>1, <3>5 DEF a, b, c
  <2>6. Close(Shares(rows), Parts(rows), Cardinality(rows))
    BY <1>2
  <2> HIDE DEF Parts, Shares, Close
  <2>7. Close(share[x] + Shares(rows), part[x] + Parts(rows), Cardinality(rows) + 1)
    BY <2>2, <2>3, <2>4, <2>5, <2>6
  <2> QED
    BY <2>2, <2>3, <2>4, <2>7
<1>3. D \in F
  <2> HIDE DEF F
  <2> QED
    BY <1>1, <1>2, RowByRow
<1>4. Close(Shares(D), total, Cardinality(D)) /\ Shares(D) \in Int /\ Cardinality(D) \in Nat
  BY <1>3, SumType, FS_CardinalityType
<1>5. ASSUME NEW s \in Int, NEW n \in Nat, Close(s, total, n)
      PROVE  2 * (s - 10000) <= n /\ 2 * (10000 - s) <= n
  <2> DEFINE e == 2 * (s - 10000)
  <2>1. e \in Int /\ total * e <= total * n /\ 0 - total * n <= total * e
    <3>1. total * e = 2 * (total * s) - 20000 * total
      OBVIOUS
    <3> QED
      BY <1>5, <3>1
  <2> HIDE DEF e
  <2>2. e <= n
    <3> SUFFICES ASSUME e >= n + 1 PROVE FALSE
      BY <2>1
    <3>1. total * e >= total * (n + 1)
      BY <2>1
    <3>2. total * (n + 1) = total * n + total
      OBVIOUS
    <3> QED
      BY <2>1, <3>1, <3>2
  <2>3. 0 - e <= n
    <3> SUFFICES ASSUME 0 - e >= n + 1 PROVE FALSE
      BY <2>1
    <3>1. total * (0 - e) >= total * (n + 1)
      BY <2>1
    <3>2. total * (n + 1) = total * n + total /\ total * (0 - e) = 0 - total * e
      BY <2>1
    <3> QED
      BY <2>1, <3>1, <3>2
  <2> QED
    BY <2>2, <2>3 DEF e
<1> HIDE DEF Close
<1> QED
  BY <1>4, <1>5

\* Amounts in hundredths of a cent, each rounded to the cent, half a cent up.
NearestCent(cents, part) == 100 * cents - part \in (0 - 49)..50

\* Rounding each of them and rounding their sum differ by half a cent for each.
THEOREM SumOfRounded ==
    ASSUME NEW D, IsFiniteSet(D), D # {}, NEW part, NEW cents,
           \A d \in D : part[d] \in Int /\ cents[d] \in Int /\ NearestCent(cents[d], part[d]),
           NEW sum \in Int, NearestCent(sum, Sum(OnRows(part, D)))
    PROVE  /\ Sum(OnRows(cents, D)) \in Int
           /\ 2 * (Sum(OnRows(cents, D)) - sum) <= Cardinality(D)
           /\ 2 * (sum - Sum(OnRows(cents, D))) <= Cardinality(D)
<1> DEFINE Parts(rows) == Sum(OnRows(part, rows))
           Cents(rows) == Sum(OnRows(cents, rows))
           Close(c, p, n) == 100 * c - p <= 50 * n /\ 0 - 49 * n <= 100 * c - p
           F == {rows \in SUBSET D : Close(Cents(rows), Parts(rows), Cardinality(rows))}
<1>1. {} \in F
  <2>1. Parts({}) = 0 /\ Cents({}) = 0 /\ Cardinality({}) = 0
    BY SumOfNone, FS_EmptySet DEF OnRows
  <2>2. Close(0, 0, 0)
    OBVIOUS
  <2> HIDE DEF Parts, Cents, Close
  <2> QED
    BY <2>1, <2>2
<1>2. ASSUME NEW rows \in SUBSET D, NEW x \in D \ rows, rows \in F
      PROVE  rows \cup {x} \in F
  <2>1. IsFiniteSet(rows)
    BY FS_Subset
  <2>2. Parts(rows) \in Int /\ Parts(rows \cup {x}) = part[x] + Parts(rows)
    BY <2>1, SumOfMore
  <2>3. Cents(rows) \in Int /\ Cents(rows \cup {x}) = cents[x] + Cents(rows)
    BY <2>1, SumOfMore
  <2>4. Cardinality(rows) \in Nat /\ Cardinality(rows \cup {x}) = Cardinality(rows) + 1
    BY <2>1, FS_AddElement, FS_CardinalityType
  <2>5. ASSUME NEW c \in Int, NEW p \in Int, NEW n \in Nat, NEW c1 \in Int, NEW p1 \in Int,
               Close(c, p, n), NearestCent(c1, p1)
        PROVE  Close(c1 + c, p1 + p, n + 1)
    BY <2>5 DEF NearestCent
  <2>6. Close(Cents(rows), Parts(rows), Cardinality(rows)) /\ NearestCent(cents[x], part[x])
    BY <1>2
  <2> HIDE DEF Parts, Cents, Close
  <2>7. Close(cents[x] + Cents(rows), part[x] + Parts(rows), Cardinality(rows) + 1)
    BY <2>2, <2>3, <2>4, <2>5, <2>6
  <2> QED
    BY <2>2, <2>3, <2>4, <2>7
<1>3. D \in F
  <2> HIDE DEF F
  <2> QED
    BY <1>1, <1>2, RowByRow
<1>4. /\ Close(Cents(D), Parts(D), Cardinality(D)) /\ Cents(D) \in Int /\ Parts(D) \in Int
      /\ Cardinality(D) \in Nat /\ Cardinality(D) # 0
  BY <1>3, SumType, FS_CardinalityType, FS_EmptySet
<1>5. ASSUME NEW c \in Int, NEW p \in Int, NEW n \in Nat \ {0}, Close(c, p, n), NearestCent(sum, p)
      PROVE  2 * (c - sum) <= n /\ 2 * (sum - c) <= n
  BY <1>5 DEF NearestCent
<1> HIDE DEF Parts, Cents, Close
<1>6. NearestCent(sum, Parts(D))
  BY DEF Parts
<1>7. 2 * (Cents(D) - sum) <= Cardinality(D) /\ 2 * (sum - Cents(D)) <= Cardinality(D)
  BY <1>4, <1>5, <1>6
<1> QED
  BY <1>4, <1>7 DEF Cents
=============================================================================
