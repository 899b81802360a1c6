---------------------------- MODULE LineDiffProofs ----------------------------
(***************************************************************************)
(* Proofs about LineDiff, for texts of any length over any lines.           *)
(***************************************************************************)
EXTENDS LineDiff, Integers, FiniteSetTheorems, WellFoundedInduction, TLAPS

\* A set of numbers that is not empty has a least one.
LEMMA LeastNumber ==
  ASSUME NEW S \in SUBSET Nat, S # {}
  PROVE  \E n \in S : \A m \in S : n <= m
<1>1. PICK n \in S : \A m \in S : <<m, n>> \notin OpToRel(<, Nat)
  BY NatLessThanWellFounded, WFMin
<1>2. \A m \in S : ~(m < n)
  BY <1>1 DEF OpToRel
<1> QED
  BY <1>2

-----------------------------------------------------------------------------
\* The table.
Cells(l, r) == (1 .. Len(l) + 1) \X (1 .. Len(r) + 1)

\* How far a cell is from the table's end.
Rank(l, r, a, b) == (Len(l) + 1 - a) + (Len(r) + 1 - b)

\* The cells at most n away from the end are as they must be.
Filled(l, r, t, n) ==
  \A a \in 1 .. Len(l) + 1, b \in 1 .. Len(r) + 1 :
    Rank(l, r, a, b) <= n => t[<<a, b>>] = Cell(l, r, t, a, b)

LEMMA FillMore ==
  ASSUME NEW S, NEW l \in Seq(S), NEW r \in Seq(S), NEW n \in Nat,
         NEW t \in [Cells(l, r) -> Nat], Filled(l, r, t, n)
  PROVE  \E u \in [Cells(l, r) -> Nat] : Filled(l, r, u, n + 1)
<1> DEFINE u == [c \in Cells(l, r) |-> Cell(l, r, t, c[1], c[2])]
<1>1. ASSUME NEW a \in 1 .. Len(l) + 1, NEW b \in 1 .. Len(r) + 1
      PROVE  u[<<a, b>>] = Cell(l, r, t, a, b) /\ Cell(l, r, t, a, b) \in Nat
  <2>1. <<a, b>> \in Cells(l, r) /\ <<a, b>>[1] = a /\ <<a, b>>[2] = b
    BY DEF Cells
  <2>2. Cell(l, r, t, a, b) \in Nat
    <3>1. CASE a > Len(l) \/ b > Len(r)
      BY <3>1 DEF Cell
    <3>2. CASE ~(a > Len(l) \/ b > Len(r))
      <4>1. /\ <<a + 1, b>> \in Cells(l, r) /\ <<a, b + 1>> \in Cells(l, r)
            /\ <<a + 1, b + 1>> \in Cells(l, r)
        BY <3>2 DEF Cells
      <4>2. t[<<a + 1, b>>] \in Nat /\ t[<<a, b + 1>>] \in Nat /\ t[<<a + 1, b + 1>>] \in Nat
        BY <4>1
      <4> QED
        BY <4>2 DEF Cell
    <3> QED
      BY <3>1, <3>2
  <2> QED
    BY <2>1, <2>2
<1>2. u \in [Cells(l, r) -> Nat]
  BY <1>1 DEF Cells
<1> HIDE DEF u
<1>3. \A a \in 1 .. Len(l) + 1, b \in 1 .. Len(r) + 1 :
        Rank(l, r, a, b) <= n => u[<<a, b>>] = t[<<a, b>>]
  BY <1>1 DEF Filled
<1>4. ASSUME NEW a \in 1 .. Len(l) + 1, NEW b \in 1 .. Len(r) + 1, Rank(l, r, a, b) <= n + 1
      PROVE  Cell(l, r, t, a, b) = Cell(l, r, u, a, b)
  <2>1. CASE a > Len(l) \/ b > Len(r)
    BY <2>1 DEF Cell
  <2>2. CASE ~(a > Len(l) \/ b > Len(r))
    <3>1. /\ a + 1 \in 1 .. Len(l) + 1 /\ b + 1 \in 1 .. Len(r) + 1
          /\ Rank(l, r, a + 1, b) <= n /\ Rank(l, r, a, b + 1) <= n
          /\ Rank(l, r, a + 1, b + 1) <= n
      BY <1>4, <2>2 DEF Rank
    <3>2. /\ u[<<a + 1, b>>] = t[<<a + 1, b>>] /\ u[<<a, b + 1>>] = t[<<a, b + 1>>]
          /\ u[<<a + 1, b + 1>>] = t[<<a + 1, b + 1>>]
      BY <1>3, <3>1
    <3> QED
      BY <3>2 DEF Cell
  <2> QED
    BY <2>1, <2>2
<1>5. Filled(l, r, u, n + 1)
  BY <1>1, <1>4 DEF Filled
<1> QED
  BY <1>2, <1>5

LEMMA SomeFilled ==
  ASSUME NEW S, NEW l \in Seq(S), NEW r \in Seq(S)
  PROVE  \A n \in Nat : \E u \in [Cells(l, r) -> Nat] : Filled(l, r, u, n)
<1> DEFINE Good(n) == \E u \in [Cells(l, r) -> Nat] : Filled(l, r, u, n)
           bad == {n \in Nat : ~Good(n)}
<1>1. Good(0)
  <2> DEFINE u == [c \in Cells(l, r) |-> 0]
  <2>1. u \in [Cells(l, r) -> Nat]
    OBVIOUS
  <2>2. ASSUME NEW a \in 1 .. Len(l) + 1, NEW b \in 1 .. Len(r) + 1, Rank(l, r, a, b) <= 0
        PROVE  u[<<a, b>>] = Cell(l, r, u, a, b)
    <3>1. a > Len(l)
      BY <2>2 DEF Rank
    <3>2. <<a, b>> \in Cells(l, r)
      BY DEF Cells
    <3> QED
      BY <3>1, <3>2 DEF Cell
  <2> HIDE DEF u
  <2> QED
    BY <2>1, <2>2 DEF Filled
<1>2. ASSUME NEW n \in Nat, Good(n) PROVE Good(n + 1)
  BY <1>2, FillMore
<1> HIDE DEF Good
<1>3. SUFFICES ASSUME bad # {} PROVE FALSE
  BY DEF Good
<1>4. PICK n \in bad : \A m \in bad : n <= m
  BY <1>3, LeastNumber
<1>5. n # 0 /\ n - 1 \in Nat /\ n - 1 \notin bad
  BY <1>1, <1>4
<1> QED
  BY <1>2, <1>4, <1>5

LEMMA TableCells ==
  ASSUME NEW S, NEW l \in Seq(S), NEW r \in Seq(S)
  PROVE  /\ Table(l, r) \in [Cells(l, r) -> Nat]
         /\ \A a \in 1 .. Len(l) + 1, b \in 1 .. Len(r) + 1 :
              Table(l, r)[<<a, b>>] = Cell(l, r, Table(l, r), a, b)
<1> DEFINE Fits(t) == t = [c \in Cells(l, r) |-> Cell(l, r, t, c[1], c[2])]
           T == Table(l, r)
<1>1. \E t : Fits(t)
  <2>0. PICK n \in Nat : n = Len(l) + Len(r)
    OBVIOUS
  <2>1. PICK t \in [Cells(l, r) -> Nat] : Filled(l, r, t, n)
    BY SomeFilled
  <2>2. \A a \in 1 .. Len(l) + 1, b \in 1 .. Len(r) + 1 : t[<<a, b>>] = Cell(l, r, t, a, b)
    <3>1. \A a \in 1 .. Len(l) + 1, b \in 1 .. Len(r) + 1 : Rank(l, r, a, b) <= n
      BY <2>0 DEF Rank
    <3> QED
      BY <2>1, <3>1 DEF Filled
  <2>3. \A c \in Cells(l, r) : t[c] = Cell(l, r, t, c[1], c[2])
    <3> SUFFICES ASSUME NEW c \in Cells(l, r) PROVE t[c] = Cell(l, r, t, c[1], c[2])
      OBVIOUS
    <3>1. PICK a \in 1 .. Len(l) + 1, b \in 1 .. Len(r) + 1 : c = <<a, b>>
      BY DEF Cells
    <3> QED
      BY <2>2, <3>1
  <2> QED
    BY <2>3
<1>2. T = CHOOSE t : Fits(t)
  BY DEF Table, Cells
<1>3. Fits(T)
  BY <1>1, <1>2
<1> HIDE DEF T
<1>4. /\ DOMAIN T = Cells(l, r) /\ T = [c \in Cells(l, r) |-> T[c]]
      /\ \A a \in 1 .. Len(l) + 1, b \in 1 .. Len(r) + 1 : T[<<a, b>>] = Cell(l, r, T, a, b)
  <2>1. DOMAIN T = Cells(l, r) /\ T = [c \in Cells(l, r) |-> T[c]]
    BY <1>3
  <2>2. ASSUME NEW a \in 1 .. Len(l) + 1, NEW b \in 1 .. Len(r) + 1
        PROVE  T[<<a, b>>] = Cell(l, r, T, a, b)
    <3>1. <<a, b>> \in Cells(l, r) /\ <<a, b>>[1] = a /\ <<a, b>>[2] = b
      BY DEF Cells
    <3>2. \A c \in Cells(l, r) : T[c] = Cell(l, r, T, c[1], c[2])
      BY <1>3
    <3> QED
      BY <3>1, <3>2
  <2> QED
    BY <2>1, <2>2
<1> HIDE DEF Fits
<1> DEFINE bad == {n \in Nat : \E a \in 1 .. Len(l) + 1, b \in 1 .. Len(r) + 1 :
                                 Rank(l, r, a, b) = n /\ T[<<a, b>>] \notin Nat}
<1>5. bad = {}
  <2> SUFFICES ASSUME bad # {} PROVE FALSE
    OBVIOUS
  <2>1. PICK n \in bad : \A m \in bad : n <= m
    BY LeastNumber
  <2>2. PICK a \in 1 .. Len(l) + 1, b \in 1 .. Len(r) + 1 :
          Rank(l, r, a, b) = n /\ T[<<a, b>>] \notin Nat
    OBVIOUS
  <2> HIDE DEF bad
  <2>3. ~(a > Len(l) \/ b > Len(r))
    <3>1. T[<<a, b>>] = Cell(l, r, T, a, b)
      BY <1>4
    <3>2. a > Len(l) \/ b > Len(r) => Cell(l, r, T, a, b) = 0
      BY DEF Cell
    <3> QED
      BY <2>2, <3>1, <3>2
  <2>4. /\ a + 1 \in 1 .. Len(l) + 1 /\ b + 1 \in 1 .. Len(r) + 1
        /\ Rank(l, r, a + 1, b) \in Nat /\ Rank(l, r, a + 1, b) < n
        /\ Rank(l, r, a, b + 1) \in Nat /\ Rank(l, r, a, b + 1) < n
        /\ Rank(l, r, a + 1, b + 1) \in Nat /\ Rank(l, r, a + 1, b + 1) < n
    BY <2>2, <2>3 DEF Rank
  <2>5. T[<<a + 1, b>>] \in Nat /\ T[<<a, b + 1>>] \in Nat /\ T[<<a + 1, b + 1>>] \in Nat
    <3>1. ASSUME NEW x \in 1 .. Len(l) + 1, NEW y \in 1 .. Len(r) + 1,
                 Rank(l, r, x, y) \in Nat, Rank(l, r, x, y) < n
          PROVE  T[<<x, y>>] \in Nat
      <4>1. Rank(l, r, x, y) \notin bad
        BY <2>1, <3>1 DEF bad
      <4> QED
        BY <3>1, <4>1 DEF bad
    <3> QED
      BY <2>4, <3>1
  <2>6. Cell(l, r, T, a, b) \in Nat
    BY <2>3, <2>5 DEF Cell
  <2> QED
    BY <1>4, <2>2, <2>6
<1>6. \A c \in Cells(l, r) : T[c] \in Nat
  <2> SUFFICES ASSUME NEW a \in 1 .. Len(l) + 1, NEW b \in 1 .. Len(r) + 1
               PROVE  T[<<a, b>>] \in Nat
    BY DEF Cells
  <2>1. Rank(l, r, a, b) \in Nat
    BY DEF Rank
  <2> QED
    BY <1>5, <2>1
<1> QED
  BY <1>4, <1>6 DEF T

\* The longest common subsequence of two texts is at most one longer than that
\* of the same texts with one line less, and never shorter.
NextTo(t, l, r, a, b) ==
  /\ a <= Len(l) => t[<<a + 1, b>>] <= t[<<a, b>>] /\ t[<<a, b>>] <= t[<<a + 1, b>>] + 1
  /\ b <= Len(r) => t[<<a, b + 1>>] <= t[<<a, b>>] /\ t[<<a, b>>] <= t[<<a, b + 1>>] + 1

LEMMA TableSteps ==
  ASSUME NEW S, NEW l \in Seq(S), NEW r \in Seq(S),
         NEW a \in 1 .. Len(l) + 1, NEW b \in 1 .. Len(r) + 1
  PROVE  NextTo(Table(l, r), l, r, a, b)
<1> DEFINE t == Table(l, r)
           bad == {n \in Nat : \E x \in 1 .. Len(l) + 1, y \in 1 .. Len(r) + 1 :
                                 Rank(l, r, x, y) = n /\ ~NextTo(t, l, r, x, y)}
<1>1. /\ \A x \in 1 .. Len(l) + 1, y \in 1 .. Len(r) + 1 : t[<<x, y>>] = Cell(l, r, t, x, y)
      /\ \A x \in 1 .. Len(l) + 1, y \in 1 .. Len(r) + 1 : t[<<x, y>>] \in Nat
  <2>1. \A x \in 1 .. Len(l) + 1, y \in 1 .. Len(r) + 1 : <<x, y>> \in Cells(l, r)
    BY DEF Cells
  <2> QED
    BY <2>1, TableCells
<1> HIDE DEF t
<1>2. SUFFICES ASSUME bad # {} PROVE FALSE
  <2>1. Rank(l, r, a, b) \in Nat
    BY DEF Rank
  <2> QED
    BY <1>2, <2>1 DEF t
<1>3. PICK n \in bad : \A m \in bad : n <= m
  BY <1>2, LeastNumber
<1>4. PICK x \in 1 .. Len(l) + 1, y \in 1 .. Len(r) + 1 :
        Rank(l, r, x, y) = n /\ ~NextTo(t, l, r, x, y)
  OBVIOUS
<1> HIDE DEF bad
<1>5. CASE x > Len(l) \/ y > Len(r)
  <2>1. t[<<x, y>>] = 0
    BY <1>1, <1>5 DEF Cell
  <2>2. x <= Len(l) => x + 1 \in 1 .. Len(l) + 1 /\ y > Len(r)
    BY <1>5
  <2>3. y <= Len(r) => y + 1 \in 1 .. Len(r) + 1 /\ x > Len(l)
    BY <1>5
  <2>4. x <= Len(l) => t[<<x + 1, y>>] = 0
    BY <1>1, <2>2 DEF Cell
  <2>5. y <= Len(r) => t[<<x, y + 1>>] = 0
    BY <1>1, <2>3 DEF Cell
  <2> QED
    BY <1>4, <2>1, <2>4, <2>5 DEF NextTo
<1>6. CASE ~(x > Len(l) \/ y > Len(r))
  <2>1. /\ x + 1 \in 1 .. Len(l) + 1 /\ y + 1 \in 1 .. Len(r) + 1
        /\ Rank(l, r, x + 1, y) \in Nat /\ Rank(l, r, x + 1, y) < n
        /\ Rank(l, r, x, y + 1) \in Nat /\ Rank(l, r, x, y + 1) < n
        /\ x <= Len(l) /\ y <= Len(r)
    BY <1>4, <1>6 DEF Rank
  <2>2. NextTo(t, l, r, x + 1, y) /\ NextTo(t, l, r, x, y + 1)
    BY <1>3, <2>1 DEF bad
  <2> DEFINE down == t[<<x + 1, y>>]
             across == t[<<x, y + 1>>]
             both == t[<<x + 1, y + 1>>]
             here == t[<<x, y>>]
  <2>3. down \in Nat /\ across \in Nat /\ both \in Nat /\ here \in Nat
    BY <1>1, <2>1
  <2>4. both <= down /\ down <= both + 1 /\ both <= across /\ across <= both + 1
    BY <2>1, <2>2 DEF NextTo
  <2>5. here = IF l[x] = r[y] THEN both + 1 ELSE IF down >= across THEN down ELSE across
    BY <1>1, <1>6 DEF Cell
  <2> HIDE DEF down, across, both, here
  <2>6. down <= here /\ here <= down + 1 /\ across <= here /\ here <= across + 1
    BY <2>3, <2>4, <2>5
  <2> QED
    BY <1>4, <2>6 DEF NextTo, down, across, here
<1> QED
  BY <1>5, <1>6

\* What holds at m, and at p + 1 if at p, holds from m to n.
LEMMA Upward ==
  ASSUME NEW m \in Int, NEW n \in Int, NEW S, m \in S,
         \A p \in m .. n - 1 : p \in S => p + 1 \in S
  PROVE  \A p \in m .. n : p \in S
<1> DEFINE bad == {d \in Nat : m + d <= n /\ m + d \notin S}
<1>1. SUFFICES ASSUME bad # {} PROVE FALSE
  <2> SUFFICES ASSUME NEW p \in m .. n, p \notin S PROVE bad # {}
    BY <1>1
  <2>1. p - m \in Nat /\ m + (p - m) = p
    OBVIOUS
  <2>2. p - m \in bad
    BY <2>1
  <2> QED
    BY <2>2
<1>2. PICK d \in bad : \A e \in bad : d <= e
  BY <1>1, LeastNumber
<1>3. d # 0
  BY <1>2
<1>4. d - 1 \in Nat /\ d - 1 \notin bad
  BY <1>2, <1>3
<1>5. m + (d - 1) \in m .. n - 1 /\ m + (d - 1) \in S /\ m + (d - 1) + 1 = m + d
  BY <1>4, <1>2
<1> QED
  BY <1>2, <1>5

\* The table falls from row to row and from column to column.
LEMMA TableFalls ==
  ASSUME NEW S, NEW l \in Seq(S), NEW r \in Seq(S),
         NEW a \in 1 .. Len(l) + 1, NEW b \in 1 .. Len(r) + 1,
         NEW c \in a .. Len(l) + 1, NEW d \in b .. Len(r) + 1
  PROVE  Table(l, r)[<<c, d>>] <= Table(l, r)[<<a, b>>]
<1> DEFINE t == Table(l, r)
<1>1. \A x \in 1 .. Len(l) + 1, y \in 1 .. Len(r) + 1 : t[<<x, y>>] \in Nat
  <2>1. \A x \in 1 .. Len(l) + 1, y \in 1 .. Len(r) + 1 : <<x, y>> \in Cells(l, r)
    BY DEF Cells
  <2> QED
    BY <2>1, TableCells
<1>2. \A x \in 1 .. Len(l) + 1, y \in 1 .. Len(r) + 1 : NextTo(t, l, r, x, y)
  BY TableSteps
<1> HIDE DEF t
<1>3. Len(l) \in Nat /\ Len(r) \in Nat
  OBVIOUS
<1>4. t[<<c, b>>] <= t[<<a, b>>]
  <2> DEFINE Below == {x \in a .. Len(l) + 1 : t[<<x, b>>] <= t[<<a, b>>]}
  <2>1. a \in Below
    BY <1>1
  <2>2. ASSUME NEW x \in a .. (Len(l) + 1) - 1, x \in Below PROVE x + 1 \in Below
    <3>1. x \in 1 .. Len(l) + 1 /\ x <= Len(l) /\ x + 1 \in 1 .. Len(l) + 1 /\ x + 1 \in a .. Len(l) + 1
      BY <1>3
    <3>2. t[<<x + 1, b>>] <= t[<<x, b>>]
      BY <1>2, <3>1 DEF NextTo
    <3> QED
      BY <1>1, <2>2, <3>1, <3>2
  <2> HIDE DEF Below
  <2>3. a \in Int /\ Len(l) + 1 \in Int
    BY <1>3
  <2>4. \A p \in a .. Len(l) + 1 : p \in Below
    BY <2>1, <2>2, <2>3, Upward, Zenon
  <2> QED
    BY <2>4 DEF Below
<1>5. t[<<c, d>>] <= t[<<c, b>>]
  <2> DEFINE Below == {y \in b .. Len(r) + 1 : t[<<c, y>>] <= t[<<c, b>>]}
  <2>0. c \in 1 .. Len(l) + 1
    BY <1>3
  <2>1. b \in Below
    BY <1>1, <2>0
  <2>2. ASSUME NEW y \in b .. (Len(r) + 1) - 1, y \in Below PROVE y + 1 \in Below
    <3>1. y \in 1 .. Len(r) + 1 /\ y <= Len(r) /\ y + 1 \in 1 .. Len(r) + 1 /\ y + 1 \in b .. Len(r) + 1
      BY <1>3
    <3>2. t[<<c, y + 1>>] <= t[<<c, y>>]
      BY <1>2, <2>0, <3>1 DEF NextTo
    <3> QED
      BY <1>1, <2>0, <2>2, <3>1, <3>2
  <2> HIDE DEF Below
  <2>3. b \in Int /\ Len(r) + 1 \in Int
    BY <1>3
  <2>4. \A p \in b .. Len(r) + 1 : p \in Below
    BY <2>1, <2>2, <2>3, Upward, Zenon
  <2> QED
    BY <2>4 DEF Below
<1> QED
  <2>1. c \in 1 .. Len(l) + 1 /\ d \in 1 .. Len(r) + 1
    BY <1>3
  <2> QED
    BY <1>1, <1>4, <1>5, <2>1 DEF t

-----------------------------------------------------------------------------
\* The lines of a call.
Line == Lines \cup {Empty}

LEMMA SplitLinesTyped ==
  ASSUME NEW text \in Texts
  PROVE  SplitLines(text) \in Seq(Line)
<1>1. PICK n \in Nat : text \in [1 .. n -> Line]
  BY DEF Texts, Line
<1>2. text \in Seq(Line) /\ DOMAIN text = 1 .. n /\ Len(text) = n
  BY <1>1
<1> DEFINE kept == {0} \cup {x \in DOMAIN text : text[x] # Empty}
           last == CHOOSE x \in kept : \A y \in kept : y <= x
           down == {n - x : x \in kept}
<1>3. kept \in SUBSET (0 .. n) /\ 0 \in kept
  BY <1>2
<1> HIDE DEF kept
<1>4. down \in SUBSET Nat /\ down # {}
  BY <1>3
<1>5. PICK d \in down : \A e \in down : d <= e
  BY <1>4, LeastNumber
<1>6. PICK x \in kept : d = n - x
  BY <1>5
<1>7. \A y \in kept : y <= x
  <2> SUFFICES ASSUME NEW y \in kept PROVE y <= x
    OBVIOUS
  <2>1. n - y \in down
    OBVIOUS
  <2> QED
    BY <1>3, <1>5, <1>6, <2>1
<1>8. last \in kept
  BY <1>7
<1> HIDE DEF last
<1>9. last \in 0 .. n
  BY <1>3, <1>8
<1>10. SplitLines(text) = SubSeq(text, 1, last)
  BY DEF SplitLines, kept, last
<1>11. SubSeq(text, 1, last) \in Seq(Line)
  BY <1>2, <1>9
<1> QED
  BY <1>10, <1>11

-----------------------------------------------------------------------------
\* The walk.  A row of the texts l and r with table t, as it is walked past at
\* a, b, to a2, b2.
Rows == [op : {"equal", "delete", "add", "change"}, i : Nat, j : Nat]

WalkedPast(l, r, t, row, a, b, a2, b2) ==
  \/ /\ a \in 1 .. Len(l) /\ b \in 1 .. Len(r) /\ l[a] = r[b]
     /\ row = EqualRow(a, b) /\ a2 = a + 1 /\ b2 = b + 1
  \/ /\ a \in 1 .. Len(l) /\ b \in 1 .. Len(r) + 1
     /\ b <= Len(r) => l[a] # r[b] /\ t[<<a + 1, b>>] >= t[<<a, b + 1>>]
     /\ row = DeleteRow(a) /\ a2 = a + 1 /\ b2 = b
  \/ /\ a \in 1 .. Len(l) + 1 /\ b \in 1 .. Len(r)
     /\ a <= Len(l) => l[a] # r[b] /\ ~(t[<<a + 1, b>>] >= t[<<a, b + 1>>])
     /\ row = AddRow(b) /\ a2 = a /\ b2 = b + 1

\* x and y are the positions in the two texts before each row of the walk, and
\* after the last.
Path(x, y) ==
  /\ x \in [1 .. Len(raws) + 1 -> Nat] /\ y \in [1 .. Len(raws) + 1 -> Nat]
  /\ x[1] = 1 /\ y[1] = 1
  /\ x[Len(raws) + 1] = i /\ y[Len(raws) + 1] = j
  /\ \A n \in 1 .. Len(raws) : WalkedPast(left, right, lcs, raws[n], x[n], y[n], x[n + 1], y[n + 1])

CallOK ==
  /\ left \in Seq(Line) /\ right \in Seq(Line)
  /\ lcs = Table(left, right)
  /\ raws \in Seq(Rows)
  /\ left = right => i = j /\ \A n \in 1 .. Len(raws) : raws[n].op = "equal"

LEMMA RowFields ==
  /\ \A a \in Nat, b \in Nat :
       /\ EqualRow(a, b) \in Rows /\ EqualRow(a, b).op = "equal"
       /\ EqualRow(a, b).i = a /\ EqualRow(a, b).j = b
       /\ ChangeRow(a, b) \in Rows /\ ChangeRow(a, b).op = "change"
       /\ ChangeRow(a, b).i = a /\ ChangeRow(a, b).j = b
  /\ \A a \in Nat : /\ DeleteRow(a) \in Rows /\ DeleteRow(a).op = "delete"
                    /\ DeleteRow(a).i = a /\ DeleteRow(a).j = 0
  /\ \A b \in Nat : /\ AddRow(b) \in Rows /\ AddRow(b).op = "add"
                    /\ AddRow(b).i = 0 /\ AddRow(b).j = b
BY DEF Row, EqualRow, ChangeRow, DeleteRow, AddRow, Rows

LEMMA LcsCells ==
  ASSUME CallOK
  PROVE  \A a \in 1 .. Len(left) + 1, b \in 1 .. Len(right) + 1 :
           /\ lcs[<<a, b>>] \in Nat /\ lcs[<<a, b>>] = Cell(left, right, lcs, a, b)
           /\ NextTo(lcs, left, right, a, b)
           /\ \A c \in a .. Len(left) + 1, d \in b .. Len(right) + 1 :
                lcs[<<c, d>>] <= lcs[<<a, b>>]
<1>1. left \in Seq(Line) /\ right \in Seq(Line) /\ lcs = Table(left, right)
  BY DEF CallOK
<1> SUFFICES ASSUME NEW a \in 1 .. Len(left) + 1, NEW b \in 1 .. Len(right) + 1
             PROVE
           /\ lcs[<<a, b>>] \in Nat /\ lcs[<<a, b>>] = Cell(left, right, lcs, a, b)
           /\ NextTo(lcs, left, right, a, b)
           /\ \A c \in a .. Len(left) + 1, d \in b .. Len(right) + 1 :
                lcs[<<c, d>>] <= lcs[<<a, b>>]
  OBVIOUS
<1>2. <<a, b>> \in Cells(left, right)
  BY DEF Cells
<1>3. lcs[<<a, b>>] \in Nat /\ lcs[<<a, b>>] = Cell(left, right, lcs, a, b)
  BY <1>1, <1>2, TableCells
<1>4. NextTo(lcs, left, right, a, b)
  BY <1>1, TableSteps
<1>5. \A c \in a .. Len(left) + 1, d \in b .. Len(right) + 1 : lcs[<<c, d>>] <= lcs[<<a, b>>]
  BY <1>1, TableFalls
<1> QED
  BY <1>3, <1>4, <1>5

\* Every step of the walk keeps what is in common: an equal row takes one line
\* off it, the others none.
LEMMA WalkedPastKeeps ==
  ASSUME CallOK, NEW row, NEW a, NEW b, NEW a2, NEW b2, WalkedPast(left, right, lcs, row, a, b, a2, b2)
  PROVE  /\ a \in 1 .. Len(left) + 1 /\ b \in 1 .. Len(right) + 1
         /\ a2 \in a .. Len(left) + 1 /\ b2 \in b .. Len(right) + 1
         /\ row \in Rows /\ row.op \in {"equal", "delete", "add"}
         /\ lcs[<<a, b>>] = lcs[<<a2, b2>>] + (IF row.op = "equal" THEN 1 ELSE 0)
<1>0. left \in Seq(Line) /\ right \in Seq(Line) /\ Len(left) \in Nat /\ Len(right) \in Nat
  BY DEF CallOK
<1>1. CASE /\ a \in 1 .. Len(left) /\ b \in 1 .. Len(right) /\ left[a] = right[b]
           /\ row = EqualRow(a, b) /\ a2 = a + 1 /\ b2 = b + 1
  <2>1. lcs[<<a, b>>] = lcs[<<a2, b2>>] + 1
    <3>1. a \in 1 .. Len(left) + 1 /\ b \in 1 .. Len(right) + 1
      BY <1>0, <1>1
    <3>2. lcs[<<a, b>>] = Cell(left, right, lcs, a, b)
      BY <3>1, LcsCells
    <3> QED
      BY <1>0, <1>1, <3>2 DEF Cell
  <2>2. a \in Nat /\ b \in Nat
    BY <1>1
  <2>3. row \in Rows /\ row.op = "equal"
    BY <1>1, <2>2, RowFields
  <2> QED
    BY <1>0, <1>1, <2>1, <2>3
<1>2. CASE /\ a \in 1 .. Len(left) /\ b \in 1 .. Len(right) + 1
           /\ b <= Len(right) => left[a] # right[b] /\ lcs[<<a + 1, b>>] >= lcs[<<a, b + 1>>]
           /\ row = DeleteRow(a) /\ a2 = a + 1 /\ b2 = b
  <2>1. lcs[<<a, b>>] = lcs[<<a2, b2>>] /\ lcs[<<a2, b2>>] \in Nat
    <3>1. a \in 1 .. Len(left) + 1 /\ a + 1 \in 1 .. Len(left) + 1
      BY <1>0, <1>2
    <3>2. /\ lcs[<<a, b>>] = Cell(left, right, lcs, a, b) /\ lcs[<<a + 1, b>>] \in Nat
          /\ lcs[<<a + 1, b>>] = Cell(left, right, lcs, a + 1, b)
      BY <1>2, <3>1, LcsCells
    <3> QED
      BY <1>0, <1>2, <3>2 DEF Cell
  <2> QED
    BY <1>0, <1>2, <2>1, RowFields
<1>3. CASE /\ a \in 1 .. Len(left) + 1 /\ b \in 1 .. Len(right)
           /\ a <= Len(left) => left[a] # right[b] /\ ~(lcs[<<a + 1, b>>] >= lcs[<<a, b + 1>>])
           /\ row = AddRow(b) /\ a2 = a /\ b2 = b + 1
  <2>1. lcs[<<a, b>>] = lcs[<<a2, b2>>] /\ lcs[<<a2, b2>>] \in Nat
    <3>1. b \in 1 .. Len(right) + 1 /\ b + 1 \in 1 .. Len(right) + 1
      BY <1>0, <1>3
    <3>2. /\ lcs[<<a, b>>] = Cell(left, right, lcs, a, b) /\ lcs[<<a, b + 1>>] \in Nat
          /\ lcs[<<a, b + 1>>] = Cell(left, right, lcs, a, b + 1)
      BY <1>3, <3>1, LcsCells
    <3> QED
      BY <1>0, <1>3, <3>2 DEF Cell
  <2> QED
    BY <1>0, <1>3, <2>1, RowFields
<1> QED
  BY <1>1, <1>2, <1>3 DEF WalkedPast

\* No deletion follows an addition: a tie goes to the deletion.
LEMMA DeletesFirst ==
  ASSUME CallOK, NEW row, NEW a, NEW b, NEW a2, NEW b2, WalkedPast(left, right, lcs, row, a, b, a2, b2),
         NEW next, NEW a3, NEW b3, WalkedPast(left, right, lcs, next, a2, b2, a3, b3), row.op = "add"
  PROVE  next.op # "delete"
<1>0. left \in Seq(Line) /\ right \in Seq(Line) /\ Len(left) \in Nat /\ Len(right) \in Nat
  BY DEF CallOK
<1>1. /\ a \in 1 .. Len(left) + 1 /\ b \in 1 .. Len(right)
      /\ a <= Len(left) => left[a] # right[b] /\ ~(lcs[<<a + 1, b>>] >= lcs[<<a, b + 1>>])
      /\ a2 = a /\ b2 = b + 1
  BY RowFields DEF WalkedPast
<1>2. SUFFICES ASSUME next.op = "delete" PROVE FALSE
  OBVIOUS
<1>3. /\ a \in 1 .. Len(left)
      /\ b + 1 <= Len(right) => left[a] # right[b + 1] /\ lcs[<<a + 1, b + 1>>] >= lcs[<<a, b + 2>>]
  BY <1>0, <1>1, <1>2, RowFields DEF WalkedPast
<1>4. /\ a + 1 \in 1 .. Len(left) + 1 /\ b + 1 \in 1 .. Len(right) + 1
      /\ a \in 1 .. Len(left) + 1 /\ b \in 1 .. Len(right) + 1
  BY <1>0, <1>1, <1>3
<1>5. /\ lcs[<<a, b + 1>>] = Cell(left, right, lcs, a, b + 1)
      /\ lcs[<<a, b + 1>>] \in Nat /\ lcs[<<a + 1, b>>] \in Nat /\ lcs[<<a + 1, b + 1>>] \in Nat
      /\ NextTo(lcs, left, right, a + 1, b)
  BY <1>4, LcsCells
<1>6. lcs[<<a + 1, b + 1>>] <= lcs[<<a + 1, b>>]
  BY <1>0, <1>1, <1>5 DEF NextTo
<1>7. lcs[<<a + 1, b>>] < lcs[<<a, b + 1>>]
  BY <1>1, <1>3, <1>5
<1>8. lcs[<<a, b + 1>>] <= lcs[<<a + 1, b + 1>>]
  BY <1>0, <1>3, <1>4, <1>5 DEF Cell
<1> QED
  BY <1>5, <1>6, <1>7, <1>8

LEMMA PathBounds ==
  ASSUME CallOK, NEW x, NEW y, Path(x, y), NEW n \in 1 .. Len(raws) + 1
  PROVE  x[n] \in 1 .. Len(left) + 1 /\ y[n] \in 1 .. Len(right) + 1
<1>0. Len(raws) \in Nat /\ Len(left) \in Nat /\ Len(right) \in Nat
  BY DEF CallOK
<1>1. CASE n = 1
  BY <1>0, <1>1 DEF Path
<1>2. CASE n # 1
  <2>1. n - 1 \in 1 .. Len(raws) /\ (n - 1) + 1 = n
    BY <1>0, <1>2
  <2>2. WalkedPast(left, right, lcs, raws[n - 1], x[n - 1], y[n - 1], x[n], y[n])
    BY <2>1 DEF Path
  <2>3. /\ x[n - 1] \in 1 .. Len(left) + 1 /\ y[n - 1] \in 1 .. Len(right) + 1
        /\ x[n] \in x[n - 1] .. Len(left) + 1 /\ y[n] \in y[n - 1] .. Len(right) + 1
    BY <2>2, WalkedPastKeeps
  <2> QED
    BY <1>0, <2>3
<1> QED
  BY <1>1, <1>2

\* A step of the walk adds a row to the path.
LEMMA PathGrows ==
  ASSUME CallOK, NEW x, NEW y, Path(x, y), NEW row \in Rows, NEW i2, NEW j2,
         i' = i2, j' = j2, WalkedPast(left, right, lcs, row, i, j, i2, j2), raws' = Append(raws, row),
         UNCHANGED <<left, right, lcs>>
  PROVE  /\ CallOK'
         /\ \E x2, y2 : Path(x2, y2)' /\ x2[1] = 1 /\ y2[1] = 1
<1>0. PICK n \in Nat : n = Len(raws)
  BY DEF CallOK
<1>1. /\ n \in Nat /\ Len(raws') = n + 1 /\ raws' \in Seq(Rows)
      /\ raws'[n + 1] = row /\ \A m \in 1 .. n : raws'[m] = raws[m]
  BY <1>0 DEF CallOK
<1>2. /\ x \in [1 .. n + 1 -> Nat] /\ y \in [1 .. n + 1 -> Nat]
      /\ x[1] = 1 /\ y[1] = 1 /\ x[n + 1] = i /\ y[n + 1] = j
      /\ \A m \in 1 .. n : WalkedPast(left, right, lcs, raws[m], x[m], y[m], x[m + 1], y[m + 1])
  BY <1>0 DEF Path
<1>3. i2 \in Nat /\ j2 \in Nat /\ i \in 1 .. Len(left) + 1 /\ j \in 1 .. Len(right) + 1
  <2>1. Len(left) \in Nat /\ Len(right) \in Nat
    BY DEF CallOK
  <2>2. /\ i \in 1 .. Len(left) + 1 /\ j \in 1 .. Len(right) + 1
        /\ i2 \in i .. Len(left) + 1 /\ j2 \in j .. Len(right) + 1
    BY WalkedPastKeeps, Zenon
  <2> QED
    BY <2>1, <2>2
<1> DEFINE x2 == [m \in 1 .. n + 2 |-> IF m <= n + 1 THEN x[m] ELSE i2]
           y2 == [m \in 1 .. n + 2 |-> IF m <= n + 1 THEN y[m] ELSE j2]
<1>4. /\ x2 \in [1 .. n + 2 -> Nat] /\ y2 \in [1 .. n + 2 -> Nat]
      /\ x2[n + 2] = i2 /\ y2[n + 2] = j2
      /\ \A m \in 1 .. n + 1 : x2[m] = x[m] /\ y2[m] = y[m]
  BY <1>1, <1>2, <1>3
<1> HIDE DEF x2, y2
<1>5. x2[1] = 1 /\ y2[1] = 1
  BY <1>1, <1>2, <1>4
<1>6. ASSUME NEW m \in 1 .. n + 1
      PROVE  WalkedPast(left, right, lcs, raws'[m], x2[m], y2[m], x2[m + 1], y2[m + 1])
  <2>1. CASE m = n + 1
    <3>1. m + 1 = n + 2
      BY <1>1, <2>1
    <3> QED
      BY <1>1, <1>2, <1>4, <2>1, <3>1
  <2>2. CASE m # n + 1
    <3>1. m \in 1 .. n /\ m + 1 \in 1 .. n + 1
      BY <1>1, <2>2
    <3> QED
      BY <1>1, <1>2, <1>4, <3>1
  <2> QED
    BY <2>1, <2>2
<1>8. \A m \in 1 .. n + 1 : WalkedPast(left, right, lcs, raws[m], x2[m], y2[m], x2[m + 1], y2[m + 1])'
  BY <1>6, Zenon
<1>9. Path(x2, y2)'
  <2>1. Len(raws') + 1 = n + 2 /\ Len(raws') = n + 1
    BY <1>1
  <2> QED
    BY <1>4, <1>5, <1>8, <2>1 DEF Path
<1>10. CallOK'
  <2>1. left = right => /\ i' = j' /\ \A m \in 1 .. n + 1 : raws'[m].op = "equal"
    <3> SUFFICES ASSUME left = right
                 PROVE  i' = j' /\ \A m \in 1 .. n + 1 : raws'[m].op = "equal"
      OBVIOUS
    <3>1. i = j /\ \A m \in 1 .. n : raws[m].op = "equal"
      BY <1>0 DEF CallOK
    <3>2. i' = j' /\ row.op = "equal"
      <4>1. Len(left) \in Nat /\ Len(left) = Len(right)
        BY DEF CallOK
      <4> QED
        BY <1>3, <3>1, <4>1, RowFields DEF WalkedPast
    <3> QED
      BY <1>1, <3>1, <3>2
  <2> QED
    BY <1>1, <2>1 DEF CallOK
<1> QED
  BY <1>5, <1>9, <1>10

-----------------------------------------------------------------------------
\* The answer so far.  A side of its rows accounts for the lines 1..n of a text.
Column(side, m, n) ==
  /\ side \in [1 .. m -> Nat]
  /\ \A a \in 1 .. n : \E r \in 1 .. m : side[r] = a
  /\ \A r \in 1 .. m : side[r] <= n
  /\ \A r, s \in 1 .. m : r < s /\ side[r] > 0 /\ side[s] > 0 => side[r] < side[s]

LeftOf(rows)    == [r \in 1 .. Len(rows) |-> rows[r].i]
RightOf(rows)   == [r \in 1 .. Len(rows) |-> rows[r].j]
EqualRows(rows) == {r \in 1 .. Len(rows) : rows[r].op = "equal"}
AllEqual(rows)  == \A r \in 1 .. Len(rows) : rows[r].op = "equal"

\* In a collapsed answer a row with op may be followed by one with next.
Follows(op, next) ==
  {op, next} # {"add", "delete"} /\ (op \in {"add", "delete"} => next # "change")

\* The answer accounts for the walk up to positions a, b.
Account(a, b) ==
  /\ out \in Seq(Rows)
  /\ Column(LeftOf(out), Len(out), a - 1) /\ Column(RightOf(out), Len(out), b - 1)
  /\ \A r \in 1 .. Len(out) : out[r].op = "equal" => left[out[r].i] = right[out[r].j]
  /\ \A r \in 1 .. Len(out) : out[r].op = "change" => left[out[r].i] # right[out[r].j]
  /\ \A r \in 1 .. Len(out) - 1 : Follows(out[r].op, out[r + 1].op)
  /\ IsFiniteSet(EqualRows(out))
  /\ Cardinality(EqualRows(out)) = lcs[<<1, 1>>] - lcs[<<a, b>>]
  /\ left = right => AllEqual(out)
  /\ AllEqual(out) => /\ a = Len(out) + 1 /\ b = Len(out) + 1
                      /\ \A r \in 1 .. Len(out) : out[r].i = r /\ out[r].j = r

\* What the rows to come may begin with.
Boundary ==
  k <= Len(raws) /\ Len(out) > 0 =>
    /\ out[Len(out)].op = "add" => raws[k].op # "delete"
    /\ out[Len(out)].op \in {"delete", "change"} => raws[k].op = "equal"

DiffInv ==
  /\ CallOK
  /\ pc \in {"idle", "walk", "collapse", "return"}
  /\ pc \in {"idle", "walk"} => k = 1 /\ out = <<>>
  /\ pc \in {"collapse", "return"} => i = Len(left) + 1 /\ j = Len(right) + 1
  /\ pc = "return" => k = Len(raws) + 1
  /\ k \in 1 .. Len(raws) + 1
  /\ Boundary
  /\ \E x, y : Path(x, y) /\ Account(x[k], y[k])

LEMMA NothingAnswered ==
  CallOK /\ out = <<>> => Account(1, 1)
<1> SUFFICES ASSUME CallOK, out = <<>> PROVE Account(1, 1)
  OBVIOUS
<1>1. Len(out) = 0 /\ out \in Seq(Rows) /\ 1 .. Len(out) = {}
  OBVIOUS
<1>2. EqualRows(out) = {} /\ LeftOf(out) \in [1 .. Len(out) -> Nat] /\ RightOf(out) \in [1 .. Len(out) -> Nat]
  BY <1>1 DEF EqualRows, LeftOf, RightOf
<1>3. IsFiniteSet({}) /\ Cardinality({}) = 0
  BY FS_EmptySet
<1>4. lcs[<<1, 1>>] \in Nat
  <2>1. 1 \in 1 .. Len(left) + 1 /\ 1 \in 1 .. Len(right) + 1
    BY DEF CallOK
  <2> QED
    BY <2>1, LcsCells
<1>5. Column(LeftOf(out), Len(out), 1 - 1) /\ Column(RightOf(out), Len(out), 1 - 1)
  BY <1>1, <1>2 DEF Column
<1>6. IsFiniteSet(EqualRows(out)) /\ Cardinality(EqualRows(out)) = lcs[<<1, 1>>] - lcs[<<1, 1>>]
  <2>1. lcs[<<1, 1>>] - lcs[<<1, 1>>] = 0
    BY <1>4
  <2> QED
    BY <1>2, <1>3, <2>1, Zenon
<1>7. 1 = Len(out) + 1 /\ 1 .. Len(out) - 1 = {}
  BY <1>1
<1>8. AllEqual(out)
  BY <1>1 DEF AllEqual
<1> QED
  BY <1>1, <1>5, <1>6, <1>7, <1>8 DEF Account

\* Rows are added to an account: they go on with the next d lines of a side.
LEMMA ColumnGrows ==
  ASSUME NEW m \in Nat, NEW n \in Nat, NEW h \in Nat, NEW d \in 0 .. h,
         NEW f, Column(f, m, n), NEW g \in [1 .. m + h -> Nat],
         \A r \in 1 .. m : g[r] = f[r],
         \A p \in 1 .. h : g[m + p] = IF p <= d THEN n + p ELSE 0
  PROVE  Column(g, m + h, n + d)
<1>1. /\ f \in [1 .. m -> Nat]
      /\ \A a \in 1 .. n : \E r \in 1 .. m : f[r] = a
      /\ \A r \in 1 .. m : f[r] <= n
      /\ \A r, s \in 1 .. m : r < s /\ f[r] > 0 /\ f[s] > 0 => f[r] < f[s]
  BY DEF Column
<1>2. ASSUME NEW r \in m + 1 .. m + h
      PROVE  r - m \in 1 .. h /\ g[r] = IF r - m <= d THEN n + (r - m) ELSE 0
  <2>1. r - m \in 1 .. h /\ m + (r - m) = r
    OBVIOUS
  <2> QED
    BY <2>1
<1>3. ASSUME NEW a \in 1 .. n + d PROVE \E r \in 1 .. m + h : g[r] = a
  <2>1. CASE a <= n
    <3>1. PICK r \in 1 .. m : f[r] = a
      BY <1>1, <2>1
    <3>2. r \in 1 .. m + h /\ g[r] = a
      BY <3>1
    <3> QED
      BY <3>2
  <2>2. CASE a > n
    <3>1. a - n \in 1 .. h /\ a - n <= d /\ m + (a - n) \in 1 .. m + h /\ n + (a - n) = a
      BY <2>2
    <3>2. g[m + (a - n)] = a
      BY <3>1
    <3> QED
      BY <3>1, <3>2
  <2> QED
    BY <2>1, <2>2
<1>4. ASSUME NEW r \in 1 .. m + h PROVE g[r] <= n + d
  <2>1. CASE r <= m
    BY <1>1, <2>1
  <2>2. CASE r > m
    BY <1>2, <2>2
  <2> QED
    BY <2>1, <2>2
<1>5. ASSUME NEW r \in 1 .. m + h, NEW s \in 1 .. m + h, r < s, g[r] > 0, g[s] > 0
      PROVE  g[r] < g[s]
  <2>1. CASE s <= m
    BY <1>1, <1>5, <2>1
  <2>2. CASE s > m /\ r <= m
    <3>1. f[r] \in Nat /\ f[r] <= n /\ g[r] = f[r]
      BY <1>1, <2>2
    <3>2. g[s] = n + (s - m) /\ s - m >= 1
      BY <1>2, <1>5, <2>2
    <3> QED
      BY <3>1, <3>2
  <2>3. CASE s > m /\ r > m
    <3>1. g[s] = n + (s - m) /\ g[r] = n + (r - m)
      BY <1>2, <1>5, <2>3
    <3> QED
      BY <1>5, <3>1
  <2> QED
    BY <2>1, <2>2, <2>3
<1> QED
  BY <1>3, <1>4, <1>5 DEF Column

\* How the rows H go on from lines a and b, past d lines of the old text and e
\* of the new one.
GoesOn(l, r, t, H, a, b, d, e) ==
  /\ d \in 0 .. Len(H) /\ e \in 0 .. Len(H)
  /\ \A p \in 1 .. Len(H) : /\ H[p].i = (IF p <= d THEN a - 1 + p ELSE 0)
                            /\ H[p].j = (IF p <= e THEN b - 1 + p ELSE 0)
                            /\ H[p].op = "equal" => l[H[p].i] = r[H[p].j]
                            /\ H[p].op = "change" => l[H[p].i] # r[H[p].j]
  /\ \A p \in 1 .. Len(H) - 1 : Follows(H[p].op, H[p + 1].op)
  /\ \/ /\ Len(H) = 1 /\ H[1].op = "equal" /\ d = 1 /\ e = 1
        /\ t[<<a, b>>] = t[<<a + 1, b + 1>>] + 1
     \/ /\ Len(H) > 0 /\ \A p \in 1 .. Len(H) : H[p].op # "equal"
        /\ t[<<a, b>>] = t[<<a + d, b + e>>] /\ l # r

LEMMA AccountGrows ==
  ASSUME CallOK, NEW a \in 1 .. Len(left) + 1, NEW b \in 1 .. Len(right) + 1, Account(a, b),
         NEW H \in Seq(Rows), NEW d, NEW e, GoesOn(left, right, lcs, H, a, b, d, e),
         a + d <= Len(left) + 1, b + e <= Len(right) + 1,
         Len(out) > 0 => Follows(out[Len(out)].op, H[1].op),
         out' = out \o H, UNCHANGED <<left, right, lcs>>
  PROVE  Account(a + d, b + e)'
<1>0. PICK m \in Nat, h \in Nat : m = Len(out) /\ h = Len(H)
  BY DEF Account
<1>1. /\ out \in Seq(Rows) /\ out' \in Seq(Rows) /\ Len(out') = m + h
      /\ \A r \in 1 .. m : out'[r] = out[r]
      /\ \A p \in 1 .. h : out'[m + p] = H[p]
      /\ d \in 0 .. h /\ e \in 0 .. h /\ h > 0 /\ a - 1 \in Nat /\ b - 1 \in Nat
      /\ a \in Int /\ b \in Int /\ d \in Int /\ e \in Int
  <2>1. out \in Seq(Rows)
    BY DEF Account
  <2>2. /\ out' \in Seq(Rows) /\ Len(out') = m + h
        /\ \A r \in 1 .. m : out'[r] = out[r]
        /\ \A p \in 1 .. h : out'[m + p] = H[p]
    BY <1>0, <2>1
  <2>3. d \in 0 .. h /\ e \in 0 .. h /\ h > 0
    BY <1>0 DEF GoesOn
  <2>4. a \in Int /\ b \in Int /\ a - 1 \in Nat /\ b - 1 \in Nat
    BY DEF CallOK
  <2>5. d \in Int /\ e \in Int
    BY <2>3
  <2> QED
    BY <2>1, <2>2, <2>3, <2>4, <2>5, Zenon
<1>2. ASSUME NEW r \in m + 1 .. m + h PROVE r - m \in 1 .. h /\ out'[r] = H[r - m]
  <2>1. r - m \in 1 .. h /\ m + (r - m) = r
    OBVIOUS
  <2> QED
    BY <1>1, <2>1
<1>3. Column(LeftOf(out'), m + h, (a - 1) + d)
  <2> DEFINE g == LeftOf(out')
             f == LeftOf(out)
  <2>1. g \in [1 .. m + h -> Nat] /\ \A r \in 1 .. m : g[r] = f[r]
    <3>1. \A r \in 1 .. m + h : out'[r] \in Rows
      BY <1>1
    <3>2. \A r \in 1 .. m + h : out'[r].i \in Nat
      BY <3>1 DEF Rows
    <3>4. \A r \in 1 .. m : r \in 1 .. m + h
      OBVIOUS
    <3>5. \A r \in 1 .. m : out'[r].i = out[r].i
      BY <1>1, Zenon
    <3>3. g = [r \in 1 .. m + h |-> out'[r].i] /\ f = [r \in 1 .. m |-> out[r].i]
      BY <1>0, <1>1 DEF LeftOf
    <3> QED
      BY <3>2, <3>3, <3>4, <3>5
  <2>2. \A p \in 1 .. h : g[m + p] = IF p <= d THEN (a - 1) + p ELSE 0
    <3> SUFFICES ASSUME NEW p \in 1 .. h PROVE g[m + p] = IF p <= d THEN (a - 1) + p ELSE 0
      OBVIOUS
    <3>1. m + p \in 1 .. Len(out')
      BY <1>1
    <3>2. g[m + p] = H[p].i
      BY <1>1, <3>1 DEF LeftOf
    <3> QED
      BY <1>0, <3>2 DEF GoesOn
  <2>3. Column(f, m, a - 1)
    BY <1>0 DEF Account
  <2> HIDE DEF g, f
  <2> QED
    BY <1>1, <2>1, <2>2, <2>3, ColumnGrows DEF g
<1>4. Column(RightOf(out'), m + h, (b - 1) + e)
  <2> DEFINE g == RightOf(out')
             f == RightOf(out)
  <2>1. g \in [1 .. m + h -> Nat] /\ \A r \in 1 .. m : g[r] = f[r]
    <3>1. \A r \in 1 .. m + h : out'[r] \in Rows
      BY <1>1
    <3>2. \A r \in 1 .. m + h : out'[r].j \in Nat
      BY <3>1 DEF Rows
    <3>4. \A r \in 1 .. m : r \in 1 .. m + h
      OBVIOUS
    <3>5. \A r \in 1 .. m : out'[r].j = out[r].j
      BY <1>1, Zenon
    <3>3. g = [r \in 1 .. m + h |-> out'[r].j] /\ f = [r \in 1 .. m |-> out[r].j]
      BY <1>0, <1>1 DEF RightOf
    <3> QED
      BY <3>2, <3>3, <3>4, <3>5
  <2>2. \A p \in 1 .. h : g[m + p] = IF p <= e THEN (b - 1) + p ELSE 0
    <3> SUFFICES ASSUME NEW p \in 1 .. h PROVE g[m + p] = IF p <= e THEN (b - 1) + p ELSE 0
      OBVIOUS
    <3>1. m + p \in 1 .. Len(out')
      BY <1>1
    <3>2. g[m + p] = H[p].j
      BY <1>1, <3>1 DEF RightOf
    <3> QED
      BY <1>0, <3>2 DEF GoesOn
  <2>3. Column(f, m, b - 1)
    BY <1>0 DEF Account
  <2> HIDE DEF g, f
  <2> QED
    BY <1>1, <2>1, <2>2, <2>3, ColumnGrows DEF g
<1>5. ASSUME NEW r \in 1 .. m + h
      PROVE  /\ out'[r].op = "equal" => left[out'[r].i] = right[out'[r].j]
             /\ out'[r].op = "change" => left[out'[r].i] # right[out'[r].j]
  <2>1. CASE r \in 1 .. m
    BY <1>0, <1>1, <2>1 DEF Account
  <2>2. CASE r \notin 1 .. m
    <3>1. r \in m + 1 .. m + h
      BY <2>2
    <3> QED
      BY <1>0, <1>2, <3>1 DEF GoesOn
  <2> QED
    BY <2>1, <2>2
<1>6. ASSUME NEW r \in 1 .. (m + h) - 1 PROVE Follows(out'[r].op, out'[r + 1].op)
  <2>1. CASE r < m
    <3>1. r \in 1 .. m - 1 /\ r \in 1 .. m /\ r + 1 \in 1 .. m
      BY <2>1
    <3> QED
      BY <1>0, <1>1, <3>1 DEF Account
  <2>2. CASE r = m
    <3>1. m > 0 /\ r \in 1 .. m /\ m + 1 = r + 1
      BY <2>2
    <3>3. 1 \in 1 .. h
      <4>1. h > 0
        BY <1>1
      <4> QED
        BY <4>1
    <3>2. out'[r + 1] = H[1] /\ out'[r] = out[m]
      BY <1>1, <2>2, <3>1, <3>3
    <3> QED
      BY <1>0, <3>1, <3>2
  <2>3. CASE r > m
    <3>1. r \in m + 1 .. m + h /\ r + 1 \in m + 1 .. m + h /\ (r + 1) - m = (r - m) + 1
          /\ r - m \in 1 .. h - 1
      BY <2>3
    <3>2. out'[r] = H[r - m] /\ out'[r + 1] = H[(r - m) + 1]
      BY <1>2, <3>1
    <3> QED
      BY <1>0, <3>1, <3>2 DEF GoesOn
  <2>4. r < m \/ r = m \/ r > m
    OBVIOUS
  <2> QED
    BY <2>1, <2>2, <2>3, <2>4, Zenon
<1>7. lcs[<<1, 1>>] \in Nat /\ lcs[<<a, b>>] \in Nat /\ lcs[<<a + d, b + e>>] \in Nat
  <2>1. /\ 1 \in 1 .. Len(left) + 1 /\ 1 \in 1 .. Len(right) + 1
        /\ a + d \in 1 .. Len(left) + 1 /\ b + e \in 1 .. Len(right) + 1
    <3>1. Len(left) \in Nat /\ Len(right) \in Nat
      BY DEF CallOK
    <3>2. d \in Nat /\ e \in Nat
      BY <1>1
    <3> QED
      BY <3>1, <3>2
  <2> QED
    BY <2>1, LcsCells
<1>8. Cardinality(EqualRows(out)) = lcs[<<1, 1>>] - lcs[<<a, b>>] /\ IsFiniteSet(EqualRows(out))
  BY DEF Account
<1> DEFINE Settled == /\ IsFiniteSet(EqualRows(out'))
                      /\ Cardinality(EqualRows(out')) = lcs[<<1, 1>>] - lcs[<<a + d, b + e>>]
                      /\ left = right => AllEqual(out')
                      /\ AllEqual(out') =>
                           /\ a + d = Len(out') + 1 /\ b + e = Len(out') + 1
                           /\ \A r \in 1 .. Len(out') : out'[r].i = r /\ out'[r].j = r
<1>9. ASSUME Len(H) = 1, H[1].op = "equal", d = 1, e = 1,
             lcs[<<a, b>>] = lcs[<<a + 1, b + 1>>] + 1
      PROVE  Settled
  <2>1. h = 1 /\ out'[m + 1] = H[1] /\ m + 1 \notin EqualRows(out) /\ Len(out') = m + 1
    BY <1>0, <1>1, <1>9 DEF EqualRows
  <2>2. EqualRows(out') = EqualRows(out) \cup {m + 1}
    <3>1. \A r \in 1 .. m + 1 : r \in 1 .. m \/ r = m + 1
      OBVIOUS
    <3> QED
      BY <1>0, <1>1, <1>9, <2>1, <3>1 DEF EqualRows
  <2>3. IsFiniteSet(EqualRows(out')) /\ Cardinality(EqualRows(out')) = Cardinality(EqualRows(out)) + 1
    <3> DEFINE E == EqualRows(out)
    <3>1. IsFiniteSet(E) /\ m + 1 \notin E
      BY <1>8, <2>1
    <3> HIDE DEF E
    <3>2. IsFiniteSet(E \cup {m + 1}) /\ Cardinality(E \cup {m + 1}) = Cardinality(E) + 1
      BY <3>1, FS_AddElement, Zenon
    <3> QED
      BY <2>2, <3>2 DEF E
  <2>4. Cardinality(EqualRows(out')) = lcs[<<1, 1>>] - lcs[<<a + d, b + e>>]
    BY <1>7, <1>8, <1>9, <2>3
  <2>5. left = right => AllEqual(out')
    <3>1. \A r \in 1 .. m + 1 : r \in 1 .. m \/ r = m + 1
      OBVIOUS
    <3> QED
      BY <1>0, <1>1, <1>9, <2>1, <3>1 DEF Account, AllEqual
  <2>6. AllEqual(out') => /\ a + d = Len(out') + 1 /\ b + e = Len(out') + 1
                          /\ \A r \in 1 .. Len(out') : out'[r].i = r /\ out'[r].j = r
    <3> SUFFICES ASSUME AllEqual(out')
                 PROVE  /\ a + d = Len(out') + 1 /\ b + e = Len(out') + 1
                        /\ \A r \in 1 .. Len(out') : out'[r].i = r /\ out'[r].j = r
      OBVIOUS
    <3>1. AllEqual(out)
      BY <1>0, <1>1, <2>1 DEF AllEqual
    <3>2. a = m + 1 /\ b = m + 1 /\ \A r \in 1 .. m : out[r].i = r /\ out[r].j = r
      BY <1>0, <3>1 DEF Account
    <3>3. H[1].i = a - 1 + 1 /\ H[1].j = b - 1 + 1
      BY <1>9 DEF GoesOn
    <3>4. out'[m + 1].i = m + 1 /\ out'[m + 1].j = m + 1
      BY <2>1, <3>2, <3>3
    <3>5. \A r \in 1 .. m + 1 : r \in 1 .. m \/ r = m + 1
      OBVIOUS
    <3> QED
      BY <1>1, <1>9, <2>1, <3>2, <3>4, <3>5
  <2> QED
    BY <2>3, <2>4, <2>5, <2>6, Zenon
<1>10. ASSUME Len(H) > 0, \A p \in 1 .. Len(H) : H[p].op # "equal",
              lcs[<<a, b>>] = lcs[<<a + d, b + e>>], left # right
       PROVE  Settled
  <2>1. EqualRows(out') = EqualRows(out)
    <3>1. \A r \in 1 .. m + h : r \in 1 .. m \/ r \in m + 1 .. m + h
      OBVIOUS
    <3>2. \A r \in m + 1 .. m + h : out'[r].op # "equal"
      BY <1>0, <1>2, <1>10
    <3>3. \A r \in 1 .. m : r \in 1 .. m + h
      OBVIOUS
    <3> QED
      BY <1>0, <1>1, <3>1, <3>2, <3>3 DEF EqualRows
  <2>2. ~AllEqual(out')
    <3>0. h > 0 /\ Len(out') = m + h
      BY <1>1
    <3>1. m + h \in 1 .. Len(out') /\ m + h \in m + 1 .. m + h /\ (m + h) - m \in 1 .. h
      BY <3>0
    <3>2. out'[m + h].op # "equal"
      BY <1>0, <1>2, <1>10, <3>1
    <3> QED
      BY <3>1, <3>2 DEF AllEqual
  <2> QED
    BY <1>8, <1>10, <2>1, <2>2, Zenon
<1> HIDE DEF Settled
<1>11. Settled
  BY <1>9, <1>10 DEF GoesOn
<1>12. (a - 1) + d = (a + d) - 1 /\ (b - 1) + e = (b + e) - 1
  BY <1>1
<1>13. /\ Column(LeftOf(out'), Len(out'), (a + d) - 1)
       /\ Column(RightOf(out'), Len(out'), (b + e) - 1)
  BY <1>1, <1>3, <1>4, <1>12
<1> QED
  BY <1>1, <1>5, <1>6, <1>11, <1>13 DEF Account, Settled

-----------------------------------------------------------------------------
\* The collapse.
LEMMA RunEnds ==
  ASSUME raws \in Seq(Rows), NEW a \in 1 .. Len(raws) + 1, NEW op
  PROVE  /\ RunEnd(a, op) \in a .. Len(raws) + 1
         /\ RunEnd(a, op) <= Len(raws) => raws[RunEnd(a, op)].op # op
         /\ \A n \in a .. RunEnd(a, op) - 1 : raws[n].op = op
<1> DEFINE ends == {e \in a .. Len(raws) + 1 : e <= Len(raws) => raws[e].op # op}
           IsEnd(e) == /\ e <= Len(raws) => raws[e].op # op
                       /\ \A n \in a .. e - 1 : raws[n].op = op
<1>0. Len(raws) \in Nat
  OBVIOUS
<1>1. ends \in SUBSET Nat /\ Len(raws) + 1 \in ends
  BY <1>0
<1>2. PICK e \in ends : \A f \in ends : e <= f
  BY <1>1, LeastNumber
<1>3. e \in a .. Len(raws) + 1 /\ IsEnd(e)
  <2>1. ASSUME NEW n \in a .. e - 1 PROVE raws[n].op = op
    <3>1. n \in a .. Len(raws) + 1 /\ n < e
      BY <1>0
    <3>2. n \notin ends
      BY <1>0, <1>2, <3>1
    <3> QED
      BY <3>1, <3>2
  <2> QED
    BY <2>1
<1>4. RunEnd(a, op) = CHOOSE f \in a .. Len(raws) + 1 : IsEnd(f)
  BY DEF RunEnd
<1> HIDE DEF IsEnd
<1>5. RunEnd(a, op) \in a .. Len(raws) + 1 /\ IsEnd(RunEnd(a, op))
  BY <1>3, <1>4
<1> QED
  BY <1>5 DEF IsEnd

\* Along a run of deletions, or of additions, one text is read line by line and
\* nothing common is passed.
LEMMA DeleteRun ==
  ASSUME CallOK, NEW x, NEW y, Path(x, y)
  PROVE  \A s \in 1 .. Len(raws) + 1 : \A e \in s .. Len(raws) + 1 :
           (\A n \in s .. e - 1 : raws[n].op = "delete") =>
             /\ \A n \in s .. e - 1 : raws[n] = DeleteRow(x[s] + (n - s))
             /\ x[e] = x[s] + (e - s) /\ y[e] = y[s]
             /\ lcs[<<x[e], y[e]>>] = lcs[<<x[s], y[s]>>]
<1> SUFFICES ASSUME NEW s \in 1 .. Len(raws) + 1, NEW e \in s .. Len(raws) + 1,
                    \A n \in s .. e - 1 : raws[n].op = "delete"
             PROVE  /\ \A n \in s .. e - 1 : raws[n] = DeleteRow(x[s] + (n - s))
                    /\ x[e] = x[s] + (e - s) /\ y[e] = y[s]
                    /\ lcs[<<x[e], y[e]>>] = lcs[<<x[s], y[s]>>]
  OBVIOUS
<1>0. Len(raws) \in Nat
  BY DEF CallOK
<1> DEFINE Here == {n \in s .. e : /\ x[n] = x[s] + (n - s) /\ y[n] = y[s]
                                   /\ lcs[<<x[n], y[n]>>] = lcs[<<x[s], y[s]>>]}
<1>1. x[s] \in Nat /\ y[s] \in Nat
  BY PathBounds
<1>2. ASSUME NEW n \in s .. e - 1
      PROVE  /\ raws[n] = DeleteRow(x[n]) /\ x[n + 1] = x[n] + 1 /\ y[n + 1] = y[n]
             /\ lcs[<<x[n + 1], y[n + 1]>>] = lcs[<<x[n], y[n]>>]
  <2>1. n \in 1 .. Len(raws) /\ raws[n].op = "delete"
    BY <1>0
  <2>2. WalkedPast(left, right, lcs, raws[n], x[n], y[n], x[n + 1], y[n + 1])
    BY <2>1 DEF Path
  <2>3. lcs[<<x[n], y[n]>>] = lcs[<<x[n + 1], y[n + 1]>>] + 0
    BY <2>1, <2>2, WalkedPastKeeps
  <2>4. lcs[<<x[n + 1], y[n + 1]>>] \in Nat
    <3>1. n + 1 \in 1 .. Len(raws) + 1
      BY <2>1
    <3>2. x[n + 1] \in 1 .. Len(left) + 1 /\ y[n + 1] \in 1 .. Len(right) + 1
      BY <3>1, PathBounds
    <3> QED
      BY <3>2, LcsCells
  <2>5. raws[n] = DeleteRow(x[n]) /\ x[n + 1] = x[n] + 1 /\ y[n + 1] = y[n]
    <3>1. n \in 1 .. Len(raws) + 1
      BY <2>1
    <3>2. x[n] \in 1 .. Len(left) + 1 /\ y[n] \in 1 .. Len(right) + 1
      BY <3>1, PathBounds
    <3>3. x[n] \in Nat /\ y[n] \in Nat
      BY <3>2
    <3> QED
      <4>1. EqualRow(x[n], y[n]).op # "delete" /\ AddRow(y[n]).op # "delete"
        BY <3>3, RowFields, Zenon
      <4>2. raws[n] # EqualRow(x[n], y[n]) /\ raws[n] # AddRow(y[n])
        BY <2>1, <4>1
      <4> QED
        BY <2>2, <4>2 DEF WalkedPast
  <2> QED
    BY <2>3, <2>4, <2>5
<1>3. s \in Here
  BY <1>0, <1>1
<1>4. ASSUME NEW n \in s .. e - 1, n \in Here PROVE n + 1 \in Here
  <2>1. n + 1 \in s .. e /\ (n + 1) - s = (n - s) + 1
    BY <1>0
  <2>2. x[n + 1] = x[s] + ((n + 1) - s)
    <3>1. x[n] = x[s] + (n - s) /\ x[n + 1] = x[n] + 1
      BY <1>2, <1>4
    <3>2. n \in Int /\ s \in Int
      BY <1>0
    <3> QED
      BY <1>1, <3>1, <3>2
  <2> QED
    BY <1>2, <1>4, <2>1, <2>2
<1> HIDE DEF Here
<1>5. s \in Int /\ e \in Int
  BY <1>0
<1>6. \A n \in s .. e : n \in Here
  BY <1>3, <1>4, <1>5, Upward, Zenon
<1>7. ASSUME NEW n \in s .. e - 1 PROVE raws[n] = DeleteRow(x[s] + (n - s))
  <2>1. n \in s .. e
    BY <1>5
  <2> QED
    BY <1>2, <1>6, <2>1 DEF Here
<1>8. e \in s .. e
  BY <1>5
<1> QED
  BY <1>6, <1>7, <1>8 DEF Here

LEMMA AddRun ==
  ASSUME CallOK, NEW x, NEW y, Path(x, y)
  PROVE  \A s \in 1 .. Len(raws) + 1 : \A e \in s .. Len(raws) + 1 :
           (\A n \in s .. e - 1 : raws[n].op = "add") =>
             /\ \A n \in s .. e - 1 : raws[n] = AddRow(y[s] + (n - s))
             /\ x[e] = x[s] /\ y[e] = y[s] + (e - s)
             /\ lcs[<<x[e], y[e]>>] = lcs[<<x[s], y[s]>>]
<1> SUFFICES ASSUME NEW s \in 1 .. Len(raws) + 1, NEW e \in s .. Len(raws) + 1,
                    \A n \in s .. e - 1 : raws[n].op = "add"
             PROVE  /\ \A n \in s .. e - 1 : raws[n] = AddRow(y[s] + (n - s))
                    /\ x[e] = x[s] /\ y[e] = y[s] + (e - s)
                    /\ lcs[<<x[e], y[e]>>] = lcs[<<x[s], y[s]>>]
  OBVIOUS
<1>0. Len(raws) \in Nat
  BY DEF CallOK
<1> DEFINE Here == {n \in s .. e : /\ y[n] = y[s] + (n - s) /\ x[n] = x[s]
                                   /\ lcs[<<x[n], y[n]>>] = lcs[<<x[s], y[s]>>]}
<1>1. x[s] \in Nat /\ y[s] \in Nat
  BY PathBounds
<1>2. ASSUME NEW n \in s .. e - 1
      PROVE  /\ raws[n] = AddRow(y[n]) /\ x[n + 1] = x[n] /\ y[n + 1] = y[n] + 1
             /\ lcs[<<x[n + 1], y[n + 1]>>] = lcs[<<x[n], y[n]>>]
  <2>1. n \in 1 .. Len(raws) /\ raws[n].op = "add"
    BY <1>0
  <2>2. WalkedPast(left, right, lcs, raws[n], x[n], y[n], x[n + 1], y[n + 1])
    BY <2>1 DEF Path
  <2>3. lcs[<<x[n], y[n]>>] = lcs[<<x[n + 1], y[n + 1]>>] + 0
    BY <2>1, <2>2, WalkedPastKeeps
  <2>4. lcs[<<x[n + 1], y[n + 1]>>] \in Nat
    <3>1. n + 1 \in 1 .. Len(raws) + 1
      BY <2>1
    <3>2. x[n + 1] \in 1 .. Len(left) + 1 /\ y[n + 1] \in 1 .. Len(right) + 1
      BY <3>1, PathBounds
    <3> QED
      BY <3>2, LcsCells
  <2>5. raws[n] = AddRow(y[n]) /\ x[n + 1] = x[n] /\ y[n + 1] = y[n] + 1
    <3>1. n \in 1 .. Len(raws) + 1
      BY <2>1
    <3>2. x[n] \in 1 .. Len(left) + 1 /\ y[n] \in 1 .. Len(right) + 1
      BY <3>1, PathBounds
    <3>3. x[n] \in Nat /\ y[n] \in Nat
      BY <3>2
    <3> QED
      <4>1. EqualRow(x[n], y[n]).op # "add" /\ DeleteRow(x[n]).op # "add"
        BY <3>3, RowFields, Zenon
      <4>2. raws[n] # EqualRow(x[n], y[n]) /\ raws[n] # DeleteRow(x[n])
        BY <2>1, <4>1
      <4> QED
        BY <2>2, <4>2 DEF WalkedPast
  <2> QED
    BY <2>3, <2>4, <2>5
<1>3. s \in Here
  BY <1>0, <1>1
<1>4. ASSUME NEW n \in s .. e - 1, n \in Here PROVE n + 1 \in Here
  <2>1. n + 1 \in s .. e /\ (n + 1) - s = (n - s) + 1
    BY <1>0
  <2>2. y[n + 1] = y[s] + ((n + 1) - s)
    <3>1. y[n] = y[s] + (n - s) /\ y[n + 1] = y[n] + 1
      BY <1>2, <1>4
    <3>2. n \in Int /\ s \in Int
      BY <1>0
    <3> QED
      BY <1>1, <3>1, <3>2
  <2> QED
    BY <1>2, <1>4, <2>1, <2>2
<1> HIDE DEF Here
<1>5. s \in Int /\ e \in Int
  BY <1>0
<1>6. \A n \in s .. e : n \in Here
  BY <1>3, <1>4, <1>5, Upward, Zenon
<1>7. ASSUME NEW n \in s .. e - 1 PROVE raws[n] = AddRow(y[s] + (n - s))
  <2>1. n \in s .. e
    BY <1>5
  <2> QED
    BY <1>2, <1>6, <2>1 DEF Here
<1>8. e \in s .. e
  BY <1>5
<1> QED
  BY <1>6, <1>7, <1>8 DEF Here

\* The rows of a hunk: changes, and then what is left of the longer run.
LEMMA HunkShape ==
  ASSUME NEW dels \in Seq(Rows), NEW adds \in Seq(Rows), NEW a \in Nat \ {0}, NEW b \in Nat \ {0},
         \A p \in 1 .. Len(dels) : dels[p] = DeleteRow(a + (p - 1)),
         \A p \in 1 .. Len(adds) : adds[p] = AddRow(b + (p - 1))
  PROVE  /\ HunkRows(dels, adds) \in Seq(Rows)
         /\ Len(HunkRows(dels, adds)) = IF Len(dels) < Len(adds) THEN Len(adds) ELSE Len(dels)
         /\ \A p \in 1 .. Len(HunkRows(dels, adds)) :
              HunkRows(dels, adds)[p] =
                IF p <= Len(dels) /\ p <= Len(adds) THEN ChangeRow(a + (p - 1), b + (p - 1))
                ELSE IF p <= Len(dels) THEN DeleteRow(a + (p - 1)) ELSE AddRow(b + (p - 1))
<1>1. PICK d \in Nat, e \in Nat : d = Len(dels) /\ e = Len(adds)
  OBVIOUS
<1>2. PICK n \in Nat : n = Lesser(d, e)
  BY DEF Lesser
<1>3. n <= d /\ n <= e /\ (n = d \/ n = e) /\ (d < e => n = d) /\ (~(d < e) => n = e)
  BY <1>2 DEF Lesser
<1> DEFINE P == [p \in 1 .. n |-> ChangeRow(dels[p].i, adds[p].j)]
           D == SubSeq(dels, n + 1, d)
           A == SubSeq(adds, n + 1, e)
<1>4. /\ P \in Seq(Rows) /\ Len(P) = n
      /\ \A p \in 1 .. n : P[p] = ChangeRow(a + (p - 1), b + (p - 1))
  <2>1. ASSUME NEW p \in 1 .. n
        PROVE  /\ P[p] = ChangeRow(a + (p - 1), b + (p - 1))
               /\ ChangeRow(a + (p - 1), b + (p - 1)) \in Rows
    <3>1. p \in 1 .. d /\ p \in 1 .. e /\ a + (p - 1) \in Nat /\ b + (p - 1) \in Nat
      BY <1>3
    <3>2. dels[p].i = a + (p - 1) /\ adds[p].j = b + (p - 1)
      BY <1>1, <3>1, RowFields
    <3> QED
      BY <3>1, <3>2, RowFields
  <2>2. P \in [1 .. n -> Rows] /\ DOMAIN P = 1 .. n
    BY <2>1
  <2> HIDE DEF P
  <2>3. P \in Seq(Rows) /\ Len(P) = n
    BY <2>2
  <2> QED
    BY <2>1, <2>3
<1>5. /\ D \in Seq(Rows) /\ Len(D) = d - n
      /\ \A p \in 1 .. d - n : D[p] = DeleteRow(a + ((n + p) - 1))
  <2>1. D \in Seq(Rows) /\ Len(D) = d - n /\ \A p \in 1 .. d - n : D[p] = dels[n + p]
    BY <1>1, <1>3
  <2>2. \A p \in 1 .. d - n : n + p \in 1 .. d
    BY <1>3
  <2> QED
    BY <1>1, <2>1, <2>2
<1>6. /\ A \in Seq(Rows) /\ Len(A) = e - n
      /\ \A p \in 1 .. e - n : A[p] = AddRow(b + ((n + p) - 1))
  <2>1. A \in Seq(Rows) /\ Len(A) = e - n /\ \A p \in 1 .. e - n : A[p] = adds[n + p]
    BY <1>1, <1>3
  <2>2. \A p \in 1 .. e - n : n + p \in 1 .. e
    BY <1>3
  <2> QED
    BY <1>1, <2>1, <2>2
<1>7. HunkRows(dels, adds) = P \o D \o A
  BY <1>1, <1>2 DEF HunkRows
<1> HIDE DEF P, D, A
<1>8. CASE d < e
  <2>1. n = d /\ Len(D) = 0 /\ D = <<>>
    BY <1>3, <1>5, <1>8
  <2>2. HunkRows(dels, adds) = P \o A
    BY <1>4, <1>6, <1>7, <2>1
  <2>3. P \o A \in Seq(Rows) /\ Len(P \o A) = e
    <3>0. P \in Seq(Rows) /\ A \in Seq(Rows)
      BY <1>4, <1>6
    <3>1. P \o A \in Seq(Rows) /\ Len(P \o A) = Len(P) + Len(A)
      BY <3>0
    <3> QED
      BY <1>3, <1>4, <1>5, <1>6, <2>1, <3>1
  <2>4. ASSUME NEW p \in 1 .. e
        PROVE  (P \o A)[p] = IF p <= d THEN ChangeRow(a + (p - 1), b + (p - 1)) ELSE AddRow(b + (p - 1))
    <3>1. CASE p <= d
      <4>1. p \in 1 .. n
        BY <2>1, <3>1
      <4>2. (P \o A)[p] = P[p]
        BY <1>4, <1>6, <4>1
      <4> QED
        BY <1>4, <3>1, <4>1, <4>2
    <3>2. CASE ~(p <= d)
      <4>1. p - n \in 1 .. e - n /\ n + (p - n) = p
        BY <2>1, <3>2
      <4>2. (P \o A)[p] = A[p - n]
        BY <1>4, <1>6, <2>1, <3>2
      <4> QED
        BY <1>6, <3>2, <4>1, <4>2
    <3> QED
      BY <3>1, <3>2
  <2> QED
    BY <1>1, <1>8, <2>2, <2>3, <2>4
<1>9. CASE ~(d < e)
  <2>1. n = e /\ Len(A) = 0 /\ A = <<>>
    BY <1>3, <1>6, <1>9
  <2>2. HunkRows(dels, adds) = P \o D
    BY <1>4, <1>5, <1>7, <2>1
  <2>3. P \o D \in Seq(Rows) /\ Len(P \o D) = d
    <3>0. P \in Seq(Rows) /\ D \in Seq(Rows)
      BY <1>4, <1>5
    <3>1. P \o D \in Seq(Rows) /\ Len(P \o D) = Len(P) + Len(D)
      BY <3>0
    <3> QED
      BY <1>3, <1>4, <1>5, <1>6, <2>1, <3>1
  <2>4. ASSUME NEW p \in 1 .. d
        PROVE  (P \o D)[p] = IF p <= e THEN ChangeRow(a + (p - 1), b + (p - 1)) ELSE DeleteRow(a + (p - 1))
    <3>1. CASE p <= e
      <4>1. p \in 1 .. n
        BY <2>1, <3>1
      <4>2. (P \o D)[p] = P[p]
        BY <1>4, <1>5, <4>1
      <4> QED
        BY <1>4, <3>1, <4>1, <4>2
    <3>2. CASE ~(p <= e)
      <4>1. p - n \in 1 .. d - n /\ n + (p - n) = p
        BY <2>1, <3>2
      <4>2. (P \o D)[p] = D[p - n]
        BY <1>4, <1>5, <2>1, <3>2
      <4> QED
        BY <1>5, <3>2, <4>1, <4>2
    <3> QED
      BY <3>1, <3>2
  <2> QED
    BY <1>1, <1>9, <2>2, <2>3, <2>4
<1> QED
  BY <1>8, <1>9

LEMMA MayFollow ==
  /\ Follows("delete", "delete") /\ Follows("add", "add")
  /\ \A op \in {"equal", "delete", "add", "change"} :
       Follows("equal", op) /\ Follows(op, "equal") /\ Follows("change", op)
<1>1. "delete" \notin {"add"} /\ "add" \notin {"delete"}
  OBVIOUS
<1>2. {"delete"} # {"add", "delete"} /\ {"add"} # {"add", "delete"}
  BY <1>1
<1>3. ASSUME NEW op PROVE {"equal", op} # {"add", "delete"} /\ {op, "equal"} # {"add", "delete"} /\ {"change", op} # {"add", "delete"}
  OBVIOUS
<1>4. {"delete", "delete"} = {"delete"} /\ {"add", "add"} = {"add"}
  OBVIOUS
<1> QED
  BY <1>2, <1>3, <1>4 DEF Follows

\* A hunk passes nothing common, so it pairs no two equal lines.
LEMMA HunkGoesOn ==
  ASSUME CallOK, NEW a \in 1 .. Len(left) + 1, NEW b \in 1 .. Len(right) + 1,
         NEW d \in Nat \ {0}, NEW e \in Nat, a + d <= Len(left) + 1, b + e <= Len(right) + 1,
         lcs[<<a + d, b + e>>] = lcs[<<a, b>>], left # right,
         NEW H \in Seq(Rows), Len(H) = IF d < e THEN e ELSE d,
         \A p \in 1 .. Len(H) :
           H[p] = IF p <= d /\ p <= e THEN ChangeRow(a + (p - 1), b + (p - 1))
                  ELSE IF p <= d THEN DeleteRow(a + (p - 1)) ELSE AddRow(b + (p - 1))
  PROVE  GoesOn(left, right, lcs, H, a, b, d, e)
<1>0. /\ left \in Seq(Line) /\ right \in Seq(Line) /\ Len(left) \in Nat /\ Len(right) \in Nat
      /\ a \in Nat /\ b \in Nat /\ a > 0 /\ b > 0
  BY DEF CallOK
<1>1. PICK h \in Nat \ {0} : h = Len(H)
  <2>1. Len(H) \in Nat \ {0}
    OBVIOUS
  <2> QED
    BY <2>1
<1>2. d <= h /\ e <= h /\ (h = d \/ h = e)
  BY <1>1
<1>3. ASSUME NEW p \in 1 .. h, p <= d, p <= e
      PROVE  /\ H[p].op = "change" /\ H[p].i = a - 1 + p /\ H[p].j = b - 1 + p
             /\ left[a - 1 + p] # right[b - 1 + p]
  <2>1. H[p] = ChangeRow(a + (p - 1), b + (p - 1))
    BY <1>1, <1>3
  <2>2. a + (p - 1) = a - 1 + p /\ b + (p - 1) = b - 1 + p /\ a - 1 + p \in Nat /\ b - 1 + p \in Nat
    BY <1>0
  <2>3. H[p].op = "change" /\ H[p].i = a - 1 + p /\ H[p].j = b - 1 + p
    BY <2>1, <2>2, RowFields
  <2> DEFINE A == a - 1 + p
             B == b - 1 + p
  <2>4. left[A] # right[B]
    <3> SUFFICES ASSUME left[A] = right[B] PROVE FALSE
      OBVIOUS
    <3>1. /\ A \in a .. Len(left) /\ B \in b .. Len(right)
          /\ A \in 1 .. Len(left) + 1 /\ B \in 1 .. Len(right) + 1
          /\ A \in a .. Len(left) + 1 /\ B \in b .. Len(right) + 1
          /\ A + 1 \in 1 .. Len(left) + 1 /\ B + 1 \in 1 .. Len(right) + 1
          /\ a + d \in A + 1 .. Len(left) + 1 /\ b + e \in B + 1 .. Len(right) + 1
      BY <1>0, <1>3
    <3> HIDE DEF A, B
    <3>2. lcs[<<A, B>>] = Cell(left, right, lcs, A, B) /\ lcs[<<A, B>>] \in Nat
      BY <3>1, LcsCells
    <3>3. lcs[<<A, B>>] <= lcs[<<a, b>>] /\ lcs[<<a, b>>] \in Nat
      BY <3>1, LcsCells
    <3>4. lcs[<<a + d, b + e>>] <= lcs[<<A + 1, B + 1>>] /\ lcs[<<A + 1, B + 1>>] \in Nat
      BY <3>1, LcsCells
    <3>5. lcs[<<A, B>>] = lcs[<<A + 1, B + 1>>] + 1
      <4>1. ~(A > Len(left) \/ B > Len(right))
        BY <1>0, <3>1
      <4> QED
        BY <3>2, <4>1 DEF Cell
    <3> QED
      BY <3>2, <3>3, <3>4, <3>5
  <2> QED
    BY <2>3, <2>4
<1>4. ASSUME NEW p \in 1 .. h, p <= d, ~(p <= e)
      PROVE  H[p].op = "delete" /\ H[p].i = a - 1 + p /\ H[p].j = 0
  <2>1. H[p] = DeleteRow(a + (p - 1))
    BY <1>1, <1>4
  <2>2. a + (p - 1) = a - 1 + p /\ a - 1 + p \in Nat
    BY <1>0
  <2> QED
    BY <2>1, <2>2, RowFields
<1>5. ASSUME NEW p \in 1 .. h, ~(p <= d)
      PROVE  H[p].op = "add" /\ H[p].i = 0 /\ H[p].j = b - 1 + p /\ p <= e
  <2>1. H[p] = AddRow(b + (p - 1))
    BY <1>1, <1>5
  <2>2. b + (p - 1) = b - 1 + p /\ b - 1 + p \in Nat
    BY <1>0
  <2>3. p <= e
    BY <1>2, <1>5
  <2> QED
    BY <2>1, <2>2, <2>3, RowFields
<1>6. ASSUME NEW p \in 1 .. h
      PROVE  /\ H[p].i = (IF p <= d THEN a - 1 + p ELSE 0)
             /\ H[p].j = (IF p <= e THEN b - 1 + p ELSE 0)
             /\ H[p].op = "equal" => left[H[p].i] = right[H[p].j]
             /\ H[p].op = "change" => left[H[p].i] # right[H[p].j]
             /\ H[p].op # "equal"
  <2>1. CASE p <= d /\ p <= e
    BY <1>3, <2>1
  <2>2. CASE p <= d /\ ~(p <= e)
    BY <1>4, <2>2
  <2>3. CASE ~(p <= d)
    BY <1>5, <2>3
  <2> QED
    BY <2>1, <2>2, <2>3
<1>7. ASSUME NEW p \in 1 .. h - 1 PROVE Follows(H[p].op, H[p + 1].op)
  <2>1. p \in 1 .. h /\ p + 1 \in 1 .. h
    OBVIOUS
  <2>2. CASE p <= d /\ p <= e
    BY <1>3, <2>1, <2>2 DEF Follows
  <2>3. CASE p <= d /\ ~(p <= e)
    <3>1. p + 1 <= d /\ ~(p + 1 <= e)
      BY <1>2, <2>1, <2>3
    <3>2. H[p].op = "delete" /\ H[p + 1].op = "delete"
      BY <1>4, <2>1, <2>3, <3>1
    <3> QED
      BY <3>2, MayFollow
  <2>4. CASE ~(p <= d)
    <3>1. ~(p + 1 <= d)
      BY <2>4
    <3>2. H[p].op = "add" /\ H[p + 1].op = "add"
      BY <1>5, <2>1, <2>4, <3>1
    <3> QED
      BY <3>2, MayFollow
  <2> QED
    BY <2>2, <2>3, <2>4
<1>8. d \in 0 .. h /\ e \in 0 .. h /\ h > 0
  BY <1>2
<1>9. \A p \in 1 .. Len(H) - 1 : Follows(H[p].op, H[p + 1].op)
  BY <1>1, <1>7
<1>10. \A p \in 1 .. Len(H) : /\ H[p].i = (IF p <= d THEN a - 1 + p ELSE 0)
                              /\ H[p].j = (IF p <= e THEN b - 1 + p ELSE 0)
                              /\ H[p].op = "equal" => left[H[p].i] = right[H[p].j]
                              /\ H[p].op = "change" => left[H[p].i] # right[H[p].j]
  BY <1>1, <1>6, Zenon
<1>11. Len(H) > 0 /\ \A p \in 1 .. Len(H) : H[p].op # "equal"
  BY <1>1, <1>6
<1> QED
  BY <1>1, <1>8, <1>9, <1>10, <1>11, Zenon DEF GoesOn

\* The account keeps up with the collapse, copied row or collapsed hunk.
KeepsUp(x, y) ==
  /\ CallOK' /\ Path(x, y)' /\ k' \in k + 1 .. Len(raws) + 1
  /\ Boundary'
  /\ \E n : n = k' /\ Account(x[n], y[n])'

LEMMA CopyKeepsUp ==
  ASSUME CallOK, k \in 1 .. Len(raws) + 1, Boundary,
         NEW x, NEW y, Path(x, y), Account(x[k], y[k]), CopyRow
  PROVE  KeepsUp(x, y)
<1>0. PICK n \in Nat : n = k /\ n \in 1 .. Len(raws)
  <2>1. Len(raws) \in Nat
    BY DEF CallOK
  <2>2. k \in Nat /\ k \in 1 .. Len(raws)
    BY <2>1 DEF CopyRow
  <2> QED
    BY <2>2
<1>1. /\ raws[n].op # "delete" /\ out' = Append(out, raws[n]) /\ k' = n + 1
      /\ UNCHANGED <<left, right, lcs, i, j, raws>>
  BY <1>0 DEF CopyRow
<1>2. PICK row \in Rows, a \in Nat, b \in Nat :
        row = raws[n] /\ a = x[n] /\ b = y[n]
  <2>1. raws[n] \in Rows
    BY <1>0 DEF CallOK
  <2>2. n \in 1 .. Len(raws) + 1
    BY <1>0
  <2>3. x[n] \in Nat /\ y[n] \in Nat
    BY <2>2 DEF Path
  <2> QED
    BY <2>1, <2>3
<1>3. WalkedPast(left, right, lcs, row, a, b, x[n + 1], y[n + 1])
  BY <1>0, <1>2 DEF Path
<1>4. CallOK' /\ Path(x, y)'
  <2>1. CallOK'
    BY <1>1 DEF CallOK
  <2>2. Path(x, y)'
    BY <1>1 DEF Path
  <2> QED
    BY <2>1, <2>2
<1>5. /\ a \in 1 .. Len(left) + 1 /\ b \in 1 .. Len(right) + 1
      /\ x[n + 1] \in a .. Len(left) + 1 /\ y[n + 1] \in b .. Len(right) + 1
      /\ row.op \in {"equal", "add"}
      /\ lcs[<<a, b>>] = lcs[<<x[n + 1], y[n + 1]>>] + (IF row.op = "equal" THEN 1 ELSE 0)
      /\ lcs[<<x[n + 1], y[n + 1]>>] \in Nat
  <2>1. /\ a \in 1 .. Len(left) + 1 /\ b \in 1 .. Len(right) + 1
        /\ x[n + 1] \in a .. Len(left) + 1 /\ y[n + 1] \in b .. Len(right) + 1
        /\ row.op \in {"equal", "delete", "add"}
        /\ lcs[<<a, b>>] = lcs[<<x[n + 1], y[n + 1]>>] + (IF row.op = "equal" THEN 1 ELSE 0)
    <3>1. ASSUME NEW a2, NEW b2, WalkedPast(left, right, lcs, row, a, b, a2, b2)
          PROVE  /\ a \in 1 .. Len(left) + 1 /\ b \in 1 .. Len(right) + 1
                 /\ a2 \in a .. Len(left) + 1 /\ b2 \in b .. Len(right) + 1
                 /\ row.op \in {"equal", "delete", "add"}
                 /\ lcs[<<a, b>>] = lcs[<<a2, b2>>] + (IF row.op = "equal" THEN 1 ELSE 0)
      <4>1. /\ a \in 1 .. Len(left) + 1 /\ b \in 1 .. Len(right) + 1
            /\ a2 \in a .. Len(left) + 1 /\ b2 \in b .. Len(right) + 1
        BY <3>1, WalkedPastKeeps, Zenon
      <4>2. row.op \in {"equal", "delete", "add"}
        BY <3>1, WalkedPastKeeps, Zenon
      <4>3. lcs[<<a, b>>] = lcs[<<a2, b2>>] + (IF row.op = "equal" THEN 1 ELSE 0)
        BY <3>1, WalkedPastKeeps
      <4> QED
        BY <4>1, <4>2, <4>3
    <3> QED
      BY <1>3, <3>1, Zenon
  <2>2. x[n + 1] \in 1 .. Len(left) + 1 /\ y[n + 1] \in 1 .. Len(right) + 1
    BY <2>1
  <2>3. lcs[<<x[n + 1], y[n + 1]>>] \in Nat
    BY <2>2, LcsCells
  <2> QED
    BY <1>1, <1>2, <2>1, <2>3
<1> DEFINE H == <<row>>
<1>6. H \in Seq(Rows) /\ Len(H) = 1 /\ H[1] = row /\ out' = out \o H
  BY <1>1, <1>2 DEF Account
<1>7. PICK d \in 0 .. 1, e \in 0 .. 1 :
        /\ x[n + 1] = a + d /\ y[n + 1] = b + e
        /\ GoesOn(left, right, lcs, H, a, b, d, e)
  <2>1. 1 .. Len(H) = {1} /\ 1 .. Len(H) - 1 = {}
    BY <1>6
  <2>2. ASSUME row.op = "equal"
        PROVE  \E d \in 0 .. 1, e \in 0 .. 1 :
                 /\ x[n + 1] = a + d /\ y[n + 1] = b + e
                 /\ GoesOn(left, right, lcs, H, a, b, d, e)
    <3>1. /\ row = EqualRow(a, b) /\ left[a] = right[b]
          /\ x[n + 1] = a + 1 /\ y[n + 1] = b + 1
      BY <1>3, <1>2, <2>2, RowFields DEF WalkedPast
    <3>2. row.i = a /\ row.j = b
      BY <3>1, RowFields
    <3>3. lcs[<<a, b>>] = lcs[<<a + 1, b + 1>>] + 1
      BY <1>5, <2>2, <3>1
    <3>4. GoesOn(left, right, lcs, H, a, b, 1, 1)
      BY <1>6, <2>1, <2>2, <3>1, <3>2, <3>3 DEF GoesOn
    <3> QED
      BY <3>1, <3>4
  <2>3. ASSUME row.op = "add"
        PROVE  \E d \in 0 .. 1, e \in 0 .. 1 :
                 /\ x[n + 1] = a + d /\ y[n + 1] = b + e
                 /\ GoesOn(left, right, lcs, H, a, b, d, e)
    <3>1. row = AddRow(b) /\ x[n + 1] = a + 0 /\ y[n + 1] = b + 1
      <4>1. EqualRow(a, b).op # "add" /\ DeleteRow(a).op # "add"
        BY RowFields, Zenon
      <4>2. row # EqualRow(a, b) /\ row # DeleteRow(a)
        BY <2>3, <4>1
      <4>3. row = AddRow(b) /\ x[n + 1] = a /\ y[n + 1] = b + 1
        BY <1>3, <4>2 DEF WalkedPast
      <4> QED
        BY <4>3
    <3>2. row.i = 0 /\ row.j = b
      BY <3>1, RowFields
    <3>3. lcs[<<a, b>>] = lcs[<<a + 0, b + 1>>]
      BY <1>5, <2>3, <3>1
    <3>4. left # right
      BY <1>0, <1>2, <2>3 DEF CallOK
    <3>5. GoesOn(left, right, lcs, H, a, b, 0, 1)
      BY <1>6, <2>1, <2>3, <3>1, <3>2, <3>3, <3>4 DEF GoesOn
    <3> QED
      BY <3>1, <3>5
  <2> QED
    BY <1>5, <2>2, <2>3
<1>8. Len(out) > 0 => Follows(out[Len(out)].op, H[1].op)
  <2> SUFFICES ASSUME Len(out) > 0 PROVE Follows(out[Len(out)].op, row.op)
    BY <1>6
  <2>1. out[Len(out)].op \in {"equal", "delete", "add", "change"}
    <3>1. out \in Seq(Rows)
      BY DEF Account
    <3>2. Len(out) \in 1 .. Len(out)
      BY <3>1
    <3>3. out[Len(out)] \in Rows
      BY <3>1, <3>2
    <3> QED
      BY <3>3 DEF Rows
  <2>2. out[Len(out)].op = "delete" => row.op = "equal"
    BY <1>0, <1>2 DEF Boundary
  <2> QED
    BY <1>5, <2>1, <2>2, MayFollow
<1>9. Account(x[n + 1], y[n + 1])'
  <2>1. a + d <= Len(left) + 1 /\ b + e <= Len(right) + 1
    BY <1>5, <1>7
  <2>2. Account(a, b)
    BY <1>0, <1>2
  <2>3. UNCHANGED <<left, right, lcs>>
    BY <1>1
  <2> HIDE DEF H
  <2>4. Account(a + d, b + e)'
    BY <1>5, <1>6, <1>7, <1>8, <2>1, <2>2, <2>3, AccountGrows, Zenon
  <2> QED
    BY <1>7, <2>4
<1>10. Boundary'
  <2> SUFFICES ASSUME n + 1 <= Len(raws)
               PROVE  /\ row.op = "add" => raws[n + 1].op # "delete"
                      /\ row.op \notin {"delete", "change"}
    <3>1. out \in Seq(Rows)
      BY DEF Account
    <3>2. Len(out') = Len(out) + 1 /\ out'[Len(out')] = row
      BY <1>6, <3>1
    <3> QED
      BY <1>1, <3>2 DEF Boundary
  <2>1. n + 1 \in 1 .. Len(raws)
    BY <1>0
  <2>2. WalkedPast(left, right, lcs, raws[n + 1], x[n + 1], y[n + 1], x[(n + 1) + 1], y[(n + 1) + 1])
    BY <2>1 DEF Path
  <2>3. row.op = "add" => raws[n + 1].op # "delete"
    BY <1>3, <2>2, DeletesFirst
  <2> QED
    BY <1>5, <2>3
<1>11. k' \in k + 1 .. Len(raws) + 1
  <2>1. Len(raws) \in Nat
    BY DEF CallOK
  <2> QED
    BY <1>0, <1>1, <2>1
<1> QED
  BY <1>1, <1>4, <1>9, <1>10, <1>11 DEF KeepsUp

LEMMA HunkKeepsUp ==
  ASSUME CallOK, k \in 1 .. Len(raws) + 1, Boundary,
         NEW x, NEW y, Path(x, y), Account(x[k], y[k]), CollapseHunk
  PROVE  KeepsUp(x, y)
<1>0. PICK n \in Nat, m \in Nat : n = k /\ m = Len(raws) /\ n \in 1 .. m
  <2>1. Len(raws) \in Nat
    BY DEF CallOK
  <2>2. k \in Nat /\ k \in 1 .. Len(raws)
    BY <2>1 DEF CollapseHunk
  <2> QED
    BY <2>1, <2>2
<1>1. PICK dEnd, aEnd :
        /\ dEnd = RunEnd(n, "delete") /\ aEnd = RunEnd(dEnd, "add")
        /\ out' = out \o HunkRows(SubSeq(raws, n, dEnd - 1), SubSeq(raws, dEnd, aEnd - 1))
        /\ k' = aEnd /\ raws[n].op = "delete"
        /\ UNCHANGED <<left, right, lcs, i, j, raws>>
  BY <1>0 DEF CollapseHunk
<1>2. raws \in Seq(Rows)
  BY DEF CallOK
<1>3. /\ dEnd \in n + 1 .. m + 1
      /\ dEnd <= m => raws[dEnd].op # "delete"
      /\ \A p \in n .. dEnd - 1 : raws[p].op = "delete"
  <2>1. n \in 1 .. Len(raws) + 1
    BY <1>0
  <2>2. /\ dEnd \in n .. Len(raws) + 1
        /\ dEnd <= Len(raws) => raws[dEnd].op # "delete"
        /\ \A p \in n .. dEnd - 1 : raws[p].op = "delete"
    BY <1>1, <1>2, <2>1, RunEnds
  <2>3. dEnd # n
    BY <1>0, <1>1, <2>2
  <2> QED
    BY <1>0, <2>2, <2>3
<1>4. /\ aEnd \in dEnd .. m + 1
      /\ aEnd <= m => raws[aEnd].op # "add"
      /\ \A p \in dEnd .. aEnd - 1 : raws[p].op = "add"
  <2>1. dEnd \in 1 .. Len(raws) + 1
    BY <1>0, <1>3
  <2>2. /\ aEnd \in dEnd .. Len(raws) + 1
        /\ aEnd <= Len(raws) => raws[aEnd].op # "add"
        /\ \A p \in dEnd .. aEnd - 1 : raws[p].op = "add"
    BY <1>1, <1>2, <2>1, RunEnds
  <2> QED
    BY <1>0, <2>2
<1>5. PICK d \in Nat \ {0}, e \in Nat : d = dEnd - n /\ e = aEnd - dEnd
  <2>1. dEnd - n \in Nat \ {0} /\ aEnd - dEnd \in Nat
    BY <1>0, <1>3, <1>4
  <2> QED
    BY <2>1
<1>6. dEnd \in Int /\ aEnd \in Int /\ aEnd \in n + 1 .. m + 1
  BY <1>0, <1>3, <1>4
<1>7. PICK a \in 1 .. Len(left) + 1, b \in 1 .. Len(right) + 1 : a = x[n] /\ b = y[n]
  <2>1. n \in 1 .. Len(raws) + 1
    BY <1>0
  <2>2. x[n] \in 1 .. Len(left) + 1 /\ y[n] \in 1 .. Len(right) + 1
    BY <2>1, PathBounds
  <2> QED
    BY <2>2
<1>8. /\ \A p \in n .. dEnd - 1 : raws[p] = DeleteRow(a + (p - n))
      /\ x[dEnd] = a + d /\ y[dEnd] = b
      /\ lcs[<<x[dEnd], y[dEnd]>>] = lcs[<<a, b>>]
  <2>1. n \in 1 .. Len(raws) + 1 /\ dEnd \in n .. Len(raws) + 1
    BY <1>0, <1>3
  <2>2. /\ \A p \in n .. dEnd - 1 : raws[p] = DeleteRow(x[n] + (p - n))
        /\ x[dEnd] = x[n] + (dEnd - n) /\ y[dEnd] = y[n]
        /\ lcs[<<x[dEnd], y[dEnd]>>] = lcs[<<x[n], y[n]>>]
    <3>1. \A s \in 1 .. Len(raws) + 1 : \A f \in s .. Len(raws) + 1 :
            (\A p \in s .. f - 1 : raws[p].op = "delete") =>
              /\ \A p \in s .. f - 1 : raws[p] = DeleteRow(x[s] + (p - s))
              /\ x[f] = x[s] + (f - s) /\ y[f] = y[s]
              /\ lcs[<<x[f], y[f]>>] = lcs[<<x[s], y[s]>>]
      BY DeleteRun
    <3> QED
      BY <1>3, <2>1, <3>1
  <2> QED
    BY <1>5, <1>7, <2>2
<1>9. /\ \A p \in dEnd .. aEnd - 1 : raws[p] = AddRow(b + (p - dEnd))
      /\ x[aEnd] = a + d /\ y[aEnd] = b + e
      /\ lcs[<<x[aEnd], y[aEnd]>>] = lcs[<<a, b>>]
  <2>1. dEnd \in 1 .. Len(raws) + 1 /\ aEnd \in dEnd .. Len(raws) + 1
    BY <1>0, <1>3, <1>4
  <2>2. /\ \A p \in dEnd .. aEnd - 1 : raws[p] = AddRow(y[dEnd] + (p - dEnd))
        /\ x[aEnd] = x[dEnd] /\ y[aEnd] = y[dEnd] + (aEnd - dEnd)
        /\ lcs[<<x[aEnd], y[aEnd]>>] = lcs[<<x[dEnd], y[dEnd]>>]
    <3>1. \A s \in 1 .. Len(raws) + 1 : \A f \in s .. Len(raws) + 1 :
            (\A p \in s .. f - 1 : raws[p].op = "add") =>
              /\ \A p \in s .. f - 1 : raws[p] = AddRow(y[s] + (p - s))
              /\ x[f] = x[s] /\ y[f] = y[s] + (f - s)
              /\ lcs[<<x[f], y[f]>>] = lcs[<<x[s], y[s]>>]
      BY AddRun
    <3> QED
      BY <1>4, <2>1, <3>1
  <2> QED
    BY <1>5, <1>8, <2>2
<1>10. /\ a + d \in 1 .. Len(left) + 1 /\ b + e \in 1 .. Len(right) + 1
       /\ lcs[<<a + d, b + e>>] = lcs[<<a, b>>]
  <2>1. aEnd \in 1 .. Len(raws) + 1
    BY <1>0, <1>6
  <2>2. x[aEnd] \in 1 .. Len(left) + 1 /\ y[aEnd] \in 1 .. Len(right) + 1
    BY <2>1, PathBounds
  <2> QED
    BY <1>9, <2>2
<1>11. left # right
  <2>1. n \in 1 .. Len(raws)
    BY <1>0
  <2> QED
    BY <1>1, <2>1 DEF CallOK
<1> DEFINE dels == SubSeq(raws, n, dEnd - 1)
           adds == SubSeq(raws, dEnd, aEnd - 1)
           H == HunkRows(dels, adds)
<1>12. /\ dels \in Seq(Rows) /\ Len(dels) = d
       /\ \A p \in 1 .. d : dels[p] = DeleteRow(a + (p - 1))
  <2>1. n \in 1 .. Len(raws) + 1 /\ dEnd - 1 \in n .. Len(raws) /\ n >= 1
    BY <1>0, <1>3
  <2>2. dels \in Seq(Rows) /\ Len(dels) = (dEnd - 1) - n + 1 /\ \A p \in 1 .. (dEnd - 1) - n + 1 : dels[p] = raws[n + p - 1]
    BY <1>0, <1>2, <2>1
  <2>3. (dEnd - 1) - n + 1 = d
    BY <1>5, <1>6
  <2>4. ASSUME NEW p \in 1 .. d PROVE dels[p] = DeleteRow(a + (p - 1))
    <3>1. n + p - 1 \in n .. dEnd - 1 /\ (n + p - 1) - n = p - 1
      BY <1>5, <1>6
    <3> QED
      BY <1>8, <2>2, <2>3, <3>1
  <2> QED
    BY <2>2, <2>3, <2>4
<1>13. /\ adds \in Seq(Rows) /\ Len(adds) = e
       /\ \A p \in 1 .. e : adds[p] = AddRow(b + (p - 1))
  <2>1. dEnd \in 1 .. Len(raws) + 1 /\ aEnd - 1 \in dEnd - 1 .. Len(raws) /\ dEnd >= 1
    BY <1>0, <1>3, <1>4
  <2>2. adds \in Seq(Rows) /\ Len(adds) = (aEnd - 1) - dEnd + 1 /\ \A p \in 1 .. (aEnd - 1) - dEnd + 1 : adds[p] = raws[dEnd + p - 1]
    BY <1>2, <2>1
  <2>3. (aEnd - 1) - dEnd + 1 = e
    BY <1>5, <1>6
  <2>4. ASSUME NEW p \in 1 .. e PROVE adds[p] = AddRow(b + (p - 1))
    <3>1. dEnd + p - 1 \in dEnd .. aEnd - 1 /\ (dEnd + p - 1) - dEnd = p - 1
      BY <1>5, <1>6
    <3> QED
      BY <1>9, <2>2, <2>3, <3>1
  <2> QED
    BY <2>2, <2>3, <2>4
<1>14. out' = out \o H
  BY <1>1
<1> HIDE DEF dels, adds
<1>15. /\ H \in Seq(Rows) /\ Len(H) = IF d < e THEN e ELSE d
       /\ \A p \in 1 .. Len(H) :
            H[p] = IF p <= d /\ p <= e THEN ChangeRow(a + (p - 1), b + (p - 1))
                   ELSE IF p <= d THEN DeleteRow(a + (p - 1)) ELSE AddRow(b + (p - 1))
  <2>1. a \in Nat \ {0} /\ b \in Nat \ {0}
    BY DEF CallOK
  <2>2. /\ \A p \in 1 .. Len(dels) : dels[p] = DeleteRow(a + (p - 1))
        /\ \A p \in 1 .. Len(adds) : adds[p] = AddRow(b + (p - 1))
    BY <1>12, <1>13
  <2> HIDE DEF H
  <2>3. /\ H \in Seq(Rows) /\ Len(H) = IF Len(dels) < Len(adds) THEN Len(adds) ELSE Len(dels)
        /\ \A p \in 1 .. Len(H) :
             H[p] = IF p <= Len(dels) /\ p <= Len(adds) THEN ChangeRow(a + (p - 1), b + (p - 1))
                    ELSE IF p <= Len(dels) THEN DeleteRow(a + (p - 1)) ELSE AddRow(b + (p - 1))
    BY <1>12, <1>13, <2>1, <2>2, HunkShape, Zenon DEF H
  <2> QED
    BY <1>12, <1>13, <2>3
<1> HIDE DEF H
<1>16. GoesOn(left, right, lcs, H, a, b, d, e)
  <2>1. a + d <= Len(left) + 1 /\ b + e <= Len(right) + 1
    BY <1>10
  <2> QED
    BY <1>10, <1>11, <1>15, <2>1, HunkGoesOn, Zenon
<1>17. Len(H) > 0 /\ H[1].op \in {"delete", "change"}
  <2>1. Len(H) \in Nat /\ 1 \in 1 .. Len(H) /\ Len(H) > 0 /\ 1 <= d
    BY <1>15
  <2>2. a + (1 - 1) \in Nat /\ b + (1 - 1) \in Nat
    BY DEF CallOK
  <2>3. H[1] = ChangeRow(a + (1 - 1), b + (1 - 1)) \/ H[1] = DeleteRow(a + (1 - 1))
    BY <1>15, <2>1
  <2> QED
    BY <2>1, <2>2, <2>3, RowFields
<1>18. out \in Seq(Rows)
  BY DEF Account
<1>19. Len(out) > 0 => Follows(out[Len(out)].op, H[1].op)
  <2> SUFFICES ASSUME Len(out) > 0 PROVE Follows(out[Len(out)].op, H[1].op)
    OBVIOUS
  <2>1. out[Len(out)].op \in {"equal", "delete", "add", "change"}
    <3>1. Len(out) \in 1 .. Len(out)
      BY <1>18
    <3>2. out[Len(out)] \in Rows
      BY <1>18, <3>1
    <3> QED
      BY <3>2 DEF Rows
  <2>2. out[Len(out)].op \notin {"add", "delete", "change"}
    BY <1>0, <1>1 DEF Boundary
  <2>3. out[Len(out)].op = "equal"
    BY <2>1, <2>2
  <2>4. H[1].op \in {"equal", "delete", "add", "change"}
    BY <1>17
  <2> QED
    BY <2>3, <2>4, MayFollow
<1>20. Account(x[aEnd], y[aEnd])'
  <2>1. a + d <= Len(left) + 1 /\ b + e <= Len(right) + 1
    BY <1>10
  <2>2. Account(a, b)
    BY <1>0, <1>7
  <2>3. UNCHANGED <<left, right, lcs>>
    BY <1>1
  <2>4. Account(a + d, b + e)'
    BY <1>14, <1>15, <1>16, <1>19, <2>1, <2>2, <2>3, AccountGrows, Zenon
  <2> QED
    BY <1>9, <2>4
<1>21. CallOK' /\ Path(x, y)'
  <2>1. CallOK'
    BY <1>1 DEF CallOK
  <2>2. Path(x, y)'
    BY <1>1 DEF Path
  <2> QED
    BY <2>1, <2>2
<1>22. aEnd <= m => raws[aEnd].op = "equal"
  <2> SUFFICES ASSUME aEnd <= m PROVE raws[aEnd].op = "equal"
    OBVIOUS
  <2>1. aEnd \in 1 .. Len(raws)
    BY <1>0, <1>6
  <2>2. WalkedPast(left, right, lcs, raws[aEnd], x[aEnd], y[aEnd], x[aEnd + 1], y[aEnd + 1])
    BY <2>1 DEF Path
  <2>3. raws[aEnd].op \in {"equal", "delete", "add"} /\ raws[aEnd].op # "add"
    <3>1. raws[aEnd].op \in {"equal", "delete", "add"}
      BY <2>2, WalkedPastKeeps, Zenon
    <3> QED
      BY <1>4, <3>1
  <2>4. raws[aEnd].op # "delete"
    <3>1. CASE aEnd = dEnd
      BY <1>3, <3>1
    <3>2. CASE aEnd # dEnd
      <4>1. /\ aEnd - 1 \in 1 .. Len(raws) /\ aEnd - 1 \in dEnd .. aEnd - 1 /\ (aEnd - 1) + 1 = aEnd
        BY <1>0, <1>3, <1>4, <1>6, <2>1, <3>2
      <4>2. WalkedPast(left, right, lcs, raws[aEnd - 1], x[aEnd - 1], y[aEnd - 1], x[aEnd], y[aEnd])
        BY <4>1 DEF Path
      <4>3. raws[aEnd - 1].op = "add"
        BY <1>4, <4>1
      <4> QED
        BY <2>2, <4>2, <4>3, DeletesFirst
    <3> QED
      BY <3>1, <3>2
  <2> QED
    BY <2>3, <2>4
<1>23. Boundary'
  <2>1. k' <= Len(raws') => raws'[k'].op = "equal"
    BY <1>0, <1>1, <1>22
  <2> QED
    BY <2>1 DEF Boundary
<1>24. k' \in k + 1 .. Len(raws) + 1
  BY <1>0, <1>1, <1>6
<1> QED
  BY <1>1, <1>20, <1>21, <1>23, <1>24 DEF KeepsUp

-----------------------------------------------------------------------------
\* The invariant.
LEMMA CallStarts ==
  ASSUME NEW l \in Seq(Line), NEW r \in Seq(Line), Locals(l, r), pc' \in {"idle", "walk"}
  PROVE  DiffInv'
<1>1. /\ left' = l /\ right' = r /\ lcs' = Table(l, r) /\ i' = 1 /\ j' = 1 /\ k' = 1
      /\ raws' = <<>> /\ out' = <<>> /\ Len(raws') = 0 /\ Len(out') = 0
  BY DEF Locals
<1>2. CallOK'
  BY <1>1 DEF CallOK
<1>3. Account(1, 1)'
  <2>1. (CallOK /\ out = <<>> => Account(1, 1))'
    BY NothingAnswered, PTL
  <2> QED
    BY <1>1, <1>2, <2>1
<1> DEFINE one == [n \in 1 .. 1 |-> 1]
<1>4. one[1] = 1 /\ one \in [1 .. 1 -> Nat]
  OBVIOUS
<1> HIDE DEF one
<1>5. Path(one, one)'
  <2>1. Len(raws') + 1 = 1 /\ 1 .. Len(raws') = {}
    BY <1>1
  <2> QED
    BY <1>1, <1>4, <2>1 DEF Path
<1>6. Account(one[k], one[k])'
  BY <1>1, <1>3, <1>4 DEF Account
<1>7. Boundary' /\ k' \in 1 .. Len(raws') + 1
  BY <1>1 DEF Boundary
<1> QED
  BY <1>1, <1>2, <1>5, <1>6, <1>7 DEF DiffInv

LEMMA WalkGoesOn ==
  ASSUME DiffInv, pc = "walk", NEW row \in Rows, NEW i2, NEW j2, i' = i2, j' = j2,
         WalkedPast(left, right, lcs, row, i, j, i2, j2), raws' = Append(raws, row),
         UNCHANGED <<left, right, lcs, k, out, pc>>
  PROVE  DiffInv'
<1>1. PICK x, y : Path(x, y) /\ CallOK
  BY DEF DiffInv
<1>2. k' = 1 /\ out' = <<>> /\ pc' = "walk" /\ Len(out') = 0
  BY DEF DiffInv
<1>3. UNCHANGED <<left, right, lcs>>
  OBVIOUS
<1>4. PICK x2, y2 : CallOK' /\ Path(x2, y2)' /\ x2[1] = 1 /\ y2[1] = 1
  BY <1>1, <1>3, PathGrows, Zenon
<1>5. Account(1, 1)'
  <2>1. (CallOK /\ out = <<>> => Account(1, 1))'
    BY NothingAnswered, PTL
  <2> QED
    BY <1>2, <1>4, <2>1
<1>6. Account(x2[k], y2[k])'
  BY <1>2, <1>4, <1>5 DEF Account
<1>7. Boundary' /\ k' \in 1 .. Len(raws') + 1
  <2>1. Len(raws') \in Nat
    BY <1>4 DEF CallOK
  <2> QED
    BY <1>2, <2>1 DEF Boundary
<1> QED
  BY <1>2, <1>4, <1>6, <1>7 DEF DiffInv

LEMMA WalkBounds ==
  ASSUME DiffInv
  PROVE  /\ i \in 1 .. Len(left) + 1 /\ j \in 1 .. Len(right) + 1
         /\ Len(left) \in Nat /\ Len(right) \in Nat /\ Len(raws) \in Nat
<1>1. PICK x, y : Path(x, y) /\ CallOK
  BY DEF DiffInv
<1>2. Len(left) \in Nat /\ Len(right) \in Nat /\ Len(raws) \in Nat
  BY <1>1 DEF CallOK
<1>3. Len(raws) + 1 \in 1 .. Len(raws) + 1
  BY <1>2
<1>4. x[Len(raws) + 1] \in 1 .. Len(left) + 1 /\ y[Len(raws) + 1] \in 1 .. Len(right) + 1
  BY <1>1, <1>3, PathBounds
<1> QED
  BY <1>1, <1>2, <1>4 DEF Path

LEMMA DiffStep ==
  DiffInv /\ [Next]_vars => DiffInv'
<1> SUFFICES ASSUME DiffInv, [Next]_vars PROVE DiffInv'
  OBVIOUS
<1>0. /\ i \in 1 .. Len(left) + 1 /\ j \in 1 .. Len(right) + 1
      /\ Len(left) \in Nat /\ Len(right) \in Nat /\ Len(raws) \in Nat
      /\ i \in Nat /\ j \in Nat
  <2>1. /\ i \in 1 .. Len(left) + 1 /\ j \in 1 .. Len(right) + 1
        /\ Len(left) \in Nat /\ Len(right) \in Nat /\ Len(raws) \in Nat
    BY WalkBounds, Zenon
  <2> QED
    BY <2>1
<1>1. CASE pc = "idle" /\ \E old, new \in Texts : Call(old, new)
  <2>1. PICK old \in Texts, new \in Texts : Call(old, new)
    BY <1>1
  <2>2. SplitLines(old) \in Seq(Line) /\ SplitLines(new) \in Seq(Line)
    BY SplitLinesTyped
  <2>3. Locals(SplitLines(old), SplitLines(new)) /\ pc' \in {"idle", "walk"}
    BY <2>1 DEF Call
  <2> QED
    BY <2>2, <2>3, CallStarts, Zenon
<1>2. CASE Match
  <2>1. /\ pc = "walk" /\ i \in 1 .. Len(left) /\ j \in 1 .. Len(right) /\ left[i] = right[j]
        /\ raws' = Append(raws, EqualRow(i, j))
        /\ UNCHANGED <<left, right, lcs, k, out, pc>>
    BY <1>0, <1>2 DEF Match, BothLeft
  <2>2. PICK row \in Rows, i2 \in Nat, j2 \in Nat :
          row = EqualRow(i, j) /\ i2 = i + 1 /\ j2 = j + 1 /\ i' = i2 /\ j' = j2
    BY <1>0, <1>2, RowFields DEF Match
  <2>3. WalkedPast(left, right, lcs, row, i, j, i2, j2)
    BY <2>1, <2>2 DEF WalkedPast
  <2>4. raws' = Append(raws, row)
    BY <2>1, <2>2
  <2> QED
    BY <2>1, <2>2, <2>3, <2>4, WalkGoesOn, Zenon
<1>3. CASE Delete
  <2>1. /\ pc = "walk" /\ i \in 1 .. Len(left)
        /\ j <= Len(right) => left[i] # right[j] /\ lcs[<<i + 1, j>>] >= lcs[<<i, j + 1>>]
        /\ raws' = Append(raws, DeleteRow(i))
        /\ UNCHANGED <<left, right, lcs, k, out, pc>>
    BY <1>0, <1>3 DEF Delete, PrefersDelete
  <2>2. PICK row \in Rows, i2 \in Nat, j2 \in Nat :
          row = DeleteRow(i) /\ i2 = i + 1 /\ j2 = j /\ i' = i2 /\ j' = j2
    BY <1>0, <1>3, RowFields DEF Delete
  <2>3. WalkedPast(left, right, lcs, row, i, j, i2, j2)
    BY <1>0, <2>1, <2>2 DEF WalkedPast
  <2>4. raws' = Append(raws, row)
    BY <2>1, <2>2
  <2> QED
    BY <2>1, <2>2, <2>3, <2>4, WalkGoesOn, Zenon
<1>4. CASE Add
  <2>1. /\ pc = "walk" /\ j \in 1 .. Len(right)
        /\ i <= Len(left) => left[i] # right[j] /\ ~(lcs[<<i + 1, j>>] >= lcs[<<i, j + 1>>])
        /\ raws' = Append(raws, AddRow(j))
        /\ UNCHANGED <<left, right, lcs, k, out, pc>>
    BY <1>0, <1>4 DEF Add, PrefersDelete
  <2>2. PICK row \in Rows, i2 \in Nat, j2 \in Nat :
          row = AddRow(j) /\ i2 = i /\ j2 = j + 1 /\ i' = i2 /\ j' = j2
    BY <1>0, <1>4, RowFields DEF Add
  <2>3. WalkedPast(left, right, lcs, row, i, j, i2, j2)
    BY <1>0, <2>1, <2>2 DEF WalkedPast
  <2>4. raws' = Append(raws, row)
    BY <2>1, <2>2
  <2> QED
    BY <2>1, <2>2, <2>3, <2>4, WalkGoesOn, Zenon
<1> DEFINE Settled == /\ i = Len(left) + 1 /\ j = Len(right) + 1
                      /\ k \in 1 .. Len(raws) + 1
                      /\ CallOK /\ Boundary
                      /\ \E x, y : Path(x, y) /\ Account(x[k], y[k])
<1>5. ASSUME Settled, UNCHANGED <<left, right, lcs, i, j, raws, k, out>>
      PROVE  Settled'
  <2>1. CallOK' /\ Boundary'
    BY <1>5 DEF CallOK, Boundary
  <2>2. PICK x, y : Path(x, y) /\ Account(x[k], y[k])
    BY <1>5
  <2>3. Path(x, y)'
    BY <1>5, <2>2 DEF Path
  <2>4. Account(x[k], y[k])'
    BY <1>5, <2>2 DEF Account
  <2> QED
    BY <1>5, <2>1, <2>3, <2>4
<1>6. CASE EndWalk
  <2>1. /\ UNCHANGED <<left, right, lcs, i, j, raws, k, out>>
        /\ pc' = "collapse" /\ i = Len(left) + 1 /\ j = Len(right) + 1
    BY <1>0, <1>6 DEF EndWalk
  <2>2. Settled
    BY <2>1 DEF DiffInv
  <2>3. Settled'
    BY <1>5, <2>1, <2>2
  <2> QED
    BY <2>1, <2>3 DEF DiffInv
<1>7. CASE Return
  <2>1. /\ UNCHANGED <<left, right, lcs, i, j, raws, k, out>>
        /\ pc' = "return" /\ i = Len(left) + 1 /\ j = Len(right) + 1 /\ k' = Len(raws') + 1
    BY <1>0, <1>7 DEF Return, DiffInv
  <2>2. Settled
    BY <2>1 DEF DiffInv
  <2>3. Settled'
    BY <1>5, <2>1, <2>2
  <2> QED
    BY <2>1, <2>3 DEF DiffInv
<1>8. CASE CollapseHunk \/ CopyRow
  <2>1. pc = "collapse" /\ pc' = "collapse" /\ UNCHANGED <<left, right, i, j, raws>>
    BY <1>8 DEF CollapseHunk, CopyRow
  <2>2. i = Len(left) + 1 /\ j = Len(right) + 1 /\ CallOK /\ Boundary /\ k \in 1 .. Len(raws) + 1
    BY <2>1 DEF DiffInv
  <2>3. PICK x, y : Path(x, y) /\ Account(x[k], y[k])
    BY DEF DiffInv
  <2>4. KeepsUp(x, y)
    BY <1>8, <2>2, <2>3, CopyKeepsUp, HunkKeepsUp
  <2>5. k' \in 1 .. Len(raws') + 1
    BY <1>0, <2>1, <2>2, <2>4 DEF KeepsUp
  <2>6. Account(x[k], y[k])'
    BY <2>4 DEF KeepsUp, Account
  <2>7. CallOK' /\ Boundary' /\ Path(x, y)'
    BY <2>4 DEF KeepsUp
  <2> QED
    BY <2>1, <2>2, <2>5, <2>6, <2>7 DEF DiffInv
<1>9. CASE TakeAnswer
  <2>1. Locals(<<>>, <<>>) /\ pc' \in {"idle", "walk"} /\ <<>> \in Seq(Line)
    BY <1>9 DEF TakeAnswer
  <2> QED
    BY <2>1, CallStarts
<1>10. CASE UNCHANGED vars
  <2>1. UNCHANGED <<left, right, lcs, i, j, raws, k, out, pc>>
    BY <1>10 DEF vars
  <2>2. CallOK' /\ Boundary'
    BY <2>1 DEF CallOK, Boundary, DiffInv
  <2>3. PICK x, y : Path(x, y) /\ Account(x[k], y[k])
    BY DEF DiffInv
  <2>4. Path(x, y)'
    BY <2>1, <2>3 DEF Path
  <2>5. Account(x[k], y[k])'
    BY <2>1, <2>3 DEF Account
  <2> QED
    BY <2>1, <2>2, <2>4, <2>5 DEF DiffInv
<1> QED
  BY <1>1, <1>2, <1>3, <1>4, <1>6, <1>7, <1>8, <1>9, <1>10 DEF Next

\* All along, the walk is a path from the head of both texts, every step of it
\* dictated by the table, and the answer accounts for the part of the path that
\* is collapsed: its rows hold every line passed once and in order, the equal
\* ones are as many as the common lines passed, and where it stops no row can
\* follow that should have been paired (version/diff.go:23-105).
THEOREM DiffInvariant ==
  Spec => []DiffInv
<1>1. Init => DiffInv
  <2> SUFFICES ASSUME Init PROVE DiffInv
    OBVIOUS
  <2>1. /\ left = <<>> /\ right = <<>> /\ lcs = Table(left, right) /\ i = 1 /\ j = 1 /\ k = 1
        /\ raws = <<>> /\ out = <<>> /\ pc = "idle" /\ Len(raws) = 0 /\ Len(out) = 0
    BY DEF Init
  <2>2. CallOK
    BY <2>1 DEF CallOK
  <2>3. Account(1, 1)
    BY <2>1, <2>2, NothingAnswered
  <2> DEFINE one == [n \in 1 .. 1 |-> 1]
  <2>4. one[1] = 1 /\ one \in [1 .. 1 -> Nat]
    OBVIOUS
  <2> HIDE DEF one
  <2>5. Path(one, one)
    <3>1. Len(raws) + 1 = 1 /\ 1 .. Len(raws) = {}
      BY <2>1
    <3> QED
      BY <2>1, <2>4, <3>1 DEF Path
  <2>6. Account(one[k], one[k])
    BY <2>1, <2>3, <2>4 DEF Account
  <2>7. Boundary /\ k \in 1 .. Len(raws) + 1
    BY <2>1 DEF Boundary
  <2> QED
    BY <2>1, <2>2, <2>5, <2>6, <2>7 DEF DiffInv
<1> QED
  BY <1>1, DiffStep, PTL DEF Spec

-----------------------------------------------------------------------------
\* What the answer promises.
LEMMA Answered ==
  ASSUME DiffInv, pc = "return"
  PROVE  /\ Account(Len(left) + 1, Len(right) + 1) /\ CallOK
         /\ DOMAIN out = 1 .. Len(out) /\ Len(out) \in Nat
         /\ Len(left) \in Nat /\ Len(right) \in Nat
<1>1. PICK x, y : Path(x, y) /\ Account(x[k], y[k])
  BY DEF DiffInv
<1>2. x[k] = Len(left) + 1 /\ y[k] = Len(right) + 1
  BY <1>1 DEF Path, DiffInv
<1>3. Account(Len(left) + 1, Len(right) + 1)
  BY <1>1, <1>2
<1>4. out \in Seq(Rows)
  BY <1>1 DEF Account
<1>5. CallOK
  BY DEF DiffInv
<1>6. Len(left) \in Nat /\ Len(right) \in Nat
  BY <1>5 DEF CallOK
<1> QED
  BY <1>3, <1>4, <1>5, <1>6

LEMMA ColumnInOrder ==
  ASSUME NEW side, NEW m \in Nat, NEW n \in Nat, Column(side, m, (n + 1) - 1), DOMAIN out = 1 .. m
  PROVE  InOrder(side, n)
<1>1. (n + 1) - 1 = n
  OBVIOUS
<1> QED
  BY <1>1 DEF Column, InOrder

\* NothingLost, for all texts: the answer reads as the old text down its left
\* column and as the new one down its right column (version/diff.go:65-105).
THEOREM AnswerLosesNothing ==
  Spec => []NothingLost
<1>1. ASSUME DiffInv, pc = "return"
      PROVE  /\ InOrder([r \in DOMAIN out |-> out[r].i], Len(left))
             /\ InOrder([r \in DOMAIN out |-> out[r].j], Len(right))
             /\ \A r \in DOMAIN out : out[r].op = "equal" => left[out[r].i] = right[out[r].j]
  <2>1. /\ Account(Len(left) + 1, Len(right) + 1)
        /\ DOMAIN out = 1 .. Len(out) /\ Len(out) \in Nat
        /\ Len(left) \in Nat /\ Len(right) \in Nat
    BY <1>1, Answered, Zenon
  <2>2. /\ Column(LeftOf(out), Len(out), (Len(left) + 1) - 1)
        /\ Column(RightOf(out), Len(out), (Len(right) + 1) - 1)
        /\ \A r \in 1 .. Len(out) : out[r].op = "equal" => left[out[r].i] = right[out[r].j]
    BY <2>1, Zenon DEF Account
  <2>3. InOrder(LeftOf(out), Len(left)) /\ InOrder(RightOf(out), Len(right))
    BY <2>1, <2>2, ColumnInOrder, Zenon
  <2> QED
    BY <2>1, <2>2, <2>3, Zenon DEF LeftOf, RightOf
<1>2. DiffInv => NothingLost
  BY <1>1 DEF NothingLost
<1> QED
  BY <1>2, DiffInvariant, PTL

\* HunksAreCollapsed, for all texts: between two equal rows stand changes and
\* then only deletions or only additions (version/diff.go:13-15).
THEOREM AnswerIsCollapsed ==
  Spec => []HunksAreCollapsed
<1>1. DiffInv => HunksAreCollapsed
  <2> SUFFICES ASSUME DiffInv, pc = "return", NEW r \in 1 .. Len(out) - 1
               PROVE  /\ {out[r].op, out[r + 1].op} # {"add", "delete"}
                      /\ out[r].op \in {"add", "delete"} => out[r + 1].op # "change"
    BY DEF HunksAreCollapsed
  <2>1. Account(Len(left) + 1, Len(right) + 1)
    BY Answered
  <2>2. Follows(out[r].op, out[r + 1].op)
    BY <2>1 DEF Account
  <2> QED
    BY <2>2 DEF Follows
<1> QED
  BY <1>1, DiffInvariant, PTL

\* ChangesAreChanges, for all texts: no change joins equal lines, and there are
\* changes exactly when the texts differ (version/diff.go:108, HasChanges).
THEOREM AnswerShowsTheChanges ==
  Spec => []ChangesAreChanges
<1>1. DiffInv => ChangesAreChanges
  <2> SUFFICES ASSUME DiffInv, pc = "return"
               PROVE  /\ \A r \in DOMAIN out : out[r].op = "change" => left[out[r].i] # right[out[r].j]
                      /\ HasChanges <=> left # right
    BY DEF ChangesAreChanges
  <2>1. /\ Account(Len(left) + 1, Len(right) + 1) /\ CallOK
        /\ DOMAIN out = 1 .. Len(out) /\ Len(out) \in Nat
        /\ Len(left) \in Nat /\ Len(right) \in Nat
    BY Answered
  <2>2. \A r \in DOMAIN out : out[r].op = "change" => left[out[r].i] # right[out[r].j]
    BY <2>1 DEF Account
  <2>3. HasChanges <=> ~AllEqual(out)
    BY <2>1 DEF HasChanges, AllEqual
  <2>4. left = right => AllEqual(out)
    BY <2>1 DEF Account
  <2>5. ASSUME AllEqual(out) PROVE left = right
    <3>1. /\ Len(left) + 1 = Len(out) + 1 /\ Len(right) + 1 = Len(out) + 1
          /\ \A r \in 1 .. Len(out) : out[r].i = r /\ out[r].j = r /\ left[out[r].i] = right[out[r].j]
      BY <2>1, <2>5 DEF Account, AllEqual
    <3>2. left \in Seq(Line) /\ right \in Seq(Line)
      BY <2>1 DEF CallOK
    <3>3. Len(left) = Len(right) /\ \A r \in 1 .. Len(left) : left[r] = right[r]
      BY <2>1, <3>1
    <3> QED
      BY <3>2, <3>3
  <2> QED
    BY <2>2, <2>3, <2>4, <2>5
<1> QED
  BY <1>1, DiffInvariant, PTL

-----------------------------------------------------------------------------
\* The longest common subsequence.
Below(s, v) == {y \in s : y < v}

\* A set of positions has one for every place in its order.
LEMMA PlaceTaken ==
  ASSUME NEW N \in Nat, NEW s \in SUBSET (1 .. N), NEW n \in 1 .. Cardinality(s)
  PROVE  \E x \in s : Cardinality(Below(s, x)) = n - 1
<1>0. \A y \in s : y \in Nat /\ 1 <= y /\ y <= N
  OBVIOUS
<1>1. IsFiniteSet(s) /\ Cardinality(s) \in Nat
  <2>1. IsFiniteSet(1 .. N)
    BY FS_Interval
  <2>2. IsFiniteSet(s)
    BY <2>1, FS_Subset
  <2> QED
    BY <2>2, FS_CardinalityType
<1>2. \A v : IsFiniteSet(Below(s, v)) /\ Cardinality(Below(s, v)) \in Nat
  <2> SUFFICES ASSUME NEW v PROVE IsFiniteSet(Below(s, v)) /\ Cardinality(Below(s, v)) \in Nat
    OBVIOUS
  <2>1. Below(s, v) \in SUBSET s
    BY DEF Below
  <2>2. IsFiniteSet(Below(s, v))
    BY <1>1, <2>1, FS_Subset
  <2> QED
    BY <2>2, FS_CardinalityType
<1> DEFINE enough == {v \in Nat : Cardinality(Below(s, v + 1)) >= n}
<1>3. N \in enough
  <2>1. Below(s, N + 1) = s
    <3>1. \A y \in s : y < N + 1
      BY <1>0
    <3> QED
      BY <3>1 DEF Below
  <2> QED
    BY <1>1, <2>1
<1>4. PICK v \in enough : \A w \in enough : v <= w
  <2>1. enough \in SUBSET Nat /\ enough # {}
    BY <1>3
  <2> HIDE DEF enough
  <2> QED
    BY <2>1, LeastNumber
<1>5. v \in Nat /\ Cardinality(Below(s, v + 1)) >= n
  OBVIOUS
<1>6. v # 0
  <2> SUFFICES ASSUME v = 0 PROVE FALSE
    OBVIOUS
  <2>1. Below(s, v + 1) = {}
    <3>1. \A y \in s : ~(y < v + 1)
      BY <1>0
    <3> QED
      BY <3>1 DEF Below
  <2>2. Cardinality(Below(s, v + 1)) = 0
    BY <2>1, FS_EmptySet
  <2> QED
    BY <1>1, <1>5, <2>2
<1>7. Cardinality(Below(s, v)) < n
  <2>1. v - 1 \in Nat /\ (v - 1) + 1 = v /\ v - 1 \notin enough
    BY <1>4, <1>5, <1>6
  <2>2. ~(Cardinality(Below(s, v)) >= n)
    BY <2>1
  <2> QED
    BY <1>1, <1>2, <2>2
<1> HIDE DEF enough
<1>8. v \in s
  <2> SUFFICES ASSUME v \notin s PROVE FALSE
    OBVIOUS
  <2>1. \A y \in s : y < v + 1 <=> y < v
    BY <1>0, <1>5
  <2>2. Below(s, v + 1) = Below(s, v)
    BY <2>1 DEF Below
  <2> QED
    BY <1>1, <1>2, <1>5, <1>7, <2>2
<1>9. Cardinality(Below(s, v + 1)) = Cardinality(Below(s, v)) + 1
  <2>0. \A y \in s : y < v + 1 <=> y < v \/ y = v
    BY <1>0, <1>5
  <2>1. Below(s, v + 1) = Below(s, v) \cup {v} /\ v \notin Below(s, v)
    <3>1. v \notin Below(s, v)
      BY <1>5 DEF Below
    <3>2. ASSUME NEW y PROVE y \in Below(s, v + 1) <=> y \in Below(s, v) \/ y = v
      BY <1>8, <2>0, Zenon DEF Below
    <3> QED
      BY <3>1, <3>2
  <2> QED
    BY <1>2, <2>1, FS_AddElement
<1> QED
  <2>1. Cardinality(Below(s, v)) = n - 1
    <3>1. Cardinality(Below(s, v)) \in Nat /\ n \in Nat
      BY <1>1, <1>2
    <3> QED
      BY <1>5, <1>7, <1>9, <3>1
  <2> QED
    BY <1>8, <2>1

\* The positions of a subsequence, in their order.
Embeds(f, c, t) ==
  /\ f \in [1 .. Len(c) -> 1 .. Len(t)]
  /\ \A n \in 1 .. Len(c) : c[n] = t[f[n]]
  /\ \A n \in 1 .. Len(c) - 1 : f[n] < f[n + 1]

LEMMA SubsequenceEmbeds ==
  ASSUME NEW S, NEW t \in Seq(S), NEW c \in Subsequences(t)
  PROVE  Len(c) \in Nat /\ \E f : Embeds(f, c, t)
<1>1. DOMAIN t = 1 .. Len(t) /\ Len(t) \in Nat
  OBVIOUS
<1>2. PICK s \in SUBSET (1 .. Len(t)) :
        c = [n \in 1 .. Cardinality(s) |-> t[CHOOSE x \in s : Cardinality({y \in s : y < x}) = n - 1]]
  BY <1>1 DEF Subsequences
<1>3. PICK m \in Nat : m = Cardinality(s)
  <2>1. IsFiniteSet(1 .. Len(t))
    BY <1>1, FS_Interval
  <2>2. IsFiniteSet(s)
    BY <2>1, FS_Subset
  <2> QED
    BY <2>2, FS_CardinalityType
<1> DEFINE At(n) == CHOOSE x \in s : Cardinality(Below(s, x)) = n - 1
           f == [n \in 1 .. m |-> At(n)]
<1>4. c = [n \in 1 .. m |-> t[At(n)]]
  BY <1>2, <1>3 DEF Below
<1>5. ASSUME NEW n \in 1 .. m PROVE At(n) \in s /\ Cardinality(Below(s, At(n))) = n - 1
  <2>1. \E x \in s : Cardinality(Below(s, x)) = n - 1
    BY <1>1, <1>3, PlaceTaken
  <2> QED
    BY <2>1
<1> HIDE DEF At
<1>6. /\ f \in [1 .. m -> 1 .. Len(t)] /\ \A n \in 1 .. m : f[n] = At(n)
  BY <1>5
<1>7. Len(c) = m /\ \A n \in 1 .. m : c[n] = t[At(n)]
  <2>1. DOMAIN c = 1 .. m
    BY <1>4
  <2> QED
    BY <1>4, <2>1
<1> HIDE DEF f
<1>8. ASSUME NEW n \in 1 .. m - 1 PROVE f[n] < f[n + 1]
  <2>1. n \in 1 .. m /\ n + 1 \in 1 .. m
    OBVIOUS
  <2>2. PICK a \in s, b \in s : /\ a = f[n] /\ b = f[n + 1]
                                /\ Cardinality(Below(s, a)) = n - 1
                                /\ Cardinality(Below(s, b)) = (n + 1) - 1
    BY <1>5, <1>6, <2>1
  <2>3. a \in Nat /\ b \in Nat
    OBVIOUS
  <2>4. IsFiniteSet(Below(s, a))
    <3>1. IsFiniteSet(1 .. Len(t))
      BY <1>1, FS_Interval
    <3>2. Below(s, a) \in SUBSET (1 .. Len(t))
      BY DEF Below
    <3> QED
      BY <3>1, <3>2, FS_Subset
  <2>5. ASSUME b <= a PROVE FALSE
    <3>0. \A y \in s : y < b => y < a
      <4>1. \A y \in s : y \in Nat
        OBVIOUS
      <4> QED
        BY <2>3, <2>5, <4>1
    <3>1. Below(s, b) \in SUBSET Below(s, a)
      BY <3>0 DEF Below
    <3>2. Cardinality(Below(s, b)) <= Cardinality(Below(s, a))
      BY <2>4, <3>1, FS_Subset
    <3> QED
      BY <2>2, <3>2
  <2> QED
    BY <2>2, <2>3, <2>5
<1>9. Embeds(f, c, t)
  BY <1>6, <1>7, <1>8 DEF Embeds
<1> QED
  BY <1>7, <1>9

\* The table's first cell is no less than the length of any common subsequence.
LEMMA TableIsEnough ==
  ASSUME NEW S, NEW l \in Seq(S), NEW r \in Seq(S), NEW c, Len(c) \in Nat,
         NEW f, NEW g, Embeds(f, c, l), Embeds(g, c, r)
  PROVE  Len(c) <= Table(l, r)[<<1, 1>>]
<1> DEFINE t == Table(l, r)
<1>0. PICK n \in Nat : n = Len(c)
  OBVIOUS
<1>1. \A x \in 1 .. Len(l) + 1, y \in 1 .. Len(r) + 1 :
        /\ t[<<x, y>>] \in Nat /\ t[<<x, y>>] = Cell(l, r, t, x, y)
        /\ \A x2 \in x .. Len(l) + 1, y2 \in y .. Len(r) + 1 : t[<<x2, y2>>] <= t[<<x, y>>]
  <2>1. \A x \in 1 .. Len(l) + 1, y \in 1 .. Len(r) + 1 : <<x, y>> \in Cells(l, r)
    BY DEF Cells
  <2>2. \A x \in 1 .. Len(l) + 1, y \in 1 .. Len(r) + 1 :
          t[<<x, y>>] \in Nat /\ t[<<x, y>>] = Cell(l, r, t, x, y)
    BY <2>1, TableCells
  <2>3. \A x \in 1 .. Len(l) + 1, y \in 1 .. Len(r) + 1 :
          \A x2 \in x .. Len(l) + 1, y2 \in y .. Len(r) + 1 : t[<<x2, y2>>] <= t[<<x, y>>]
    BY TableFalls
  <2> HIDE DEF t
  <2> QED
    BY <2>2, <2>3
<1> HIDE DEF t
<1>2. Len(l) \in Nat /\ Len(r) \in Nat
  OBVIOUS
<1>3. ASSUME NEW q \in 1 .. n
      PROVE  /\ f[q] \in 1 .. Len(l) /\ g[q] \in 1 .. Len(r)
             /\ f[q] + 1 \in 1 .. Len(l) + 1 /\ g[q] + 1 \in 1 .. Len(r) + 1
             /\ t[<<f[q], g[q]>>] = t[<<f[q] + 1, g[q] + 1>>] + 1
             /\ t[<<f[q] + 1, g[q] + 1>>] \in Nat
  <2>1. f[q] \in 1 .. Len(l) /\ g[q] \in 1 .. Len(r) /\ l[f[q]] = r[g[q]]
    BY <1>0 DEF Embeds
  <2>2. /\ f[q] + 1 \in 1 .. Len(l) + 1 /\ g[q] + 1 \in 1 .. Len(r) + 1
        /\ f[q] \in 1 .. Len(l) + 1 /\ g[q] \in 1 .. Len(r) + 1
        /\ ~(f[q] > Len(l) \/ g[q] > Len(r))
    BY <1>2, <2>1
  <2>3. t[<<f[q], g[q]>>] = Cell(l, r, t, f[q], g[q]) /\ t[<<f[q] + 1, g[q] + 1>>] \in Nat
    BY <1>1, <2>2
  <2> QED
    BY <2>1, <2>2, <2>3 DEF Cell
<1> DEFINE Long == {d \in Nat : t[<<f[n - d], g[n - d]>>] >= d + 1}
<1>4. CASE n = 0
  <2>1. t[<<1, 1>>] \in Nat
    <3>1. 1 \in 1 .. Len(l) + 1 /\ 1 \in 1 .. Len(r) + 1
      BY <1>2
    <3> QED
      BY <1>1, <3>1
  <2> QED
    BY <1>0, <1>4, <2>1 DEF t
<1>5. CASE n # 0
  <2>1. 0 \in Long
    <3>1. n \in 1 .. n /\ n - 0 = n
      BY <1>5
    <3>2. t[<<f[n], g[n]>>] = t[<<f[n] + 1, g[n] + 1>>] + 1 /\ t[<<f[n] + 1, g[n] + 1>>] \in Nat
      BY <1>3, <3>1
    <3>3. t[<<f[n], g[n]>>] >= 0 + 1
      BY <3>2
    <3> QED
      BY <3>1, <3>3
  <2>2. ASSUME NEW d \in 0 .. (n - 1) - 1, d \in Long PROVE d + 1 \in Long
    <3>1. PICK q \in 1 .. n - 1 : q = n - (d + 1) /\ q + 1 = n - d /\ q \in 1 .. n /\ q + 1 \in 1 .. n
      <4>1. n - (d + 1) \in 1 .. n - 1
        BY <1>5
      <4> QED
        BY <4>1
    <3>2. t[<<f[q + 1], g[q + 1]>>] >= d + 1
      BY <2>2, <3>1
    <3>3. /\ f[q] + 1 \in 1 .. Len(l) + 1 /\ g[q] + 1 \in 1 .. Len(r) + 1
          /\ f[q + 1] \in f[q] + 1 .. Len(l) + 1 /\ g[q + 1] \in g[q] + 1 .. Len(r) + 1
      <4>1. f[q] < f[q + 1] /\ g[q] < g[q + 1]
        BY <1>0 DEF Embeds
      <4>2. f[q] \in 1 .. Len(l) /\ g[q] \in 1 .. Len(r) /\ f[q + 1] \in 1 .. Len(l) /\ g[q + 1] \in 1 .. Len(r)
        BY <1>3, <3>1
      <4> QED
        BY <1>2, <4>1, <4>2
    <3>4. t[<<f[q + 1], g[q + 1]>>] <= t[<<f[q] + 1, g[q] + 1>>]
      BY <1>1, <3>3
    <3>5. t[<<f[q], g[q]>>] = t[<<f[q] + 1, g[q] + 1>>] + 1 /\ t[<<f[q] + 1, g[q] + 1>>] \in Nat
      BY <1>3, <3>1
    <3>6. t[<<f[q + 1], g[q + 1]>>] \in Nat
      <4>1. /\ t[<<f[q + 1], g[q + 1]>>] = t[<<f[q + 1] + 1, g[q + 1] + 1>>] + 1
            /\ t[<<f[q + 1] + 1, g[q + 1] + 1>>] \in Nat
        BY <1>3, <3>1
      <4> QED
        BY <4>1
    <3>7. t[<<f[q], g[q]>>] >= (d + 1) + 1
      BY <3>2, <3>4, <3>5, <3>6
    <3> QED
      BY <3>1, <3>7
  <2>3. \A d \in 0 .. n - 1 : d \in Long
    <3>1. 0 \in Int /\ n - 1 \in Int
      OBVIOUS
    <3> HIDE DEF Long
    <3> QED
      BY <2>1, <2>2, <3>1, Upward, Zenon
  <2>4. t[<<f[1], g[1]>>] >= n
    <3>1. n - 1 \in 0 .. n - 1 /\ n - (n - 1) = 1 /\ (n - 1) + 1 = n
      BY <1>5
    <3> QED
      BY <2>3, <3>1
  <2>5. t[<<f[1], g[1]>>] <= t[<<1, 1>>] /\ t[<<f[1], g[1]>>] \in Nat /\ t[<<1, 1>>] \in Nat
    <3>1. 1 \in 1 .. n
      BY <1>5
    <3>2. f[1] \in 1 .. Len(l) /\ g[1] \in 1 .. Len(r)
      BY <1>3, <3>1
    <3>3. /\ 1 \in 1 .. Len(l) + 1 /\ 1 \in 1 .. Len(r) + 1
          /\ f[1] \in 1 .. Len(l) + 1 /\ g[1] \in 1 .. Len(r) + 1
      BY <1>2, <3>2
    <3> QED
      BY <1>1, <3>3
  <2> QED
    BY <1>0, <2>4, <2>5 DEF t
<1> QED
  BY <1>4, <1>5

\* EqualRowsAreLongest, for all texts: no common subsequence of the two texts
\* is longer than the answer's equal rows are many (version/diff.go:23-63).
THEOREM AnswerIsLongest ==
  Spec => []EqualRowsAreLongest
<1>1. DiffInv => EqualRowsAreLongest
  <2> SUFFICES ASSUME DiffInv, pc = "return", NEW c \in Subsequences(left) \intersect Subsequences(right)
               PROVE  Len(c) <= Count("equal")
    BY DEF EqualRowsAreLongest
  <2>1. /\ Account(Len(left) + 1, Len(right) + 1) /\ CallOK
        /\ DOMAIN out = 1 .. Len(out) /\ Len(left) \in Nat /\ Len(right) \in Nat
    BY Answered
  <2>2. left \in Seq(Line) /\ right \in Seq(Line) /\ lcs = Table(left, right)
    BY <2>1 DEF CallOK
  <2>3. Len(c) \in Nat /\ \E f : Embeds(f, c, left)
    BY <2>2, SubsequenceEmbeds
  <2>4. \E g : Embeds(g, c, right)
    BY <2>2, SubsequenceEmbeds
  <2>5. Len(c) <= lcs[<<1, 1>>]
    <3>1. PICK f, g : Embeds(f, c, left) /\ Embeds(g, c, right)
      BY <2>3, <2>4
    <3>2. Len(c) <= Table(left, right)[<<1, 1>>]
      BY <2>2, <2>3, <3>1, TableIsEnough
    <3> QED
      BY <2>2, <3>2
  <2>6. lcs[<<Len(left) + 1, Len(right) + 1>>] = 0 /\ lcs[<<1, 1>>] \in Nat
    <3>1. /\ Len(left) + 1 \in 1 .. Len(left) + 1 /\ Len(right) + 1 \in 1 .. Len(right) + 1
          /\ 1 \in 1 .. Len(left) + 1 /\ 1 \in 1 .. Len(right) + 1 /\ Len(left) + 1 > Len(left)
      BY <2>1
    <3>2. /\ lcs[<<Len(left) + 1, Len(right) + 1>>] = Cell(left, right, lcs, Len(left) + 1, Len(right) + 1)
          /\ lcs[<<1, 1>>] \in Nat
      BY <2>1, <3>1, LcsCells
    <3> QED
      BY <3>1, <3>2 DEF Cell
  <2>7. Count("equal") = Cardinality(EqualRows(out))
    BY <2>1 DEF Count, EqualRows
  <2>8. Cardinality(EqualRows(out)) = lcs[<<1, 1>>] - lcs[<<Len(left) + 1, Len(right) + 1>>]
    BY <2>1 DEF Account
  <2> QED
    BY <2>3, <2>5, <2>6, <2>7, <2>8
<1> QED
  BY <1>1, DiffInvariant, PTL
=============================================================================
