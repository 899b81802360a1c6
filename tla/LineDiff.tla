------------------------------ MODULE LineDiff ------------------------------
(***************************************************************************)
(* The line diff between two versions of a value (version/diff.go, Diff).   *)
(*                                                                         *)
(* A text is the sequence of its lines.  A row of the diff carries, in      *)
(* place of the text of a line, its position in the old text (i) and in the *)
(* new one (j), with 0 for the side the row leaves empty.                   *)
(*                                                                         *)
(* One call walks the two texts along the table of common subsequences,     *)
(* one row a step, and then collapses the rows, one hunk a step.            *)
(***************************************************************************)
EXTENDS Naturals, Sequences, FiniteSets

CONSTANTS
  Lines,       \* the different non-empty lines
  Empty,       \* the empty line
  MaxLines     \* bound on the lines of a text

ASSUME DiffAssumption == Empty \notin Lines /\ MaxLines \in Nat

VARIABLES
  left, right,  \* the lines of the old and of the new text
  lcs,          \* lcs[<<i, j>>]: longest common subsequence of left[i..] and right[j..]
  i, j,         \* the walk's positions in left and right
  raws,         \* the rows of the walk
  k,            \* the collapse's position in raws
  out,          \* the rows of the answer
  pc            \* "idle", "walk", "collapse" or "return"

vars == <<left, right, lcs, i, j, raws, k, out, pc>>

Texts == UNION {[1..n -> Lines \union {Empty}] : n \in 0..MaxLines}

\* splitLines: the empty lines at the end of a text are cut off.
SplitLines(text) ==
  LET kept == {0} \union {n \in DOMAIN text : text[n] # Empty}
  IN  SubSeq(text, 1, CHOOSE n \in kept : \A x \in kept : x <= n)

\* op is "equal", "delete", "add" or "change"; a side that has no line is 0.
Row(op, a, b) == [op |-> op, i |-> a, j |-> b]
EqualRow(a, b)  == Row("equal", a, b)
DeleteRow(a)    == Row("delete", a, 0)
AddRow(b)       == Row("add", 0, b)
ChangeRow(a, b) == Row("change", a, b)

\* Cell a, b of table t, from the cells below and to the right of it.
Cell(l, r, t, a, b) ==
  IF a > Len(l) \/ b > Len(r) THEN 0
  ELSE IF l[a] = r[b] THEN t[<<a + 1, b + 1>>] + 1
  ELSE IF t[<<a + 1, b>>] >= t[<<a, b + 1>>] THEN t[<<a + 1, b>>] ELSE t[<<a, b + 1>>]

Table(l, r) ==
  LET t[c \in (1..Len(l) + 1) \X (1..Len(r) + 1)] == Cell(l, r, t, c[1], c[2])
  IN  t

\* No call is running and no answer is held.
Init ==
  /\ left = <<>> /\ right = <<>>
  /\ lcs = Table(left, right)
  /\ i = 1 /\ j = 1 /\ k = 1
  /\ raws = <<>> /\ out = <<>>
  /\ pc = "idle"

\* The local variables of a call on the lines l and r, before its first step.
Locals(l, r) ==
  /\ left' = l /\ right' = r
  /\ lcs' = Table(l, r)
  /\ i' = 1 /\ j' = 1 /\ k' = 1
  /\ raws' = <<>> /\ out' = <<>>

Call(old, new) ==
  /\ pc' = "walk"
  /\ Locals(SplitLines(old), SplitLines(new))

-----------------------------------------------------------------------------
\* The walk.  Both texts have a line left, or only one of them does.
BothLeft == i <= Len(left) /\ j <= Len(right)

\* wrong: a tie between deleting and adding goes to adding
PrefersDeleteStrict(a, b) == lcs[<<a + 1, b>>] > lcs[<<a, b + 1>>]

\* wrong: the table is not looked at
PrefersDeleteAlways(a, b) == TRUE

\* Dropping the old line costs no more common lines than dropping the new one.
PrefersDelete(a, b) == lcs[<<a + 1, b>>] >= lcs[<<a, b + 1>>]

Match ==
  /\ pc = "walk" /\ BothLeft /\ left[i] = right[j]
  /\ raws' = Append(raws, EqualRow(i, j))
  /\ i' = i + 1 /\ j' = j + 1
  /\ UNCHANGED <<left, right, lcs, k, out, pc>>

Delete ==
  /\ pc = "walk" /\ i <= Len(left)
  /\ j <= Len(right) => left[i] # right[j] /\ PrefersDelete(i, j)
  /\ raws' = Append(raws, DeleteRow(i))
  /\ i' = i + 1
  /\ UNCHANGED <<left, right, lcs, j, k, out, pc>>

Add ==
  /\ pc = "walk" /\ j <= Len(right)
  /\ i <= Len(left) => left[i] # right[j] /\ ~PrefersDelete(i, j)
  /\ raws' = Append(raws, AddRow(j))
  /\ j' = j + 1
  /\ UNCHANGED <<left, right, lcs, i, k, out, pc>>

EndWalk ==
  /\ pc = "walk" /\ i > Len(left) /\ j > Len(right)
  /\ pc' = "collapse"
  /\ UNCHANGED <<left, right, lcs, i, j, raws, k, out>>

-----------------------------------------------------------------------------
\* The first row from position a on that is not an op.
RunEnd(a, op) ==
  CHOOSE e \in a..Len(raws) + 1 :
    /\ e <= Len(raws) => raws[e].op # op
    /\ \A x \in a..e - 1 : raws[x].op = op

Lesser(a, b) == IF a < b THEN a ELSE b

\* wrong: the lines that have no partner are lost
HunkRowsPairedOnly(dels, adds) ==
  [p \in 1..Lesser(Len(dels), Len(adds)) |-> ChangeRow(dels[p].i, adds[p].j)]

\* A run of deletions and the run of additions after it: paired row for row,
\* the rest of the longer run as it is.
HunkRows(dels, adds) ==
  LET pairs == Lesser(Len(dels), Len(adds))
  IN  [p \in 1..pairs |-> ChangeRow(dels[p].i, adds[p].j)]
        \o SubSeq(dels, pairs + 1, Len(dels))
        \o SubSeq(adds, pairs + 1, Len(adds))

CollapseHunk ==
  /\ pc = "collapse" /\ k <= Len(raws) /\ raws[k].op = "delete"
  /\ LET dEnd == RunEnd(k, "delete")
         aEnd == RunEnd(dEnd, "add")
     IN  /\ out' = out \o HunkRows(SubSeq(raws, k, dEnd - 1), SubSeq(raws, dEnd, aEnd - 1))
         /\ k' = aEnd
  /\ UNCHANGED <<left, right, lcs, i, j, raws, pc>>

CopyRow ==
  /\ pc = "collapse" /\ k <= Len(raws) /\ raws[k].op # "delete"
  /\ out' = Append(out, raws[k])
  /\ k' = k + 1
  /\ UNCHANGED <<left, right, lcs, i, j, raws, pc>>

Return ==
  /\ pc = "collapse" /\ k > Len(raws)
  /\ pc' = "return"
  /\ UNCHANGED <<left, right, lcs, i, j, raws, k, out>>

\* The caller takes the answer and the call's variables are gone.
TakeAnswer == pc = "return" /\ pc' = "idle" /\ Locals(<<>>, <<>>)

Next ==
  \/ pc = "idle" /\ \E old, new \in Texts : Call(old, new)
  \/ Match \/ Delete \/ Add \/ EndWalk
  \/ CollapseHunk \/ CopyRow \/ Return \/ TakeAnswer

Spec == Init /\ [][Next]_vars

\* Summarize and HasChanges of the answer.
Count(op) == Cardinality({r \in DOMAIN out : out[r].op = op})
HasChanges == \E r \in DOMAIN out : out[r].op # "equal"

-----------------------------------------------------------------------------
\* The lines 1..n stand in rows in their order, each once, on the given side.
InOrder(side, n) ==
  /\ \A a \in 1..n : \E r \in DOMAIN out : side[r] = a
  /\ \A r, s \in DOMAIN out : r < s /\ side[r] > 0 /\ side[s] > 0 => side[r] < side[s]

\* The answer is a faithful account of both texts: read down its left column
\* it is the old text, down its right column the new one, whatever the
\* collapse paired (diff.go:65-105), and equal rows hold equal lines.
NothingLost ==
  pc = "return" =>
    /\ InOrder([r \in DOMAIN out |-> out[r].i], Len(left))
    /\ InOrder([r \in DOMAIN out |-> out[r].j], Len(right))
    /\ \A r \in DOMAIN out : out[r].op = "equal" => left[out[r].i] = right[out[r].j]

\* The common subsequences of two texts, by their definition.
Subsequences(t) ==
  {[n \in 1..Cardinality(s) |-> t[CHOOSE x \in s : Cardinality({y \in s : y < x}) = n - 1]] :
     s \in SUBSET DOMAIN t}

\* The answer keeps as many lines equal as any diff could: the greedy walk
\* never gives away a common line (diff.go:45-57).
EqualRowsAreLongest ==
  pc = "return" =>
    \A c \in Subsequences(left) \intersect Subsequences(right) : Len(c) <= Count("equal")

\* "A delete immediately followed by an add is collapsed into a change"
\* (diff.go:13-15): between two equal rows stand changes and then only
\* deletions or only additions.  This needs the walk to put the deletions of a
\* hunk before its additions, which the tie at diff.go:50 decides.
HunksAreCollapsed ==
  pc = "return" =>
    \A r \in 1..Len(out) - 1 :
      /\ {out[r].op, out[r + 1].op} # {"add", "delete"}
      /\ out[r].op \in {"add", "delete"} => out[r + 1].op # "change"

\* "DiffChange marks a modified line (present in both versions but different)"
\* (diff.go:108): the pairing never joins two equal lines, and the answer has
\* changes exactly when the texts differ (HasChanges).
ChangesAreChanges ==
  pc = "return" =>
    /\ \A r \in DOMAIN out : out[r].op = "change" => left[out[r].i] # right[out[r].j]
    /\ HasChanges <=> left # right

=============================================================================
