--------------------------- MODULE MergeKernelProofs ---------------------------
(***************************************************************************)
(* Proofs about MergeKernel.  For documents of any depth over any field     *)
(* names: the merged document has the leaves no stronger layer hides, with  *)
(* their sources.  For properties texts of any length: what is rendered is  *)
(* read back, and the validator and the kernel read a text without          *)
(* backslashes alike exactly when no line is apart at a blank.              *)
(***************************************************************************)
EXTENDS MergeKernel, Integers, FiniteSetTheorems, SequenceTheorems, WellFoundedInduction, TLAPS

\* A set of numbers that is not empty has a least one.
LEMMA LeastNumber ==
  ASSUME NEW S \in SUBSET Nat, S # {}
  PROVE  \E n \in S : \A m \in S : n <= m
<1>1. PICK n \in S : \A m \in S : <<m, n>> \notin OpToRel(<, Nat)
  BY NatLessThanWellFounded, WFMin
<1>2. \A m \in S : ~(m < n)
  BY <1>1 DEF OpToRel
<1> QED
  BY <1>2

\* What holds at 0, and at p + 1 if at p, holds up to n.
LEMMA Upward ==
  ASSUME NEW n \in Nat, NEW S, 0 \in S,
         \A p \in 0 .. n - 1 : p \in S => p + 1 \in S
  PROVE  \A p \in 0 .. n : p \in S
<1> DEFINE bad == {d \in Nat : d <= n /\ d \notin S}
<1>1. SUFFICES ASSUME bad # {} PROVE FALSE
  OBVIOUS
<1>2. PICK d \in bad : \A e \in bad : d <= e
  BY <1>1, LeastNumber
<1>3. d # 0
  BY <1>2
<1>4. d - 1 \in Nat /\ d - 1 \notin bad
  BY <1>2, <1>3
<1>5. d - 1 \in 0 .. n - 1 /\ d - 1 \in S /\ (d - 1) + 1 = d
  BY <1>4, <1>2
<1> QED
  BY <1>2, <1>5

-----------------------------------------------------------------------------
\* Values by path.  One step down from a value, and the values passed on the
\* way to a path.
Down(v, key) ==
  IF IsObject(v) /\ key \in DOMAIN v.fields THEN v.fields[key] ELSE Absent

Cursor(doc, path, c) ==
  c = [n \in 0 .. Len(path) |-> IF n = 0 THEN Object(doc) ELSE Down(c[n - 1], path[n])]

LEMMA CursorExists ==
  ASSUME NEW doc, NEW S, NEW path \in Seq(S)
  PROVE  \E c : Cursor(doc, path, c)
<1>0. PICK len \in Nat : len = Len(path)
  OBVIOUS
<1> DEFINE Walks(c, n) == /\ c[0] = Object(doc)
                          /\ \A i \in 1 .. n : c[i] = Down(c[i - 1], path[i])
           good == {n \in 0 .. len : \E c : Walks(c, n)}
<1>1. 0 \in good
  <2>1. \E c : Walks(c, 0)
    <3>1. Walks([i \in {0} |-> Object(doc)], 0)
      OBVIOUS
    <3> HIDE DEF Walks
    <3> QED
      BY <3>1
  <2> QED
    BY <1>0, <2>1
<1>2. ASSUME NEW n \in 0 .. len - 1, n \in good PROVE n + 1 \in good
  <2>1. PICK c : Walks(c, n)
    BY <1>2
  <2> DEFINE d == [i \in 0 .. n + 1 |-> IF i <= n THEN c[i] ELSE Down(c[n], path[n + 1])]
  <2>2. /\ \A i \in 0 .. n : d[i] = c[i]
        /\ d[n + 1] = Down(c[n], path[n + 1])
    BY <1>0
  <2> HIDE DEF d
  <2>3. d[0] = Object(doc)
    BY <1>0, <2>1, <2>2
  <2>4. ASSUME NEW i \in 1 .. n + 1 PROVE d[i] = Down(d[i - 1], path[i])
    <3>1. CASE i = n + 1
      <4>1. i - 1 = n /\ n \in 0 .. n
        BY <1>0, <3>1
      <4> QED
        BY <2>2, <3>1, <4>1
    <3>2. CASE i # n + 1
      <4>1. i \in 1 .. n /\ i \in 0 .. n /\ i - 1 \in 0 .. n
        BY <1>0, <3>2
      <4> QED
        BY <2>1, <2>2, <4>1
    <3> QED
      BY <3>1, <3>2
  <2>5. Walks(d, n + 1)
    BY <2>3, <2>4
  <2> QED
    BY <1>0, <2>5
<1> HIDE DEF good
<1>3. len \in good
  BY <1>0, <1>1, <1>2, Upward
<1>4. PICK c : Walks(c, len)
  BY <1>3 DEF good
<1> DEFINE d == [i \in 0 .. len |-> c[i]]
<1>5. d = [i \in 0 .. len |-> IF i = 0 THEN Object(doc) ELSE Down(d[i - 1], path[i])]
  <2>1. ASSUME NEW i \in 0 .. len
        PROVE  c[i] = IF i = 0 THEN Object(doc) ELSE Down(d[i - 1], path[i])
    <3>1. CASE i = 0
      BY <1>4, <3>1
    <3>2. CASE i # 0
      <4>1. i \in 1 .. len /\ i - 1 \in 0 .. len
        BY <1>0, <3>2
      <4> QED
        BY <1>4, <3>2, <4>1
    <3> QED
      BY <3>1, <3>2
  <2> QED
    BY <2>1
<1> QED
  BY <1>0, <1>5 DEF Cursor

\* The values on the way to a path are those at its prefixes.
Pre(path, n) == SubSeq(path, 1, n)

LEMMA PreOf ==
  ASSUME NEW S, NEW path \in Seq(S), NEW n \in 0 .. Len(path)
  PROVE  /\ Pre(path, n) \in Seq(S) /\ Len(Pre(path, n)) = n
         /\ \A i \in 1 .. n : Pre(path, n)[i] = path[i]
BY DEF Pre

LEMMA PreWhole ==
  ASSUME NEW S, NEW path \in Seq(S)
  PROVE  /\ Pre(path, Len(path)) = path /\ Len(path) \in Nat
         /\ Len(path) = 0 <=> path = <<>>
BY DEF Pre

LEMMA PreAppend ==
  ASSUME NEW S, NEW path \in Seq(S), NEW n \in 0 .. Len(path) - 1
  PROVE  Append(Pre(path, n), path[n + 1]) = Pre(path, n + 1)
BY DEF Pre

LEMMA CursorsAgree ==
  ASSUME NEW doc, NEW S, NEW path \in Seq(S), NEW n \in 0 .. Len(path),
         NEW c, Cursor(doc, path, c), NEW d, Cursor(doc, Pre(path, n), d)
  PROVE  c[n] = d[n]
<1>0. Len(path) \in Nat /\ n \in Nat /\ n <= Len(path) /\ Len(Pre(path, n)) = n
  BY PreOf
<1> DEFINE same == {i \in 0 .. n : c[i] = d[i]}
<1>1. /\ \A i \in 0 .. Len(path) : c[i] = IF i = 0 THEN Object(doc) ELSE Down(c[i - 1], path[i])
      /\ \A i \in 0 .. n : d[i] = IF i = 0 THEN Object(doc) ELSE Down(d[i - 1], Pre(path, n)[i])
  BY <1>0 DEF Cursor
<1>2. 0 \in same
  BY <1>0, <1>1
<1>3. ASSUME NEW i \in 0 .. n - 1, i \in same PROVE i + 1 \in same
  <2>1. i + 1 \in 1 .. n /\ i + 1 \in 0 .. n /\ i + 1 \in 0 .. Len(path) /\ i + 1 # 0 /\ (i + 1) - 1 = i
    BY <1>0
  <2>2. Pre(path, n)[i + 1] = path[i + 1]
    BY <2>1, PreOf
  <2>3. c[i + 1] = Down(c[i], path[i + 1]) /\ d[i + 1] = Down(d[i], path[i + 1])
    BY <1>1, <2>1, <2>2
  <2> QED
    BY <1>3, <2>1, <2>3
<1> HIDE DEF same
<1>4. n \in same
  BY <1>0, <1>2, <1>3, Upward
<1> QED
  BY <1>4 DEF same

\* At a path is what the walk ends at: the whole document at the empty path,
\* and one step down from prefix to prefix.
LEMMA AtIsCursor ==
  ASSUME NEW doc, NEW S, NEW path \in Seq(S)
  PROVE  \E c : Cursor(doc, path, c) /\ At(doc, path) = c[Len(path)]
<1> DEFINE C == CHOOSE c : Cursor(doc, path, c)
<1>1. Cursor(doc, path, C)
  BY CursorExists
<1>2. At(doc, path) = C[Len(path)]
  BY DEF At, Cursor, Down
<1> QED
  BY <1>1, <1>2

LEMMA AtSteps ==
  ASSUME NEW doc, NEW S, NEW path \in Seq(S)
  PROVE  /\ At(doc, Pre(path, 0)) = Object(doc)
         /\ \A n \in 1 .. Len(path) :
              At(doc, Pre(path, n)) = Down(At(doc, Pre(path, n - 1)), path[n])
         /\ Pre(path, Len(path)) = path
<1>0. Len(path) \in Nat
  OBVIOUS
<1>1. PICK c : Cursor(doc, path, c)
  BY CursorExists
<1>2. ASSUME NEW n \in 0 .. Len(path) PROVE At(doc, Pre(path, n)) = c[n]
  <2>1. Pre(path, n) \in Seq(S) /\ Len(Pre(path, n)) = n
    BY PreOf
  <2>2. PICK d : Cursor(doc, Pre(path, n), d) /\ At(doc, Pre(path, n)) = d[n]
    BY <2>1, AtIsCursor
  <2> QED
    BY <1>1, <2>2, CursorsAgree
<1>3. \A i \in 0 .. Len(path) : c[i] = IF i = 0 THEN Object(doc) ELSE Down(c[i - 1], path[i])
  BY <1>1 DEF Cursor
<1>4. At(doc, Pre(path, 0)) = Object(doc)
  BY <1>0, <1>2, <1>3
<1>5. ASSUME NEW n \in 1 .. Len(path)
      PROVE  At(doc, Pre(path, n)) = Down(At(doc, Pre(path, n - 1)), path[n])
  <2>1. n \in 0 .. Len(path) /\ n - 1 \in 0 .. Len(path) /\ n # 0
    BY <1>0
  <2> QED
    BY <1>2, <1>3, <2>1
<1>6. Pre(path, Len(path)) = path
  BY DEF Pre
<1> QED
  BY <1>4, <1>5, <1>6

LEMMA AtEmpty ==
  ASSUME NEW doc
  PROVE  At(doc, <<>>) = Object(doc) /\ IsObject(At(doc, <<>>)) /\ At(doc, <<>>).fields = doc
<1>1. <<>> \in Seq({}) /\ Len(<<>>) = 0
  OBVIOUS
<1>2. At(doc, Pre(<<>>, 0)) = Object(doc) /\ Pre(<<>>, 0) = <<>>
  BY <1>1, AtSteps
<1> QED
  BY <1>2 DEF Object, IsObject

LEMMA DownOf ==
  ASSUME NEW v, NEW key, Down(v, key) # Absent
  PROVE  IsObject(v) /\ key \in DOMAIN v.fields /\ Down(v, key) = v.fields[key]
BY DEF Down

\* What lies at a path lies below objects.
LEMMA AboveAreObjects ==
  ASSUME NEW doc, NEW S, NEW p \in Seq(S), NEW n \in 0 .. Len(p), At(doc, Pre(p, n)) # Absent
  PROVE  \A i \in 0 .. n - 1 : /\ IsObject(At(doc, Pre(p, i)))
                               /\ p[i + 1] \in DOMAIN At(doc, Pre(p, i)).fields
<1>0. Len(p) \in Nat /\ n \in Nat /\ n <= Len(p)
  OBVIOUS
<1> DEFINE there == {j \in 0 .. n : At(doc, Pre(p, n - j)) # Absent}
<1>1. ASSUME NEW j \in 0 .. n - 1, j \in there
      PROVE  /\ j + 1 \in there
             /\ IsObject(At(doc, Pre(p, n - (j + 1))))
             /\ p[n - j] \in DOMAIN At(doc, Pre(p, n - (j + 1))).fields
  <2>1. n - j \in 1 .. Len(p) /\ (n - j) - 1 = n - (j + 1) /\ j + 1 \in 0 .. n
    BY <1>0
  <2>2. At(doc, Pre(p, n - j)) = Down(At(doc, Pre(p, n - (j + 1))), p[n - j])
    BY <2>1, AtSteps
  <2>3. Down(At(doc, Pre(p, n - (j + 1))), p[n - j]) # Absent
    BY <1>1, <2>2
  <2>4. /\ IsObject(At(doc, Pre(p, n - (j + 1))))
        /\ p[n - j] \in DOMAIN At(doc, Pre(p, n - (j + 1))).fields
    BY <2>3, DownOf
  <2>5. At(doc, Pre(p, n - (j + 1))) # Absent
    BY <2>4 DEF IsObject, Absent
  <2> QED
    BY <2>1, <2>4, <2>5
<1>2. 0 \in there
  BY <1>0
<1>3. \A j \in 0 .. n : j \in there
  <2> HIDE DEF there
  <2> QED
    BY <1>0, <1>1, <1>2, Upward
<1> SUFFICES ASSUME NEW i \in 0 .. n - 1
             PROVE  /\ IsObject(At(doc, Pre(p, i)))
                    /\ p[i + 1] \in DOMAIN At(doc, Pre(p, i)).fields
  OBVIOUS
<1>4. PICK j \in 0 .. n - 1 : j = n - (i + 1)
  BY <1>0
<1>5. n - (j + 1) = i /\ n - j = i + 1 /\ j \in 0 .. n
  BY <1>0, <1>4
<1> QED
  BY <1>1, <1>3, <1>5

\* A document whose objects are no deeper than the model's, and whose fields
\* have values.
Bounded(doc, F) ==
  \A p \in Seq(F) : IsObject(At(doc, p)) =>
    /\ Len(p) <= Depth
    /\ DOMAIN At(doc, p).fields \subseteq Keys \union DOMAIN doc
    /\ \A key \in DOMAIN At(doc, p).fields : At(doc, p).fields[key] # Absent

LEMMA NodesAre ==
  ASSUME NEW doc, NEW F, Bounded(doc, F), NEW p \in Seq(F), p # <<>>, At(doc, p) # Absent
  PROVE  p \in Nodes(doc)
<1>0. PICK n \in Nat : n = Len(p) /\ n > 0
  OBVIOUS
<1>1. Pre(p, n) = p
  BY <1>0, AtSteps
<1>2. \A i \in 0 .. n - 1 : /\ IsObject(At(doc, Pre(p, i)))
                            /\ p[i + 1] \in DOMAIN At(doc, Pre(p, i)).fields
  BY <1>0, <1>1, AboveAreObjects
<1>3. \A i \in 0 .. n - 1 : Pre(p, i) \in Seq(F) /\ Len(Pre(p, i)) = i
  BY <1>0, PreOf
<1>4. \A i \in 0 .. n - 1 : i <= Depth /\ p[i + 1] \in Keys \union DOMAIN doc
  <2> SUFFICES ASSUME NEW i \in 0 .. n - 1
               PROVE  i <= Depth /\ p[i + 1] \in Keys \union DOMAIN doc
    OBVIOUS
  <2>1. Len(Pre(p, i)) <= Depth /\ DOMAIN At(doc, Pre(p, i)).fields \subseteq Keys \union DOMAIN doc
    BY <1>2, <1>3 DEF Bounded
  <2> QED
    BY <1>2, <1>3, <2>1
<1>5. n - 1 \in 0 .. n - 1
  BY <1>0
<1>6. Depth \in Nat
  BY KernelAssumption
<1>7. n \in 1 .. Depth + 1
  BY <1>0, <1>4, <1>5, <1>6
<1>8. p \in [1 .. n -> Keys \union DOMAIN doc]
  <2>1. p = [i \in 1 .. n |-> p[i]]
    BY <1>0
  <2>2. \A i \in 1 .. n : p[i] \in Keys \union DOMAIN doc
    <3> SUFFICES ASSUME NEW i \in 1 .. n PROVE p[i] \in Keys \union DOMAIN doc
      OBVIOUS
    <3>1. i - 1 \in 0 .. n - 1 /\ (i - 1) + 1 = i
      BY <1>0
    <3> QED
      BY <1>4, <3>1
  <2> QED
    BY <2>1, <2>2
<1> QED
  BY <1>7, <1>8 DEF Nodes

LEMMA NodeOf ==
  ASSUME NEW doc, NEW p \in Nodes(doc)
  PROVE  /\ p \in Seq(Keys \union DOMAIN doc) /\ Len(p) \in 1 .. Depth + 1
         /\ p # <<>> /\ At(doc, p) # Absent
<1>1. PICK n \in 1 .. Depth + 1 : p \in [1 .. n -> Keys \union DOMAIN doc]
  BY DEF Nodes
<1>2. Depth \in Nat
  BY KernelAssumption
<1>3. n \in Nat /\ n > 0
  BY <1>1, <1>2
<1>4. p \in Seq(Keys \union DOMAIN doc) /\ Len(p) = n
  BY <1>1, <1>3
<1> QED
  BY <1>1, <1>3, <1>4 DEF Nodes

LEMMA AtAppend ==
  ASSUME NEW doc, NEW S, NEW p \in Seq(S), NEW key \in S
  PROVE  At(doc, Append(p, key)) = Down(At(doc, p), key)
<1> DEFINE q == Append(p, key)
<1>1. /\ q \in Seq(S) /\ Len(q) = Len(p) + 1 /\ Len(p) \in Nat /\ q[Len(p) + 1] = key
      /\ Pre(q, Len(p)) = p
  BY DEF Pre
<1> HIDE DEF q
<1>2. Len(q) \in 1 .. Len(q) /\ Len(q) - 1 = Len(p)
  BY <1>1
<1>3. At(doc, Pre(q, Len(q))) = Down(At(doc, Pre(q, Len(q) - 1)), q[Len(q)]) /\ Pre(q, Len(q)) = q
  BY <1>1, <1>2, AtSteps
<1> QED
  BY <1>1, <1>2, <1>3 DEF q

-----------------------------------------------------------------------------
\* The deep merge.  The document that one call of deepMerge makes of its two,
\* given those the calls below it make.
MergedAt(dst, src, m, prefix) ==
  LET d == At(dst, prefix).fields
      s == At(src, prefix).fields
  IN  [key \in DOMAIN d \union DOMAIN s |->
         IF key \notin DOMAIN s THEN d[key]
         ELSE IF key \in DOMAIN d /\ IsObject(d[key]) /\ IsObject(s[key])
                THEN Object(m[Append(prefix, key)])
                ELSE s[key]]

\* What deepMerge calls itself for is a path at which both have an object.
LEMMA CallsBelow ==
  ASSUME NEW dst, NEW src, Bounded(src, Keys), DOMAIN src \subseteq Keys,
         NEW prefix \in BothObjects(dst, src),
         NEW key, key \in DOMAIN At(dst, prefix).fields, key \in DOMAIN At(src, prefix).fields,
         IsObject(At(dst, prefix).fields[key]), IsObject(At(src, prefix).fields[key])
  PROVE  /\ Append(prefix, key) \in BothObjects(dst, src)
         /\ Len(Append(prefix, key)) = Len(prefix) + 1
<1>0. Keys \union DOMAIN src = Keys
  OBVIOUS
<1>1. prefix \in Seq(Keys)
  <2>1. <<>> \in Seq(Keys)
    OBVIOUS
  <2>2. prefix \in Nodes(src) => prefix \in Seq(Keys)
    BY <1>0, NodeOf
  <2> QED
    BY <2>1, <2>2 DEF BothObjects
<1>2. IsObject(At(dst, prefix)) /\ IsObject(At(src, prefix))
  BY DEF BothObjects
<1>3. key \in Keys /\ At(src, prefix).fields[key] # Absent
  BY <1>0, <1>1, <1>2 DEF Bounded
<1> DEFINE q == Append(prefix, key)
<1>4. q \in Seq(Keys) /\ q # <<>> /\ Len(q) = Len(prefix) + 1
  BY <1>1, <1>3
<1>5. /\ At(dst, q) = At(dst, prefix).fields[key]
      /\ At(src, q) = At(src, prefix).fields[key]
  BY <1>1, <1>2, <1>3, AtAppend DEF Down
<1> HIDE DEF q
<1>6. q \in Nodes(src)
  BY <1>3, <1>4, <1>5, NodesAre
<1>7. q \in BothObjects(dst, src)
  BY <1>5, <1>6 DEF BothObjects
<1> QED
  BY <1>4, <1>7 DEF q

\* The functions on the prefixes that are as they must be at n and deeper.
MergedFrom(dst, src, m, n) ==
  \A prefix \in BothObjects(dst, src) :
    Len(prefix) >= n => m[prefix] = MergedAt(dst, src, m, prefix)

LEMMA BothDepth ==
  ASSUME NEW dst, NEW src, NEW prefix \in BothObjects(dst, src)
  PROVE  Len(prefix) \in 0 .. Depth + 1
<1>1. Depth \in Nat
  BY KernelAssumption
<1>2. Len(<<>>) = 0
  OBVIOUS
<1>3. prefix \in Nodes(src) => Len(prefix) \in 1 .. Depth + 1
  BY NodeOf
<1> QED
  BY <1>1, <1>2, <1>3 DEF BothObjects

LEMMA MergeMore ==
  ASSUME NEW dst, NEW src, Bounded(src, Keys), DOMAIN src \subseteq Keys,
         NEW n \in Nat, NEW m, MergedFrom(dst, src, m, n + 1)
  PROVE  \E u : /\ u = [prefix \in BothObjects(dst, src) |-> u[prefix]]
                /\ MergedFrom(dst, src, u, n)
<1> DEFINE u == [prefix \in BothObjects(dst, src) |->
                   IF Len(prefix) = n THEN MergedAt(dst, src, m, prefix) ELSE m[prefix]]
<1>1. \A prefix \in BothObjects(dst, src) :
        u[prefix] = IF Len(prefix) = n THEN MergedAt(dst, src, m, prefix) ELSE m[prefix]
  OBVIOUS
<1>0. u = [prefix \in BothObjects(dst, src) |-> u[prefix]]
  OBVIOUS
<1> HIDE DEF u
<1>2. ASSUME NEW prefix \in BothObjects(dst, src), Len(prefix) >= n
      PROVE  MergedAt(dst, src, u, prefix) = MergedAt(dst, src, m, prefix)
  <2> DEFINE d == At(dst, prefix).fields
             s == At(src, prefix).fields
             Field(w, key) == IF key \notin DOMAIN s THEN d[key]
                              ELSE IF key \in DOMAIN d /\ IsObject(d[key]) /\ IsObject(s[key])
                                     THEN Object(w[Append(prefix, key)])
                                     ELSE s[key]
  <2>1. ASSUME NEW key \in DOMAIN d \union DOMAIN s PROVE Field(u, key) = Field(m, key)
    <3>1. CASE key \in DOMAIN s /\ key \in DOMAIN d /\ IsObject(d[key]) /\ IsObject(s[key])
      <4>1. /\ Append(prefix, key) \in BothObjects(dst, src)
            /\ Len(Append(prefix, key)) = Len(prefix) + 1
        BY <3>1, CallsBelow
      <4>2. Len(prefix) + 1 # n
        BY <1>2, BothDepth
      <4>3. u[Append(prefix, key)] = m[Append(prefix, key)]
        BY <1>1, <4>1, <4>2
      <4> QED
        BY <4>3
    <3>2. CASE ~(key \in DOMAIN s /\ key \in DOMAIN d /\ IsObject(d[key]) /\ IsObject(s[key]))
      BY <3>2
    <3> QED
      BY <3>1, <3>2
  <2>2. MergedAt(dst, src, u, prefix) = [key \in DOMAIN d \union DOMAIN s |-> Field(u, key)]
    BY DEF MergedAt
  <2>3. MergedAt(dst, src, m, prefix) = [key \in DOMAIN d \union DOMAIN s |-> Field(m, key)]
    BY DEF MergedAt
  <2> HIDE DEF Field, d, s
  <2> QED
    BY <2>1, <2>2, <2>3
<1>3. ASSUME NEW prefix \in BothObjects(dst, src), Len(prefix) >= n
      PROVE  u[prefix] = MergedAt(dst, src, u, prefix)
  <2>1. CASE Len(prefix) = n
    BY <1>1, <1>2, <1>3, <2>1
  <2>2. CASE Len(prefix) # n
    <3>1. Len(prefix) >= n + 1
      BY <1>3, <2>2, BothDepth
    <3>2. m[prefix] = MergedAt(dst, src, m, prefix)
      BY <3>1 DEF MergedFrom
    <3> QED
      BY <1>1, <1>2, <1>3, <2>2, <3>2
  <2> QED
    BY <2>1, <2>2
<1> QED
  BY <1>0, <1>3 DEF MergedFrom

LEMMA MergeExists ==
  ASSUME NEW dst, NEW src, Bounded(src, Keys), DOMAIN src \subseteq Keys
  PROVE  \E m : m = [prefix \in BothObjects(dst, src) |-> MergedAt(dst, src, m, prefix)]
<1>0. PICK top \in Nat : top = Depth + 2
  BY KernelAssumption
<1> DEFINE good == {n \in 0 .. top : \E m : MergedFrom(dst, src, m, top - n)}
<1>1. 0 \in good
  <2>1. \A prefix \in BothObjects(dst, src) : ~(Len(prefix) >= top)
    BY <1>0, BothDepth, KernelAssumption
  <2>2. MergedFrom(dst, src, <<>>, top)
    BY <2>1 DEF MergedFrom
  <2>3. top - 0 = top /\ 0 \in 0 .. top
    OBVIOUS
  <2> QED
    BY <2>2, <2>3
<1>2. ASSUME NEW n \in 0 .. top - 1, n \in good PROVE n + 1 \in good
  <2>1. PICK m : MergedFrom(dst, src, m, top - n)
    BY <1>2
  <2>2. PICK k \in Nat : k = top - (n + 1) /\ k + 1 = top - n /\ n + 1 \in 0 .. top
    BY <1>0
  <2>3. \E u : MergedFrom(dst, src, u, k)
    BY <2>1, <2>2, MergeMore
  <2> QED
    BY <2>2, <2>3
<1> HIDE DEF good
<1>3. top - 1 \in good
  <2>1. top \in Nat /\ top - 1 \in 0 .. top
    BY <1>0, KernelAssumption
  <2> QED
    BY <1>1, <1>2, <2>1, Upward
<1>4. PICK m : MergedFrom(dst, src, m, 0 + 1)
  <2>1. top - (top - 1) = 0 + 1
    BY <1>0
  <2> QED
    BY <1>3, <2>1 DEF good
<1>5. PICK u : /\ u = [prefix \in BothObjects(dst, src) |-> u[prefix]]
               /\ MergedFrom(dst, src, u, 0)
  <2>1. 0 \in Nat
    OBVIOUS
  <2> QED
    BY <1>4, <2>1, MergeMore
<1>6. \A prefix \in BothObjects(dst, src) : u[prefix] = MergedAt(dst, src, u, prefix)
  BY <1>5, BothDepth DEF MergedFrom
<1> QED
  BY <1>5, <1>6

\* What a merge leaves at a path, from what the two documents have there and
\* on the way to it: below a value of the stronger document that is not met by
\* two objects, the stronger document's; else the weaker one's.
Covered(dst, src, p, n) ==
  \E i \in 1 .. n : /\ At(src, Pre(p, i)) # Absent
                    /\ ~(IsObject(At(dst, Pre(p, i))) /\ IsObject(At(src, Pre(p, i))))

MergedValue(dst, src, m, p, n) ==
  IF IsObject(At(dst, Pre(p, n))) /\ IsObject(At(src, Pre(p, n))) THEN Object(m[Pre(p, n)])
  ELSE IF Covered(dst, src, p, n) THEN At(src, Pre(p, n))
  ELSE At(dst, Pre(p, n))

LEMMA MergeValues ==
  ASSUME NEW dst, NEW src, Bounded(src, Keys), DOMAIN src \subseteq Keys,
         NEW p \in Seq(Keys), NEW m,
         m = [prefix \in BothObjects(dst, src) |-> MergedAt(dst, src, m, prefix)]
  PROVE  \A n \in 0 .. Len(p) : At(m[<<>>], Pre(p, n)) = MergedValue(dst, src, m, p, n)
<1>0. PICK len \in Nat : len = Len(p)
  OBVIOUS
<1> DEFINE M == m[<<>>]
           S(n) == At(src, Pre(p, n))
           O(n) == At(dst, Pre(p, n))
           V(n) == At(M, Pre(p, n))
           Both(n) == IsObject(O(n)) /\ IsObject(S(n))
           Cov(n) == \E i \in 1 .. n : S(i) # Absent /\ ~Both(i)
           good == {n \in 0 .. len : /\ V(n) = MergedValue(dst, src, m, p, n)
                                     /\ Both(n) => ~Cov(n)
                                     /\ ~Both(n) /\ ~Cov(n) => S(n) = Absent}
<1>1. /\ S(0) = Object(src) /\ O(0) = Object(dst) /\ V(0) = Object(M) /\ Pre(p, 0) = <<>>
      /\ \A n \in 1 .. len : /\ S(n) = Down(S(n - 1), p[n]) /\ O(n) = Down(O(n - 1), p[n])
                             /\ V(n) = Down(V(n - 1), p[n])
  <2>1. \A doc : /\ At(doc, Pre(p, 0)) = Object(doc)
                 /\ \A n \in 1 .. Len(p) : At(doc, Pre(p, n)) = Down(At(doc, Pre(p, n - 1)), p[n])
    BY AtSteps
  <2>2. Pre(p, 0) = <<>>
    BY DEF Pre
  <2> QED
    BY <1>0, <2>1, <2>2
<1>2. \A n \in 0 .. len : Pre(p, n) \in Seq(Keys)
  BY <1>0, PreOf
<1>3. \A n \in 0 .. len : /\ MergedValue(dst, src, m, p, n) =
                              IF Both(n) THEN Object(m[Pre(p, n)])
                              ELSE IF Cov(n) THEN S(n) ELSE O(n)
  BY DEF MergedValue, Covered
<1>4. ~IsObject(Absent) /\ \A x : IsObject(Object(x)) /\ Object(x).fields = x /\ Object(x) # Absent
  BY DEF IsObject, Object, Absent
<1>5. ASSUME NEW n \in 0 .. len, Both(n) PROVE Pre(p, n) \in BothObjects(dst, src)
  <2>1. ASSUME Pre(p, n) # <<>> PROVE Pre(p, n) \in Nodes(src)
    <3>1. At(src, Pre(p, n)) # Absent
      BY <1>4, <1>5
    <3>2. Pre(p, n) \in Seq(Keys)
      BY <1>2, Zenon
    <3> QED
      BY <2>1, <3>1, <3>2, NodesAre
  <2> QED
    BY <1>5, <2>1 DEF BothObjects
<1>6. 0 \in good
  <2>1. Both(0) /\ ~Cov(0) /\ 0 \in 0 .. len
    BY <1>1, <1>4
  <2> QED
    BY <1>1, <1>3, <2>1
<1>7. ASSUME NEW n \in 0 .. len - 1, n \in good PROVE n + 1 \in good
  <2> DEFINE k == p[n + 1]
  <2>1. n \in 0 .. len /\ n + 1 \in 0 .. len /\ n + 1 \in 1 .. len /\ (n + 1) - 1 = n
    BY <1>0
  <2>2. S(n + 1) = Down(S(n), k) /\ O(n + 1) = Down(O(n), k) /\ V(n + 1) = Down(V(n), k)
    BY <1>1, <2>1
  <2>3. Cov(n + 1) <=> Cov(n) \/ (S(n + 1) # Absent /\ ~Both(n + 1))
    <3>1. \A i : i \in 1 .. n + 1 <=> i \in 1 .. n \/ i = n + 1
      BY <2>1
    <3> HIDE DEF S, Both
    <3> QED
      BY <3>1
  <2>4. V(n) = IF Both(n) THEN Object(m[Pre(p, n)]) ELSE IF Cov(n) THEN S(n) ELSE O(n)
    BY <1>3, <1>7, <2>1
  <2>5. (Both(n) => ~Cov(n)) /\ (~Both(n) /\ ~Cov(n) => S(n) = Absent)
    BY <1>7
  <2>6. Both(n + 1) => Both(n)
    BY <2>2, <1>4 DEF Down
  <2>7. CASE Both(n)
    <3>1. Pre(p, n) \in BothObjects(dst, src)
      BY <1>5, <2>1, <2>7
    <3>2. m[Pre(p, n)] = MergedAt(dst, src, m, Pre(p, n))
      BY <3>1
    <3> DEFINE d == O(n).fields
               s == S(n).fields
    <3>3. m[Pre(p, n)] = [key \in DOMAIN d \union DOMAIN s |->
                             IF key \notin DOMAIN s THEN d[key]
                             ELSE IF key \in DOMAIN d /\ IsObject(d[key]) /\ IsObject(s[key])
                                    THEN Object(m[Append(Pre(p, n), key)])
                                    ELSE s[key]]
      BY <3>2 DEF MergedAt
    <3>4. V(n) = Object(m[Pre(p, n)])
      BY <2>4, <2>7
    <3>5. Append(Pre(p, n), k) = Pre(p, n + 1)
      <4>1. n \in 0 .. Len(p) - 1
        BY <1>0
      <4> QED
        BY <4>1, PreAppend
    <3>6. V(n + 1) = IF k \notin DOMAIN d \union DOMAIN s THEN Absent
                     ELSE IF k \notin DOMAIN s THEN d[k]
                     ELSE IF k \in DOMAIN d /\ IsObject(d[k]) /\ IsObject(s[k])
                            THEN Object(m[Pre(p, n + 1)])
                            ELSE s[k]
      <4> DEFINE r == m[Pre(p, n)]
      <4>1. V(n + 1) = IF k \in DOMAIN r THEN r[k] ELSE Absent
        <5>1. IsObject(V(n)) /\ V(n).fields = r
          BY <1>4, <3>4
        <5> QED
          BY <2>2, <5>1 DEF Down
      <4>2. /\ DOMAIN r = DOMAIN d \union DOMAIN s
            /\ k \in DOMAIN r =>
                 r[k] = IF k \notin DOMAIN s THEN d[k]
                        ELSE IF k \in DOMAIN d /\ IsObject(d[k]) /\ IsObject(s[k])
                               THEN Object(m[Append(Pre(p, n), k)])
                               ELSE s[k]
        <5> HIDE DEF d, s, k
        <5> QED
          BY <3>3
      <4> HIDE DEF V, d, s, k, r
      <4> QED
        BY <3>5, <4>1, <4>2
    <3>7. /\ S(n + 1) = IF k \in DOMAIN s THEN s[k] ELSE Absent
          /\ O(n + 1) = IF k \in DOMAIN d THEN d[k] ELSE Absent
      BY <2>2, <2>7 DEF Down
    <3>8. k \in DOMAIN s => s[k] # Absent
      <4>1. Pre(p, n) \in Seq(Keys)
        BY <1>2, <2>1, Zenon
      <4> QED
        BY <2>7, <4>1 DEF Bounded
    <3>9. ~Cov(n)
      BY <2>5, <2>7
    <3> HIDE DEF V, S, O, d, s, k, Cov
    <3>10. /\ Both(n + 1) => /\ k \in DOMAIN s /\ k \in DOMAIN d
                             /\ IsObject(d[k]) /\ IsObject(s[k]) /\ ~Cov(n + 1)
           /\ ~Both(n + 1) /\ k \in DOMAIN s => S(n + 1) = s[k] /\ Cov(n + 1) /\ V(n + 1) = s[k]
           /\ ~Both(n + 1) /\ k \notin DOMAIN s =>
                S(n + 1) = Absent /\ ~Cov(n + 1) /\ V(n + 1) = O(n + 1)
      BY <1>4, <2>3, <3>6, <3>7, <3>8, <3>9
    <3>11. Both(n + 1) => V(n + 1) = Object(m[Pre(p, n + 1)])
      BY <3>6, <3>10
    <3>12. V(n + 1) = MergedValue(dst, src, m, p, n + 1)
      BY <1>3, <2>1, <3>10, <3>11
    <3> QED
      BY <2>1, <3>10, <3>12
  <2>8. CASE ~Both(n)
    <3> HIDE DEF V, S, O, k, Cov
    <3>1. ~Both(n + 1)
      BY <2>6, <2>8
    <3>2. CASE Cov(n)
      <4>1. V(n + 1) = S(n + 1) /\ Cov(n + 1)
        BY <2>2, <2>3, <2>4, <2>8, <3>2
      <4>2. V(n + 1) = MergedValue(dst, src, m, p, n + 1)
        BY <1>3, <2>1, <3>1, <4>1
      <4> QED
        BY <2>1, <3>1, <4>1, <4>2
    <3>3. CASE ~Cov(n)
      <4>1. V(n + 1) = O(n + 1)
        BY <2>2, <2>4, <2>8, <3>3
      <4>2. S(n + 1) = Absent
        BY <1>4, <2>2, <2>5, <2>8, <3>3 DEF Down
      <4>3. ~Cov(n + 1)
        BY <2>3, <3>3, <4>2
      <4>4. V(n + 1) = MergedValue(dst, src, m, p, n + 1)
        BY <1>3, <2>1, <3>1, <4>1, <4>3
      <4> QED
        BY <2>1, <3>1, <4>2, <4>4
    <3> QED
      BY <3>2, <3>3
  <2> QED
    BY <2>7, <2>8
<1> HIDE DEF good
<1>8. \A n \in 0 .. len : n \in good
  BY <1>6, <1>7, Upward
<1> QED
  BY <1>0, <1>8 DEF good

LEMMA MergeIs ==
  ASSUME NEW dst, NEW src, Bounded(src, Keys), DOMAIN src \subseteq Keys
  PROVE  \E m : /\ m = [prefix \in BothObjects(dst, src) |-> MergedAt(dst, src, m, prefix)]
                /\ DeepMerge(dst, src) = m[<<>>]
<1> DEFINE M == CHOOSE m : m = [prefix \in BothObjects(dst, src) |-> MergedAt(dst, src, m, prefix)]
<1>1. M = [prefix \in BothObjects(dst, src) |-> MergedAt(dst, src, M, prefix)]
  BY MergeExists
<1>2. DeepMerge(dst, src) = M[<<>>]
  BY DEF DeepMerge, MergedAt
<1> QED
  BY <1>1, <1>2

LEMMA MergeFields ==
  ASSUME NEW dst, NEW src, Bounded(src, Keys), DOMAIN src \subseteq Keys
  PROVE  DOMAIN DeepMerge(dst, src) = DOMAIN dst \union DOMAIN src
<1>1. PICK m : /\ m = [prefix \in BothObjects(dst, src) |-> MergedAt(dst, src, m, prefix)]
               /\ DeepMerge(dst, src) = m[<<>>]
  BY MergeIs
<1>2. <<>> \in BothObjects(dst, src)
  BY AtEmpty DEF BothObjects
<1>3. m[<<>>] = MergedAt(dst, src, m, <<>>)
  BY <1>1, <1>2
<1>4. At(dst, <<>>).fields = dst /\ At(src, <<>>).fields = src
  BY AtEmpty
<1>5. DOMAIN MergedAt(dst, src, m, <<>>) = DOMAIN dst \union DOMAIN src
  BY <1>4 DEF MergedAt
<1> QED
  BY <1>1, <1>3, <1>5

\* The leaves of a merged document: those of the stronger one, and those of the
\* weaker one where the stronger one has no value and no leaf on the way.
IsLeaf(v)    == v # Absent /\ ~IsObject(v)
Free(doc, p) == At(doc, p) = Absent /\ \A i \in 1 .. Len(p) : ~IsLeaf(At(doc, Pre(p, i)))

LEMMA MergeLeaves ==
  ASSUME NEW dst, NEW src, Bounded(src, Keys), DOMAIN src \subseteq Keys, NEW p \in Seq(Keys)
  PROVE  LET M == DeepMerge(dst, src)
         IN  /\ IsLeaf(At(src, p)) => At(M, p) = At(src, p)
             /\ IsLeaf(At(dst, p)) /\ Free(src, p) => At(M, p) = At(dst, p)
             /\ IsLeaf(At(M, p)) => IsLeaf(At(src, p)) \/ (IsLeaf(At(dst, p)) /\ Free(src, p))
<1> DEFINE M == DeepMerge(dst, src)
<1>0. PICK n \in Nat : n = Len(p) /\ Pre(p, n) = p
  BY PreWhole
<1>1. PICK m : /\ m = [prefix \in BothObjects(dst, src) |-> MergedAt(dst, src, m, prefix)]
               /\ M = m[<<>>]
  BY MergeIs
<1>2. n \in 0 .. Len(p)
  BY <1>0
<1>3. At(M, Pre(p, n)) = MergedValue(dst, src, m, p, n)
  <2>1. \A k \in 0 .. Len(p) : At(m[<<>>], Pre(p, k)) = MergedValue(dst, src, m, p, k)
    <3>1. m = [prefix \in BothObjects(dst, src) |-> MergedAt(dst, src, m, prefix)]
      BY <1>1
    <3> QED
      BY <3>1, MergeValues
  <2> QED
    BY <1>1, <1>2, <2>1
<1>4. At(M, p) = IF IsObject(At(dst, p)) /\ IsObject(At(src, p)) THEN Object(m[p])
                 ELSE IF Covered(dst, src, p, n) THEN At(src, p) ELSE At(dst, p)
  BY <1>0, <1>3 DEF MergedValue
<1> HIDE DEF M
<1>5. \A x : IsObject(Object(x)) /\ ~IsObject(Absent)
  BY DEF IsObject, Object, Absent
<1>6. n = 0 => p = <<>>
  BY <1>0, PreWhole
<1>7. p = <<>> => IsObject(At(dst, p)) /\ IsObject(At(src, p))
  BY AtEmpty
<1>8. IsLeaf(At(src, p)) => At(M, p) = At(src, p)
  <2> SUFFICES ASSUME IsLeaf(At(src, p)) PROVE Covered(dst, src, p, n)
    BY <1>4 DEF IsLeaf
  <2>1. n \in 1 .. n
    BY <1>0, <1>6, <1>7 DEF IsLeaf
  <2> QED
    BY <1>0, <2>1 DEF Covered, IsLeaf
<1>9. IsLeaf(At(dst, p)) /\ Free(src, p) => At(M, p) = At(dst, p)
  <2> SUFFICES ASSUME IsLeaf(At(dst, p)), Free(src, p) PROVE ~Covered(dst, src, p, n)
    BY <1>4 DEF IsLeaf
  <2> SUFFICES ASSUME NEW i \in 1 .. n, At(src, Pre(p, i)) # Absent
               PROVE  IsObject(At(dst, Pre(p, i))) /\ IsObject(At(src, Pre(p, i)))
    BY DEF Covered
  <2>1. IsObject(At(src, Pre(p, i)))
    BY <1>0 DEF Free, IsLeaf
  <2>2. i # n
    BY <1>0 DEF Free
  <2>3. i \in 0 .. n - 1
    BY <1>0, <2>2
  <2>4. At(dst, Pre(p, n)) # Absent
    BY <1>0 DEF IsLeaf
  <2>5. IsObject(At(dst, Pre(p, i)))
    BY <1>2, <2>3, <2>4, AboveAreObjects
  <2> QED
    BY <2>1, <2>5
<1>10. IsLeaf(At(M, p)) => IsLeaf(At(src, p)) \/ (IsLeaf(At(dst, p)) /\ Free(src, p))
  <2> SUFFICES ASSUME IsLeaf(At(M, p)), ~IsLeaf(At(src, p))
               PROVE  IsLeaf(At(dst, p)) /\ Free(src, p)
    OBVIOUS
  <2>1. ~(IsObject(At(dst, p)) /\ IsObject(At(src, p)))
    BY <1>4, <1>5 DEF IsLeaf
  <2>2. ~Covered(dst, src, p, n) /\ At(M, p) = At(dst, p)
    BY <1>4, <2>1
  <2>3. \A i \in 1 .. n : At(src, Pre(p, i)) = Absent \/ IsObject(At(src, Pre(p, i)))
    BY <2>2 DEF Covered
  <2>4. n \in 1 .. n
    BY <1>0, <1>6, <1>7, <2>1
  <2>5. At(src, p) = Absent
    BY <1>0, <2>1, <2>2, <2>4 DEF Covered
  <2> QED
    BY <1>0, <2>2, <2>3, <2>5 DEF Free, IsLeaf
<1> QED
  BY <1>8, <1>9, <1>10 DEF M

-----------------------------------------------------------------------------
\* The layers' documents: those of the model, and decoded properties texts.
IsTextDoc(l, doc) == doc = [key \in DOMAIN doc |-> TextLeaf(l, doc[key].text)]
LayerDoc(l, doc)  == doc \in Documents[l][Depth] \/ IsTextDoc(l, doc)

\* All a layer's document has on the way to any path.
DocumentValue(l, v, n) ==
  \/ v = Absent \/ v = Leaf(l)
  \/ n <= Depth /\ \E sub \in Documents[l][Depth - n] : v = Object(sub)

TextValue(l, doc, v, n) ==
  \/ v = Absent
  \/ n = 0 /\ v = Object(doc)
  \/ n > 0 /\ v.kind = "leaf" /\ v.of = l

LEMMA DocumentValues ==
  ASSUME NEW l \in Layers, NEW doc \in Documents[l][Depth], NEW F, NEW p \in Seq(F)
  PROVE  DocumentValue(l, At(doc, p), Len(p))
<1>0. PICK len \in Nat : len = Len(p) /\ Pre(p, len) = p
  BY PreWhole
<1> DEFINE good == {n \in 0 .. len : DocumentValue(l, At(doc, Pre(p, n)), n)}
<1>1. /\ At(doc, Pre(p, 0)) = Object(doc)
      /\ \A n \in 1 .. len : At(doc, Pre(p, n)) = Down(At(doc, Pre(p, n - 1)), p[n])
  BY <1>0, AtSteps
<1>2. 0 \in good
  <2>1. Depth \in Nat /\ Depth - 0 = Depth
    BY KernelAssumption
  <2> QED
    BY <1>1, <2>1 DEF DocumentValue
<1>3. ASSUME NEW n \in 0 .. len - 1, n \in good PROVE n + 1 \in good
  <2> DEFINE v == At(doc, Pre(p, n))
             w == At(doc, Pre(p, n + 1))
  <2>1. n + 1 \in 0 .. len /\ n + 1 \in 1 .. len /\ (n + 1) - 1 = n /\ n \in Nat
    BY <1>0
  <2>2. w = Down(v, p[n + 1])
    BY <1>1, <2>1
  <2>3. DocumentValue(l, v, n)
    BY <1>3
  <2> HIDE DEF v, w
  <2>4. DocumentValue(l, w, n + 1)
    <3>1. CASE w = Absent
      BY <3>1 DEF DocumentValue
    <3>2. CASE w # Absent
      <4>1. IsObject(v) /\ p[n + 1] \in DOMAIN v.fields /\ w = v.fields[p[n + 1]]
        BY <2>2, <3>2, DownOf
      <4>2. PICK sub \in Documents[l][Depth - n] : n <= Depth /\ v = Object(sub)
        BY <2>3, <4>1 DEF DocumentValue, IsObject, Absent, Leaf
      <4>3. Depth \in Nat /\ Depth - n \in 0 .. Depth /\ (Depth - n) - 1 = Depth - (n + 1)
        BY <2>1, <4>2, KernelAssumption
      <4>4. v.fields = sub
        BY <4>2 DEF Object
      <4>5. \/ w = Leaf(l)
            \/ Depth - n > 0 /\ \E low \in Documents[l][(Depth - n) - 1] : w = Object(low)
        BY <4>1, <4>3, <4>4, KernelAssumption
      <4>6. Depth - n > 0 => n + 1 <= Depth
        BY <2>1, <4>3
      <4> QED
        BY <4>3, <4>5, <4>6 DEF DocumentValue
    <3> QED
      BY <3>1, <3>2
  <2> QED
    BY <2>1, <2>4 DEF w
<1> HIDE DEF good
<1>4. len \in good
  BY <1>0, <1>2, <1>3, Upward
<1> QED
  BY <1>0, <1>4 DEF good

LEMMA TextValues ==
  ASSUME NEW l \in Layers, NEW doc, IsTextDoc(l, doc), NEW F, NEW p \in Seq(F)
  PROVE  TextValue(l, doc, At(doc, p), Len(p))
<1>0. PICK len \in Nat : len = Len(p) /\ Pre(p, len) = p
  BY PreWhole
<1> DEFINE good == {n \in 0 .. len : TextValue(l, doc, At(doc, Pre(p, n)), n)}
<1>1. /\ At(doc, Pre(p, 0)) = Object(doc)
      /\ \A n \in 1 .. len : At(doc, Pre(p, n)) = Down(At(doc, Pre(p, n - 1)), p[n])
  BY <1>0, AtSteps
<1>2. 0 \in good
  BY <1>1 DEF TextValue
<1>3. ASSUME NEW n \in 0 .. len - 1, n \in good PROVE n + 1 \in good
  <2> DEFINE v == At(doc, Pre(p, n))
             w == At(doc, Pre(p, n + 1))
  <2>1. n + 1 \in 0 .. len /\ n + 1 \in 1 .. len /\ (n + 1) - 1 = n /\ n \in Nat
    BY <1>0
  <2>2. w = Down(v, p[n + 1])
    BY <1>1, <2>1
  <2>3. TextValue(l, doc, v, n)
    BY <1>3
  <2> HIDE DEF v, w
  <2>4. TextValue(l, doc, w, n + 1)
    <3>1. CASE w = Absent
      BY <3>1 DEF TextValue
    <3>2. CASE w # Absent
      <4>1. IsObject(v) /\ p[n + 1] \in DOMAIN v.fields /\ w = v.fields[p[n + 1]]
        BY <2>2, <3>2, DownOf
      <4>2. v = Object(doc)
        BY <2>3, <4>1 DEF TextValue, IsObject, Absent
      <4>3. v.fields = doc
        BY <4>2 DEF Object
      <4>4. w = TextLeaf(l, doc[p[n + 1]].text)
        BY <4>1, <4>3 DEF IsTextDoc
      <4>5. w.kind = "leaf" /\ w.of = l
        BY <4>4 DEF TextLeaf
      <4> QED
        BY <2>1, <4>5 DEF TextValue
    <3> QED
      BY <3>1, <3>2
  <2> QED
    BY <2>1, <2>4 DEF w
<1> HIDE DEF good
<1>4. len \in good
  BY <1>0, <1>2, <1>3, Upward
<1> QED
  BY <1>0, <1>4 DEF good

LEMMA LayerDocs ==
  ASSUME NEW l \in Layers, NEW doc, LayerDoc(l, doc), NEW F
  PROVE  /\ Bounded(doc, F)
         /\ \A p \in Seq(F) :
              /\ IsLeaf(At(doc, p)) => At(doc, p).of = l
              /\ IsObject(At(doc, p)) /\ DOMAIN At(doc, p).fields = {} => At(doc, p) = Object(Nothing)
<1> SUFFICES ASSUME NEW p \in Seq(F)
             PROVE  /\ IsObject(At(doc, p)) =>
                         /\ Len(p) <= Depth
                         /\ DOMAIN At(doc, p).fields \subseteq Keys \union DOMAIN doc
                         /\ \A key \in DOMAIN At(doc, p).fields : At(doc, p).fields[key] # Absent
                    /\ IsLeaf(At(doc, p)) => At(doc, p).of = l
                    /\ IsObject(At(doc, p)) /\ DOMAIN At(doc, p).fields = {} => At(doc, p) = Object(Nothing)
  BY DEF Bounded
<1> DEFINE v == At(doc, p)
<1>0. Len(p) \in Nat /\ Depth \in Nat
  BY KernelAssumption
<1>1. \A x : x = [key \in DOMAIN x |-> x[key]] /\ DOMAIN x = {} => x = Nothing
  BY DEF Nothing
<1>2. CASE doc \in Documents[l][Depth]
  <2>1. DocumentValue(l, v, Len(p))
    BY <1>2, DocumentValues
  <2> HIDE DEF v
  <2>2. IsLeaf(v) => v.of = l
    BY <2>1 DEF DocumentValue, IsLeaf, Leaf, Object, IsObject
  <2>3. ASSUME IsObject(v)
        PROVE  /\ Len(p) <= Depth
               /\ DOMAIN v.fields \subseteq Keys
               /\ \A key \in DOMAIN v.fields : v.fields[key] # Absent
               /\ DOMAIN v.fields = {} => v = Object(Nothing)
    <3>1. PICK sub \in Documents[l][Depth - Len(p)] : Len(p) <= Depth /\ v = Object(sub)
      BY <2>1, <2>3 DEF DocumentValue, IsObject, Absent, Leaf
    <3>2. v.fields = sub /\ Depth - Len(p) \in 0 .. Depth
      BY <1>0, <3>1 DEF Object
    <3>3. /\ sub = [key \in DOMAIN sub |-> sub[key]] /\ DOMAIN sub \subseteq Keys
          /\ \A key \in DOMAIN sub : sub[key] = Leaf(l) \/ \E low : sub[key] = Object(low)
      BY <3>2, KernelAssumption
    <3>4. \A key \in DOMAIN sub : sub[key] # Absent
      BY <3>3 DEF Leaf, Object, Absent
    <3>5. DOMAIN sub = {} => sub = Nothing
      BY <1>1, <3>3
    <3> QED
      BY <3>1, <3>2, <3>3, <3>4, <3>5
  <2> QED
    BY <2>2, <2>3 DEF v
<1>3. CASE IsTextDoc(l, doc)
  <2>1. TextValue(l, doc, v, Len(p))
    BY <1>3, TextValues
  <2> HIDE DEF v
  <2>2. IsLeaf(v) => v.of = l
    BY <2>1 DEF TextValue, IsLeaf, Object, IsObject
  <2>3. ASSUME IsObject(v)
        PROVE  /\ Len(p) <= Depth
               /\ DOMAIN v.fields \subseteq DOMAIN doc
               /\ \A key \in DOMAIN v.fields : v.fields[key] # Absent
               /\ DOMAIN v.fields = {} => v = Object(Nothing)
    <3>1. Len(p) = 0 /\ v = Object(doc)
      BY <2>1, <2>3 DEF TextValue, IsObject, Absent
    <3>2. v.fields = doc
      BY <3>1 DEF Object
    <3>3. \A key \in DOMAIN doc : doc[key] # Absent
      BY <1>3 DEF IsTextDoc, TextLeaf, Absent
    <3>4. DOMAIN doc = {} => doc = Nothing
      BY <1>3 DEF IsTextDoc, Nothing
    <3> QED
      BY <1>0, <3>1, <3>2, <3>3, <3>4
  <2> QED
    BY <2>2, <2>3 DEF v
<1> QED
  BY <1>2, <1>3 DEF LayerDoc

-----------------------------------------------------------------------------
\* The call.  What is merged after some of the layers, as a function of their
\* documents: a layer owns the leaves where the layers above it are free.
Above(x, l) == LayerPriority[x] > LayerPriority[l]

Owns(ins, done, l, p) ==
  /\ IsLeaf(At(ins[l].fields, p))
  /\ \A x \in done : Above(x, l) => Free(ins[x].fields, p)

DeepRoot(ins, done, r) ==
  /\ DOMAIN r \subseteq Keys
  /\ \A p \in Seq(Keys) :
       /\ IsLeaf(At(r, p)) => \E l \in done : Owns(ins, done, l, p)
       /\ \A l \in done : Owns(ins, done, l, p) => At(r, p) = At(ins[l].fields, p)

OverriddenRoot(ins, done, r) ==
  /\ DOMAIN r = UNION {DOMAIN ins[l].fields : l \in done}
  /\ \A l \in done : \A key \in DOMAIN ins[l].fields :
       (\A x \in done : Above(x, l) => key \notin DOMAIN ins[x].fields)
         => r[key] = ins[l].fields[key]

MarkedFor(t, doc) == IF t = "deep" THEN LeafPaths(doc) ELSE {<<key>> : key \in DOMAIN doc}

\* The flat paths a document is entered under.
FlatFor(t, doc) == {FlatPath(p) : p \in MarkedFor(t, doc)}

SourcesOf(t, ins, done, of) ==
  /\ \A f \in DOMAIN of : of[f] \in done /\ f \in FlatFor(t, ins[of[f]].fields)
  /\ \A l \in done : \A f \in FlatFor(t, ins[l].fields) :
       f \in DOMAIN of /\ (of[f] = l <=> \A x \in done : Above(x, l) => f \notin FlatFor(t, ins[x].fields))

LEMMA Priorities ==
  /\ \A x \in Layers : LayerPriority[x] \in 0 .. 2
  /\ \A x, y \in Layers : x # y => Above(x, y) \/ Above(y, x)
BY DEF Layers, LayerPriority, Above

\* One more layer, stronger than those merged.
LEMMA DeepStep ==
  ASSUME NEW ins, NEW done \in SUBSET Layers, NEW l \in Layers,
         \A x \in done : Above(l, x), NEW r, DeepRoot(ins, done, r),
         ins[l].fields \in Documents[l][Depth]
  PROVE  DeepRoot(ins, done \union {l}, DeepMerge(r, ins[l].fields))
<1> DEFINE src == ins[l].fields
           M == DeepMerge(r, src)
<1>1. DOMAIN src \subseteq Keys
  <2>1. Depth \in 0 .. Depth
    BY KernelAssumption
  <2> QED
    BY <2>1, KernelAssumption
<1>2. Bounded(src, Keys)
  BY LayerDocs DEF LayerDoc
<1>3. DOMAIN M \subseteq Keys
  <2>1. DOMAIN M = DOMAIN r \union DOMAIN src
    BY <1>1, <1>2, MergeFields
  <2> QED
    BY <1>1, <2>1 DEF DeepRoot
<1>4. \A x \in done : ~Above(x, l)
  BY Priorities DEF Above
<1>5. ~Above(l, l)
  BY Priorities DEF Above
<1>6. ASSUME NEW p \in Seq(Keys)
      PROVE  /\ IsLeaf(At(src, p)) => At(M, p) = At(src, p)
             /\ IsLeaf(At(r, p)) /\ Free(src, p) => At(M, p) = At(r, p)
             /\ IsLeaf(At(M, p)) => IsLeaf(At(src, p)) \/ (IsLeaf(At(r, p)) /\ Free(src, p))
  BY <1>1, <1>2, MergeLeaves
<1>7. ASSUME NEW p \in Seq(Keys), NEW x \in done
      PROVE  Owns(ins, done \union {l}, x, p) <=> Owns(ins, done, x, p) /\ Free(src, p)
  BY DEF Owns
<1>8. ASSUME NEW p \in Seq(Keys)
      PROVE  Owns(ins, done \union {l}, l, p) <=> IsLeaf(At(src, p))
  BY <1>4, <1>5 DEF Owns
<1> HIDE DEF M, src
<1>9. ASSUME NEW p \in Seq(Keys), IsLeaf(At(M, p))
      PROVE  \E x \in done \union {l} : Owns(ins, done \union {l}, x, p)
  <2>1. CASE IsLeaf(At(src, p))
    BY <1>8, <2>1
  <2>2. CASE IsLeaf(At(r, p)) /\ Free(src, p)
    <3>1. PICK x \in done : Owns(ins, done, x, p)
      BY <2>2 DEF DeepRoot
    <3> QED
      BY <1>7, <2>2, <3>1
  <2> QED
    BY <1>6, <1>9, <2>1, <2>2
<1>10. ASSUME NEW p \in Seq(Keys), NEW x \in done \union {l}, Owns(ins, done \union {l}, x, p)
       PROVE  At(M, p) = At(ins[x].fields, p)
  <2>1. CASE x = l
    BY <1>6, <1>8, <1>10, <2>1 DEF src
  <2>2. CASE x \in done
    <3>1. Owns(ins, done, x, p) /\ Free(src, p)
      BY <1>7, <1>10, <2>2
    <3>2. At(r, p) = At(ins[x].fields, p) /\ IsLeaf(At(r, p))
      BY <2>2, <3>1 DEF DeepRoot, Owns
    <3> QED
      BY <1>6, <3>1, <3>2
  <2> QED
    BY <2>1, <2>2
<1> QED
  BY <1>3, <1>9, <1>10 DEF DeepRoot, M, src

LEMMA OverrideStep ==
  ASSUME NEW ins, NEW done \in SUBSET Layers, NEW l \in Layers,
         \A x \in done : Above(l, x), NEW r, OverriddenRoot(ins, done, r)
  PROVE  OverriddenRoot(ins, done \union {l}, KeyOverride(r, ins[l].fields))
<1> DEFINE src == ins[l].fields
           M == KeyOverride(r, src)
<1>1. /\ DOMAIN M = DOMAIN r \union DOMAIN src
      /\ \A key \in DOMAIN M : M[key] = IF key \in DOMAIN src THEN src[key] ELSE r[key]
  BY DEF KeyOverride, Put
<1> HIDE DEF M
<1>2. DOMAIN M = UNION {DOMAIN ins[x].fields : x \in done \union {l}}
  BY <1>1 DEF OverriddenRoot
<1>3. ASSUME NEW x \in done \union {l}, NEW key \in DOMAIN ins[x].fields,
             \A y \in done \union {l} : Above(y, x) => key \notin DOMAIN ins[y].fields
      PROVE  M[key] = ins[x].fields[key]
  <2>1. CASE x = l
    BY <1>1, <2>1
  <2>2. CASE x \in done
    <3>1. key \notin DOMAIN src
      BY <1>3, <2>2
    <3>2. r[key] = ins[x].fields[key] /\ key \in DOMAIN r
      BY <1>3, <2>2 DEF OverriddenRoot
    <3> QED
      BY <1>1, <3>1, <3>2
  <2> QED
    BY <2>1, <2>2
<1> QED
  BY <1>2, <1>3 DEF OverriddenRoot, M

LEMMA SourcesStep ==
  ASSUME NEW t, NEW ins, NEW done \in SUBSET Layers, NEW l \in Layers,
         \A x \in done : Above(l, x), NEW of, SourcesOf(t, ins, done, of)
  PROVE  SourcesOf(t, ins, done \union {l}, Put(of, [f \in FlatFor(t, ins[l].fields) |-> l]))
<1> DEFINE new == FlatFor(t, ins[l].fields)
           M == Put(of, [f \in new |-> l])
<1>1. /\ DOMAIN M = new \union DOMAIN of
      /\ \A f \in DOMAIN M : M[f] = IF f \in new THEN l ELSE of[f]
  BY DEF Put
<1>2. l \notin done /\ ~Above(l, l) /\ \A x \in done : ~Above(x, l)
  BY Priorities DEF Above
<1> HIDE DEF M
<1>3. ASSUME NEW f \in DOMAIN M
      PROVE  M[f] \in done \union {l} /\ f \in FlatFor(t, ins[M[f]].fields)
  BY <1>1 DEF SourcesOf
<1>4. ASSUME NEW x \in done \union {l}, NEW f \in FlatFor(t, ins[x].fields)
      PROVE  /\ f \in DOMAIN M
             /\ M[f] = x <=> \A y \in done \union {l} : Above(y, x) => f \notin FlatFor(t, ins[y].fields)
  <2>1. CASE x = l
    BY <1>1, <1>2, <2>1
  <2>2. CASE x \in done
    <3>1. /\ f \in DOMAIN of
          /\ of[f] = x <=> \A y \in done : Above(y, x) => f \notin FlatFor(t, ins[y].fields)
      BY <2>2 DEF SourcesOf
    <3>2. CASE f \in new
      <4>1. M[f] = l /\ x # l /\ Above(l, x)
        BY <1>1, <1>2, <2>2, <3>2
      <4> QED
        BY <1>1, <3>2, <4>1
    <3>3. CASE f \notin new
      BY <1>1, <3>1, <3>3
    <3> QED
      BY <3>2, <3>3
  <2> QED
    BY <2>1, <2>2
<1> QED
  BY <1>3, <1>4 DEF SourcesOf, M

\* The inductive invariant: the layers left are stronger than those merged, and
\* root and sources are what merging those makes.
Done == Present \ todo

InputsOK ==
  \A l \in Present : /\ LayerDoc(l, inputs[l].fields)
                     /\ target = "deep" => inputs[l].fields \in Documents[l][Depth]

KernelInv ==
  /\ pc \in {"idle", "merge", "return"} /\ target \in Targets
  /\ todo \subseteq Present /\ (pc # "merge" => todo = {})
  /\ pc = "idle" => Present = {} /\ root = Nothing /\ sources = Nothing
  /\ InputsOK
  /\ \A l \in Done, x \in todo : Above(x, l)
  /\ target = "deep" => DeepRoot(inputs, Done, root)
  /\ target = "keyOverride" => OverriddenRoot(inputs, Done, root)
  /\ SourcesOf(target, inputs, Done, sources)

LEMMA NothingMerged ==
  ASSUME NEW ins, NEW t
  PROVE  /\ DeepRoot(ins, {}, Nothing) /\ OverriddenRoot(ins, {}, Nothing)
         /\ SourcesOf(t, ins, {}, Nothing)
<1>1. DOMAIN Nothing = {}
  BY DEF Nothing
<1>2. ASSUME NEW p \in Seq(Keys) PROVE ~IsLeaf(At(Nothing, p))
  <2>1. CASE p = <<>>
    BY <2>1, AtEmpty DEF IsLeaf
  <2>2. CASE p # <<>>
    <3>1. PICK n \in Nat : n = Len(p) /\ Pre(p, n) = p /\ n > 0
      BY <2>2, PreWhole
    <3> SUFFICES ASSUME At(Nothing, Pre(p, n)) # Absent PROVE FALSE
      BY <3>1 DEF IsLeaf
    <3>2. n \in 0 .. Len(p) /\ 0 \in 0 .. n - 1
      BY <3>1
    <3>3. p[0 + 1] \in DOMAIN At(Nothing, Pre(p, 0)).fields
      BY <3>2, AboveAreObjects
    <3>4. At(Nothing, Pre(p, 0)).fields = Nothing
      BY AtSteps DEF Object
    <3> QED
      BY <1>1, <3>3, <3>4
  <2> QED
    BY <2>1, <2>2
<1>3. DeepRoot(ins, {}, Nothing)
  BY <1>1, <1>2 DEF DeepRoot
<1>4. OverriddenRoot(ins, {}, Nothing)
  BY <1>1 DEF OverriddenRoot
<1>5. SourcesOf(t, ins, {}, Nothing)
  BY <1>1 DEF SourcesOf
<1> QED
  BY <1>3, <1>4, <1>5

LEMMA KernelInit == Init => KernelInv
<1> SUFFICES ASSUME Init PROVE KernelInv
  OBVIOUS
<1>1. /\ pc = "idle" /\ target = "deep" /\ todo = {} /\ root = Nothing /\ sources = Nothing
      /\ Present = {} /\ Done = {}
  BY DEF Init, Present, Done, NoInputs
<1>2. DeepRoot(inputs, {}, Nothing) /\ SourcesOf("deep", inputs, {}, Nothing)
  BY NothingMerged
<1> QED
  BY <1>1, <1>2 DEF KernelInv, InputsOK, Targets

\* A call begins with its inputs and nothing merged.
LEMMA CallBegins ==
  ASSUME KernelInv, pc = "idle", NEW t \in Targets, NEW ls, Merge(t, ls),
         \A l \in Layers : ls[l] # Absent =>
           /\ LayerDoc(l, ls[l].fields)
           /\ t = "deep" => ls[l].fields \in Documents[l][Depth]
  PROVE  KernelInv'
<1>1. /\ pc' = "merge" /\ target' = t /\ inputs' = ls /\ root' = Nothing /\ sources' = Nothing
      /\ Present' = {l \in Layers : ls[l] # Absent} /\ todo' = Present'
  BY DEF Merge, KernelInv, Present
<1>2. Done' = {}
  BY <1>1 DEF Done
<1>3. InputsOK'
  BY <1>1 DEF InputsOK
<1>4. DeepRoot(inputs', {}, Nothing) /\ OverriddenRoot(inputs', {}, Nothing) /\ SourcesOf(t, inputs', {}, Nothing)
  BY NothingMerged
<1> QED
  BY <1>1, <1>2, <1>3, <1>4 DEF KernelInv

LEMMA DocsBegin ==
  ASSUME KernelInv, pc = "idle", NEW t \in Targets, NEW p \in Inputs("public"),
         NEW n \in Inputs("namespace"), NEW g \in Inputs("group"),
         MergeDocs(t, [public |-> p, namespace |-> n, group |-> g])
  PROVE  KernelInv'
<1> DEFINE ls == [public |-> p, namespace |-> n, group |-> g]
<1>1. ASSUME NEW l \in Layers PROVE ls[l] \in Inputs(l)
  BY DEF Layers
<1>2. Merge(t, ls)
  BY DEF MergeDocs
<1> HIDE DEF ls
<1>3. ASSUME NEW l \in Layers, ls[l] # Absent
      PROVE  LayerDoc(l, ls[l].fields) /\ ls[l].fields \in Documents[l][Depth]
  <2>1. PICK doc \in Documents[l][Depth] : ls[l] = Object(doc)
    BY <1>1, <1>3 DEF Inputs
  <2>2. ls[l].fields = doc
    BY <2>1 DEF Object
  <2> QED
    BY <2>2 DEF LayerDoc
<1> QED
  BY <1>2, <1>3, CallBegins

LEMMA TextsBegin ==
  ASSUME KernelInv, pc = "idle", NEW ts, MergeTexts(ts)
  PROVE  KernelInv'
<1> DEFINE ls == [l \in Layers |-> IF l \in DOMAIN ts THEN Decoded(l, ts[l]) ELSE Absent]
<1>1. Merge("keyOverride", ls)
  BY DEF MergeTexts
<1>2. ASSUME NEW l \in Layers, ls[l] # Absent PROVE LayerDoc(l, ls[l].fields)
  <2>1. ls[l] = Decoded(l, ts[l])
    BY <1>2
  <2> DEFINE map == DecodeProperties(ts[l])
             doc == [k \in DOMAIN map |-> TextLeaf(l, map[k])]
  <2>2. ls[l].fields = doc
    BY <2>1 DEF Decoded, Object
  <2> HIDE DEF map
  <2>3. \A k \in DOMAIN map : doc[k].text = map[k]
    BY DEF TextLeaf
  <2>4. IsTextDoc(l, doc)
    BY <2>3 DEF IsTextDoc
  <2> QED
    BY <2>2, <2>4 DEF LayerDoc
<1> HIDE DEF ls
<1>3. "keyOverride" \in Targets
  BY DEF Targets
<1> QED
  BY <1>1, <1>2, <1>3, CallBegins

LEMMA LayerKeeps ==
  ASSUME KernelInv, NEW l \in todo, MergeLayer(l)
  PROVE  KernelInv'
<1>1. /\ pc = "merge" /\ pc' = "merge" /\ target' = target /\ inputs' = inputs
      /\ todo' = todo \ {l} /\ Present' = Present /\ l \in Present /\ l \in Layers
      /\ root' = Overlay(root, inputs[l].fields)
      /\ sources' = Put(sources, [f \in FlatFor(target, inputs[l].fields) |-> l])
  BY DEF MergeLayer, KernelInv, Present, Marked, MarkedFor, FlatFor
<1>2. Done' = Done \union {l} /\ Done \in SUBSET Layers /\ l \notin Done
  BY <1>1 DEF Done, KernelInv, Present
<1>3. \A x \in Done : Above(l, x)
  BY DEF KernelInv
<1>4. \A y \in Done', x \in todo' : Above(x, y)
  <2> SUFFICES ASSUME NEW y \in Done \union {l}, NEW x \in todo \ {l} PROVE Above(x, y)
    BY <1>1, <1>2
  <2>1. CASE y = l
    <3>1. LayerPriority[l] <= LayerPriority[x] /\ x \in Layers
      BY DEF MergeLayer, IsNext, KernelInv, Present
    <3>2. ~Above(l, x)
      BY <1>1, <3>1, Priorities DEF Above
    <3> QED
      BY <1>1, <2>1, <3>1, <3>2, Priorities
  <2>2. CASE y \in Done
    BY <2>2 DEF KernelInv
  <2> QED
    BY <2>1, <2>2
<1>5. PICK ins, done, r, of : ins = inputs /\ done = Done /\ r = root /\ of = sources
  OBVIOUS
<1>6. target = "deep" => DeepRoot(inputs', Done', root')
  <2> SUFFICES ASSUME target = "deep" PROVE DeepRoot(ins, done \union {l}, DeepMerge(r, ins[l].fields))
    BY <1>1, <1>2, <1>5 DEF Overlay
  <2>1. DeepRoot(ins, done, r) /\ ins[l].fields \in Documents[l][Depth]
    <3>1. DeepRoot(inputs, Done, root)
      BY DEF KernelInv
    <3>2. inputs[l].fields \in Documents[l][Depth]
      <4>1. InputsOK
        BY DEF KernelInv
      <4> QED
        BY <1>1, <4>1 DEF InputsOK
    <3> QED
      BY <1>5, <3>1, <3>2
  <2> QED
    BY <1>1, <1>2, <1>3, <1>5, <2>1, DeepStep
<1>7. target = "keyOverride" => OverriddenRoot(inputs', Done', root')
  <2> SUFFICES ASSUME target = "keyOverride"
               PROVE  OverriddenRoot(ins, done \union {l}, KeyOverride(r, ins[l].fields))
    BY <1>1, <1>2, <1>5 DEF Overlay
  <2>1. OverriddenRoot(ins, done, r)
    BY <1>5 DEF KernelInv
  <2> QED
    BY <1>1, <1>2, <1>3, <1>5, <2>1, OverrideStep
<1>8. SourcesOf(target', inputs', Done', sources')
  <2>1. SourcesOf(target, ins, done, of)
    BY <1>5 DEF KernelInv
  <2>2. SourcesOf(target, ins, done \union {l}, Put(of, [f \in FlatFor(target, ins[l].fields) |-> l]))
    BY <1>1, <1>2, <1>3, <1>5, <2>1, SourcesStep
  <2> QED
    BY <1>1, <1>2, <1>5, <2>2
<1>9. InputsOK'
  BY <1>1 DEF InputsOK, KernelInv
<1>10. todo' \subseteq Present'
  BY <1>1 DEF KernelInv
<1> QED
  BY <1>1, <1>4, <1>6, <1>7, <1>8, <1>9, <1>10 DEF KernelInv

LEMMA KernelNext == KernelInv /\ [Next]_vars => KernelInv'
<1> SUFFICES ASSUME KernelInv, [Next]_vars PROVE KernelInv'
  OBVIOUS
<1>1. CASE \E t \in Targets, p \in Inputs("public"), n \in Inputs("namespace"), g \in Inputs("group") :
             pc = "idle" /\ MergeDocs(t, [public |-> p, namespace |-> n, group |-> g])
  BY <1>1, DocsBegin
<1>2. CASE \E ts : pc = "idle" /\ MergeTexts(ts)
  BY <1>2, TextsBegin
<1>3. CASE \E l \in todo : MergeLayer(l)
  BY <1>3, LayerKeeps
<1>4. CASE Return
  BY <1>4 DEF Return, KernelInv, InputsOK, Done, Present
<1>5. CASE TakeAnswer
  <2>1. /\ pc' = "idle" /\ target' = "deep" /\ todo' = {} /\ root' = Nothing /\ sources' = Nothing
        /\ Present' = {} /\ Done' = {}
    BY <1>5 DEF TakeAnswer, Present, Done, NoInputs, KernelInv
  <2>2. DeepRoot(inputs', {}, Nothing) /\ SourcesOf("deep", inputs', {}, Nothing)
    BY NothingMerged
  <2> QED
    BY <2>1, <2>2 DEF KernelInv, InputsOK, Targets
<1>6. CASE UNCHANGED vars
  BY <1>6 DEF vars, KernelInv, InputsOK, Done, Present
<1> QED
  BY <1>1, <1>2, <1>3, <1>4, <1>5, <1>6 DEF Next

LEMMA KernelAlways == Spec => []KernelInv
BY KernelInit, KernelNext, PTL DEF Spec

-----------------------------------------------------------------------------
\* The answer.  Below a value that is not an empty object there is a leaf.
HasNoEmpty(doc) == \A p \in Nodes(doc) : At(doc, p) # Object(Nothing)

LEMMA LeafBelow ==
  ASSUME NEW l \in Layers, NEW doc, LayerDoc(l, doc), HasNoEmpty(doc), Nodes(doc) # {}
  PROVE  LeafPaths(doc) # {}
<1> SUFFICES ASSUME LeafPaths(doc) = {} PROVE FALSE
  OBVIOUS
<1>0. PICK F : F = Keys \union DOMAIN doc
  OBVIOUS
<1>1. Depth \in Nat
  BY KernelAssumption
<1> DEFINE left == {n \in Nat : \E p \in Nodes(doc) : n = Depth + 1 - Len(p)}
<1>2. \A p \in Nodes(doc) : p \in Seq(F) /\ Len(p) \in 1 .. Depth + 1 /\ At(doc, p) # Absent
  BY <1>0, NodeOf
<1>3. left # {}
  <2>1. PICK p : p \in Nodes(doc)
    OBVIOUS
  <2>2. Depth + 1 - Len(p) \in Nat
    BY <1>1, <1>2, <2>1
  <2> QED
    BY <2>1, <2>2
<1>4. PICK n \in left : \A m \in left : n <= m
  BY <1>3, LeastNumber
<1>5. PICK p \in Nodes(doc) : n = Depth + 1 - Len(p)
  BY <1>4
<1> HIDE DEF left
<1>6. /\ Bounded(doc, F)
      /\ IsObject(At(doc, p)) /\ DOMAIN At(doc, p).fields = {} => At(doc, p) = Object(Nothing)
  BY <1>2, <1>5, LayerDocs
<1>7. IsObject(At(doc, p))
  BY <1>5 DEF LeafPaths
<1>8. At(doc, p) # Object(Nothing)
  BY <1>5 DEF HasNoEmpty
<1>9. PICK key : key \in DOMAIN At(doc, p).fields
  BY <1>6, <1>7, <1>8
<1>10. key \in F /\ At(doc, p).fields[key] # Absent
  BY <1>0, <1>2, <1>5, <1>6, <1>7, <1>9 DEF Bounded
<1> DEFINE q == Append(p, key)
<1>11. q \in Seq(F) /\ q # <<>> /\ Len(q) = Len(p) + 1
  BY <1>2, <1>5, <1>10
<1>12. At(doc, q) # Absent
  BY <1>2, <1>5, <1>7, <1>9, <1>10, AtAppend DEF Down
<1> HIDE DEF q
<1>13. q \in Nodes(doc)
  BY <1>6, <1>11, <1>12, NodesAre
<1>14. Depth + 1 - Len(q) \in Nat /\ Depth + 1 - Len(q) < n
  BY <1>1, <1>2, <1>5, <1>11, <1>13
<1>15. Depth + 1 - Len(q) \in left
  BY <1>13, <1>14 DEF left
<1>16. n <= Depth + 1 - Len(q) /\ n \in Nat
  BY <1>4, <1>15 DEF left
<1> QED
  BY <1>14, <1>16

\* The value at a path depends on the value of its first field only.
LEMMA SameField ==
  ASSUME NEW d, NEW e, NEW F, NEW p \in Seq(F), p # <<>>,
         p[1] \in DOMAIN d, p[1] \in DOMAIN e, d[p[1]] = e[p[1]]
  PROVE  At(d, p) = At(e, p)
<1>0. PICK n \in Nat : n = Len(p) - 1 /\ Pre(p, n + 1) = p
  <2>1. Pre(p, Len(p)) = p /\ Len(p) \in Nat /\ Len(p) # 0
    BY PreWhole
  <2>2. Len(p) - 1 \in Nat /\ (Len(p) - 1) + 1 = Len(p)
    BY <2>1
  <2> QED
    BY <2>1, <2>2
<1> DEFINE same == {i \in 0 .. n : At(d, Pre(p, i + 1)) = At(e, Pre(p, i + 1))}
<1>1. \A x : /\ At(x, Pre(p, 0)) = Object(x)
             /\ \A i \in 1 .. n + 1 : At(x, Pre(p, i)) = Down(At(x, Pre(p, i - 1)), p[i])
  <2>1. \A x : /\ At(x, Pre(p, 0)) = Object(x)
               /\ \A i \in 1 .. Len(p) : At(x, Pre(p, i)) = Down(At(x, Pre(p, i - 1)), p[i])
    BY AtSteps
  <2> QED
    BY <1>0, <2>1
<1>2. 0 \in same
  <2>1. 1 \in 1 .. n + 1 /\ 1 - 1 = 0 /\ 0 + 1 = 1 /\ 0 \in 0 .. n
    BY <1>0
  <2>2. \A x : At(x, Pre(p, 1)) = Down(Object(x), p[1])
    BY <1>1, <2>1
  <2>3. Down(Object(d), p[1]) = Down(Object(e), p[1])
    BY DEF Down, Object, IsObject
  <2> QED
    BY <2>1, <2>2, <2>3
<1>3. ASSUME NEW i \in 0 .. n - 1, i \in same PROVE i + 1 \in same
  <2>1. (i + 1) + 1 \in 1 .. n + 1 /\ ((i + 1) + 1) - 1 = i + 1 /\ i + 1 \in 0 .. n
    BY <1>0
  <2> QED
    BY <1>1, <1>3, <2>1
<1> HIDE DEF same
<1>4. n \in same
  <2>1. n \in Nat /\ n \in 0 .. n
    BY <1>0
  <2>2. \A i \in 0 .. n : i \in same
    BY <1>2, <1>3, <2>1, Upward
  <2> QED
    BY <2>1, <2>2
<1> QED
  BY <1>0, <1>4 DEF same

LEMMA LeafIs ==
  ASSUME NEW l \in Layers, NEW doc, LayerDoc(l, doc), NEW F, NEW p \in Seq(F), p # <<>>
  PROVE  /\ p \in Nodes(doc) <=> At(doc, p) # Absent
         /\ p \in LeafPaths(doc) <=> IsLeaf(At(doc, p))
<1>1. Bounded(doc, F)
  BY LayerDocs
<1>2. At(doc, p) # Absent => p \in Nodes(doc)
  BY <1>1, NodesAre
<1>3. p \in Nodes(doc) => At(doc, p) # Absent
  BY NodeOf
<1> QED
  BY <1>2, <1>3 DEF LeafPaths, IsLeaf

LEMMA FreeIs ==
  ASSUME NEW l \in Layers, NEW doc, LayerDoc(l, doc), NEW F, NEW p \in Seq(F), p # <<>>
  PROVE  Free(doc, p) <=> ~(p \in Nodes(doc) \/ \E q \in PathPrefixes(p) : q \in LeafPaths(doc))
<1>1. p \in Nodes(doc) <=> At(doc, p) # Absent
  BY LeafIs
<1>2. ASSUME NEW n \in 1 .. Len(p)
      PROVE  Pre(p, n) \in LeafPaths(doc) <=> IsLeaf(At(doc, Pre(p, n)))
  <2>1. Pre(p, n) \in Seq(F) /\ Len(Pre(p, n)) = n
    BY PreOf
  <2>2. Pre(p, n) # <<>>
    BY <2>1
  <2> QED
    BY <2>1, <2>2, LeafIs
<1>3. PathPrefixes(p) = {Pre(p, n) : n \in 1 .. Len(p)}
  BY DEF PathPrefixes, Pre
<1> QED
  BY <1>1, <1>2, <1>3 DEF Free

\* A path lies below its first field.
LEMMA FirstField ==
  ASSUME NEW doc, NEW F, NEW p \in Seq(F), p # <<>>, At(doc, p) # Absent
  PROVE  p[1] \in DOMAIN doc
<1>1. PICK n \in Nat : n = Len(p) /\ Pre(p, n) = p /\ n > 0
  BY PreWhole
<1>2. n \in 0 .. Len(p) /\ 0 \in 0 .. n - 1 /\ 0 + 1 = 1
  BY <1>1
<1>3. At(doc, Pre(p, n)) # Absent
  BY <1>1
<1>4. p[0 + 1] \in DOMAIN At(doc, Pre(p, 0)).fields
  BY <1>2, <1>3, AboveAreObjects
<1>5. At(doc, Pre(p, 0)).fields = doc
  BY AtSteps DEF Object
<1> QED
  BY <1>2, <1>4, <1>5

LEMMA NodesMove ==
  ASSUME NEW d, NEW e, NEW p \in Nodes(d), DOMAIN d \subseteq Keys \union DOMAIN e, At(e, p) # Absent
  PROVE  p \in Nodes(e)
<1>1. PICK n \in 1 .. Depth + 1 : p \in [1 .. n -> Keys \union DOMAIN d]
  BY DEF Nodes
<1>2. p \in [1 .. n -> Keys \union DOMAIN e]
  BY <1>1
<1> QED
  BY <1>1, <1>2 DEF Nodes

LEMMA SomeStrongest ==
  ASSUME NEW S \in SUBSET Layers, S # {}
  PROVE  \E l \in S : \A x \in S : ~Above(x, l)
<1>1. \A l \in Layers : LayerPriority[l] \in {0, 1, 2}
  BY Priorities
<1>2. CASE \E l \in S : LayerPriority[l] = 2
  BY <1>1, <1>2 DEF Above
<1>3. CASE ~(\E l \in S : LayerPriority[l] = 2) /\ \E l \in S : LayerPriority[l] = 1
  BY <1>1, <1>3 DEF Above
<1>4. CASE \A l \in S : LayerPriority[l] = 0
  BY <1>1, <1>4 DEF Above
<1> QED
  BY <1>1, <1>2, <1>3, <1>4

\* What survives, in the words of the invariant.
LEMMA SurvivingIs ==
  ASSUME KernelInv, pc = "return"
  PROVE  /\ Done = Present
         /\ \A e \in Surviving : \E l \in Present : \E p \in LeafPaths(inputs[l].fields) :
              e = <<p, l>> /\ ~Hidden(l, p)
         /\ \A l \in Present : \A p \in LeafPaths(inputs[l].fields) :
              /\ ~Hidden(l, p) => <<p, l>> \in Surviving
              /\ p \in Seq(Keys \union DOMAIN inputs[l].fields) /\ p # <<>>
              /\ IsLeaf(At(inputs[l].fields, p)) /\ At(inputs[l].fields, p).of = l
              /\ p[1] \in DOMAIN inputs[l].fields
<1>1. Done = Present
  BY DEF KernelInv, Done
<1>2. \A e \in Surviving : \E l \in Present : \E p \in LeafPaths(inputs[l].fields) :
        e = <<p, l>> /\ ~Hidden(l, p)
  BY DEF Surviving
<1>3. ASSUME NEW l \in Present, NEW p \in LeafPaths(inputs[l].fields)
      PROVE  /\ ~Hidden(l, p) => <<p, l>> \in Surviving
             /\ p \in Seq(Keys \union DOMAIN inputs[l].fields) /\ p # <<>>
             /\ IsLeaf(At(inputs[l].fields, p)) /\ At(inputs[l].fields, p).of = l
             /\ p[1] \in DOMAIN inputs[l].fields
  <2> DEFINE doc == inputs[l].fields
  <2>1. l \in Layers /\ LayerDoc(l, doc)
    BY DEF KernelInv, InputsOK, Present
  <2>2. p \in Nodes(doc)
    BY DEF LeafPaths
  <2>3. p \in Seq(Keys \union DOMAIN doc) /\ p # <<>> /\ At(doc, p) # Absent
    BY <2>2, NodeOf
  <2>4. IsLeaf(At(doc, p))
    BY <2>3 DEF LeafPaths, IsLeaf
  <2>5. At(doc, p).of = l
    BY <2>1, <2>3, <2>4, LayerDocs
  <2>6. p[1] \in DOMAIN doc
    BY <2>3, FirstField
  <2>7. ~Hidden(l, p) => <<p, l>> \in Surviving
    BY DEF Surviving
  <2> QED
    BY <2>3, <2>4, <2>5, <2>6, <2>7
<1> QED
  BY <1>1, <1>2, <1>3

LEMMA HiddenDeep ==
  ASSUME KernelInv, target = "deep", NEW l \in Present, NEW p \in Seq(Keys), p # <<>>
  PROVE  ~Hidden(l, p) <=> \A x \in Present : Above(x, l) => Free(inputs[x].fields, p)
<1>1. ASSUME NEW x \in Present
      PROVE  Free(inputs[x].fields, p) <=>
               ~(p \in Nodes(inputs[x].fields) \/ \E q \in PathPrefixes(p) : q \in LeafPaths(inputs[x].fields))
  <2>1. x \in Layers /\ LayerDoc(x, inputs[x].fields)
    BY DEF KernelInv, InputsOK, Present
  <2> QED
    BY <2>1, FreeIs
<1> QED
  BY <1>1 DEF Hidden, Stronger, Above

LEMMA HiddenOverride ==
  ASSUME target # "deep", NEW l, NEW p
  PROVE  ~Hidden(l, p) <=> \A x \in Present : Above(x, l) => p[1] \notin DOMAIN inputs[x].fields
BY DEF Hidden, Stronger, Above

LEMMA DeepFields ==
  ASSUME KernelInv, target = "deep", NEW l \in Present
  PROVE  DOMAIN inputs[l].fields \subseteq Keys
<1>1. inputs[l].fields \in Documents[l][Depth] /\ l \in Layers
  <2>1. InputsOK
    BY DEF KernelInv
  <2> QED
    BY <2>1 DEF InputsOK, Present
<1>2. Depth \in 0 .. Depth
  BY KernelAssumption
<1> QED
  BY <1>1, <1>2, KernelAssumption

LEMMA DeepOverlay ==
  ASSUME KernelInv, pc = "return", target = "deep"
  PROVE  {<<p, At(root, p).of>> : p \in LeafPaths(root)} = Surviving
<1>0. DeepRoot(inputs, Present, root)
  <2>1. DeepRoot(inputs, Done, root) /\ Done = Present
    BY SurvivingIs DEF KernelInv
  <2> QED
    BY <2>1
<1>1. ASSUME NEW p \in LeafPaths(root) PROVE <<p, At(root, p).of>> \in Surviving
  <2>1. p \in Nodes(root) /\ ~IsObject(At(root, p))
    BY DEF LeafPaths
  <2>2. p \in Seq(Keys \union DOMAIN root) /\ p # <<>> /\ At(root, p) # Absent
    BY <2>1, NodeOf
  <2>3. Keys \union DOMAIN root = Keys
    BY <1>0 DEF DeepRoot
  <2>4. p \in Seq(Keys) /\ IsLeaf(At(root, p))
    BY <2>1, <2>2, <2>3 DEF IsLeaf
  <2>5. PICK l \in Present : Owns(inputs, Present, l, p)
    BY <1>0, <2>4 DEF DeepRoot
  <2>6. At(root, p) = At(inputs[l].fields, p)
    BY <1>0, <2>4, <2>5 DEF DeepRoot
  <2>7. l \in Layers /\ LayerDoc(l, inputs[l].fields)
    BY DEF KernelInv, InputsOK, Present
  <2>8. p \in LeafPaths(inputs[l].fields)
    BY <2>2, <2>4, <2>6, <2>7, LeafIs
  <2>9. ~Hidden(l, p)
    BY <2>2, <2>4, <2>5, HiddenDeep DEF Owns
  <2>10. At(inputs[l].fields, p).of = l /\ <<p, l>> \in Surviving
    BY <2>8, <2>9, SurvivingIs
  <2> QED
    BY <2>6, <2>10
<1>2. ASSUME NEW e \in Surviving PROVE \E p \in LeafPaths(root) : e = <<p, At(root, p).of>>
  <2>1. PICK l \in Present : \E p \in LeafPaths(inputs[l].fields) : e = <<p, l>> /\ ~Hidden(l, p)
    BY SurvivingIs
  <2>2. PICK p \in LeafPaths(inputs[l].fields) : e = <<p, l>> /\ ~Hidden(l, p)
    BY <2>1
  <2>3. /\ p \in Seq(Keys \union DOMAIN inputs[l].fields) /\ p # <<>>
        /\ IsLeaf(At(inputs[l].fields, p)) /\ At(inputs[l].fields, p).of = l
    BY SurvivingIs
  <2>4. DOMAIN inputs[l].fields \subseteq Keys
    BY DeepFields
  <2>5. p \in Seq(Keys)
    <3>1. Keys \union DOMAIN inputs[l].fields = Keys
      BY <2>4
    <3> QED
      BY <2>3, <3>1
  <2>6. Owns(inputs, Present, l, p)
    BY <2>2, <2>3, <2>5, HiddenDeep DEF Owns
  <2>7. At(root, p) = At(inputs[l].fields, p)
    BY <1>0, <2>5, <2>6 DEF DeepRoot
  <2>8. p \in Nodes(inputs[l].fields) /\ At(root, p) # Absent /\ ~IsObject(At(root, p))
    BY <2>3, <2>7 DEF LeafPaths, IsLeaf
  <2>9. p \in Nodes(root)
    BY <2>4, <2>8, NodesMove
  <2>10. p \in LeafPaths(root)
    BY <2>8, <2>9 DEF LeafPaths
  <2> QED
    BY <2>2, <2>3, <2>7, <2>10
<1> QED
  BY <1>1, <1>2

LEMMA KeyOverlay ==
  ASSUME KernelInv, pc = "return", target = "keyOverride"
  PROVE  {<<p, At(root, p).of>> : p \in LeafPaths(root)} = Surviving
<1>0. OverriddenRoot(inputs, Present, root)
  <2>1. OverriddenRoot(inputs, Done, root) /\ Done = Present
    BY SurvivingIs DEF KernelInv
  <2> QED
    BY <2>1
<1>1. ASSUME NEW p \in LeafPaths(root) PROVE <<p, At(root, p).of>> \in Surviving
  <2>1. p \in Nodes(root) /\ ~IsObject(At(root, p))
    BY DEF LeafPaths
  <2>2. p \in Seq(Keys \union DOMAIN root) /\ p # <<>> /\ At(root, p) # Absent
    BY <2>1, NodeOf
  <2>3. p[1] \in DOMAIN root /\ IsLeaf(At(root, p))
    BY <2>1, <2>2, FirstField DEF IsLeaf
  <2> DEFINE S == {x \in Present : p[1] \in DOMAIN inputs[x].fields}
  <2>4. S # {} /\ S \in SUBSET Layers
    BY <1>0, <2>3 DEF OverriddenRoot, Present
  <2>5. PICK l \in S : \A x \in S : ~Above(x, l)
    BY <2>4, SomeStrongest
  <2>6. /\ l \in Present /\ p[1] \in DOMAIN inputs[l].fields
        /\ \A x \in Present : Above(x, l) => p[1] \notin DOMAIN inputs[x].fields
    BY <2>5
  <2> HIDE DEF S
  <2>7. root[p[1]] = inputs[l].fields[p[1]]
    BY <1>0, <2>6 DEF OverriddenRoot
  <2>8. At(root, p) = At(inputs[l].fields, p)
    BY <2>2, <2>3, <2>6, <2>7, SameField
  <2>9. l \in Layers /\ LayerDoc(l, inputs[l].fields)
    BY <2>6 DEF KernelInv, InputsOK, Present
  <2>10. p \in LeafPaths(inputs[l].fields)
    BY <2>2, <2>3, <2>8, <2>9, LeafIs
  <2>11. ~Hidden(l, p)
    BY <2>6, HiddenOverride
  <2>12. At(inputs[l].fields, p).of = l /\ <<p, l>> \in Surviving
    BY <2>6, <2>10, <2>11, SurvivingIs
  <2> QED
    BY <2>8, <2>12
<1>2. ASSUME NEW e \in Surviving PROVE \E p \in LeafPaths(root) : e = <<p, At(root, p).of>>
  <2>1. PICK l \in Present : \E p \in LeafPaths(inputs[l].fields) : e = <<p, l>> /\ ~Hidden(l, p)
    BY SurvivingIs
  <2>2. PICK p \in LeafPaths(inputs[l].fields) : e = <<p, l>> /\ ~Hidden(l, p)
    BY <2>1
  <2>3. /\ p \in Seq(Keys \union DOMAIN inputs[l].fields) /\ p # <<>>
        /\ IsLeaf(At(inputs[l].fields, p)) /\ At(inputs[l].fields, p).of = l
        /\ p[1] \in DOMAIN inputs[l].fields
    BY SurvivingIs
  <2>4. \A x \in Present : Above(x, l) => p[1] \notin DOMAIN inputs[x].fields
    BY <2>2, HiddenOverride
  <2>5. root[p[1]] = inputs[l].fields[p[1]]
    BY <1>0, <2>3, <2>4 DEF OverriddenRoot
  <2>6. DOMAIN inputs[l].fields \subseteq DOMAIN root
    BY <1>0 DEF OverriddenRoot
  <2>7. p[1] \in DOMAIN root
    BY <2>3, <2>6
  <2>8. At(root, p) = At(inputs[l].fields, p)
    BY <2>3, <2>5, <2>7, SameField
  <2>9. p \in Nodes(inputs[l].fields) /\ At(root, p) # Absent /\ ~IsObject(At(root, p))
    BY <2>3, <2>8 DEF LeafPaths, IsLeaf
  <2>10. p \in Nodes(root)
    BY <2>6, <2>9, NodesMove
  <2>11. p \in LeafPaths(root)
    BY <2>9, <2>10 DEF LeafPaths
  <2> QED
    BY <2>2, <2>3, <2>8, <2>11
<1> QED
  BY <1>1, <1>2

\* The merged document has exactly the leaves that no stronger layer hides,
\* each with the content its layer wrote, for documents of any depth
\* (merge.go, deepMerge and keyOverride).
THEOREM MergeIsOverlay == Spec => []RootIsOverlay
<1>1. KernelInv => RootIsOverlay
  BY DeepOverlay, KeyOverlay DEF RootIsOverlay, KernelInv, Targets
<1> QED
  BY <1>1, KernelAlways, PTL

\* The map of sources at a surviving leaf: a stronger layer that enters the same
\* flat path does so for another path, as it would hide the leaf at its own.
LEMMA SourcesKept ==
  ASSUME KernelInv, pc = "return", NEW l \in Present, NEW p \in LeafPaths(inputs[l].fields), ~Hidden(l, p)
  PROVE  LET path == IF target = "deep" THEN p ELSE <<p[1]>>
             covered == \E x \in Stronger(l) : \E q \in Marked(inputs[x].fields) :
                          q # path /\ FlatPath(q) = FlatPath(path)
         IN  /\ FlatPath(path) \in DOMAIN sources
             /\ sources[FlatPath(path)] = l <=> ~covered
<1> DEFINE path == IF target = "deep" THEN p ELSE <<p[1]>>
<1>0. SourcesOf(target, inputs, Present, sources)
  <2>1. SourcesOf(target, inputs, Done, sources) /\ Done = Present
    BY SurvivingIs DEF KernelInv
  <2> QED
    BY <2>1
<1>1. /\ p \in Seq(Keys \union DOMAIN inputs[l].fields) /\ p # <<>>
      /\ p[1] \in DOMAIN inputs[l].fields
  BY SurvivingIs
<1>2. /\ path \in MarkedFor(target, inputs[l].fields)
      /\ \A x \in Present : Above(x, l) => path \notin MarkedFor(target, inputs[x].fields)
  <2>1. CASE target = "deep"
    <3>1. p \in Seq(Keys)
      <4>1. Keys \union DOMAIN inputs[l].fields = Keys
        BY <2>1, DeepFields
      <4> QED
        BY <1>1, <4>1
    <3>2. \A x \in Present : Above(x, l) => Free(inputs[x].fields, p)
      BY <1>1, <2>1, <3>1, HiddenDeep
    <3>3. ASSUME NEW x \in Present, Above(x, l) PROVE p \notin MarkedFor(target, inputs[x].fields)
      <4>1. At(inputs[x].fields, p) = Absent
        BY <3>2, <3>3 DEF Free
      <4>2. p \notin Nodes(inputs[x].fields)
        BY <4>1, NodeOf
      <4> QED
        BY <2>1, <4>2 DEF MarkedFor, LeafPaths
    <3>4. p \in MarkedFor(target, inputs[l].fields)
      BY <2>1 DEF MarkedFor
    <3> QED
      BY <2>1, <3>3, <3>4
  <2>2. CASE target # "deep"
    <3>1. \A x \in Present : Above(x, l) => p[1] \notin DOMAIN inputs[x].fields
      BY <2>2, HiddenOverride
    <3>2. path = <<p[1]>>
      BY <2>2
    <3>3. \A x \in Present : Above(x, l) => path \notin MarkedFor(target, inputs[x].fields)
      BY <2>2, <3>1, <3>2 DEF MarkedFor
    <3>4. path \in MarkedFor(target, inputs[l].fields)
      BY <1>1, <2>2, <3>2 DEF MarkedFor
    <3> QED
      BY <3>3, <3>4
  <2> QED
    BY <2>1, <2>2
<1> HIDE DEF path
<1>3. PICK f : f = FlatPath(path)
  OBVIOUS
<1>4. f \in FlatFor(target, inputs[l].fields)
  BY <1>2, <1>3 DEF FlatFor
<1>5. /\ f \in DOMAIN sources
      /\ sources[f] = l <=> \A x \in Present : Above(x, l) => f \notin FlatFor(target, inputs[x].fields)
  BY <1>0, <1>4 DEF SourcesOf
<1>6. ASSUME NEW x \in Present, Above(x, l)
      PROVE  f \in FlatFor(target, inputs[x].fields)
               <=> \E q \in Marked(inputs[x].fields) : q # path /\ FlatPath(q) = f
  <2>1. Marked(inputs[x].fields) = MarkedFor(target, inputs[x].fields)
    BY DEF Marked, MarkedFor
  <2>2. \A q \in Marked(inputs[x].fields) : q # path
    BY <1>2, <1>6, <2>1
  <2> QED
    BY <2>1, <2>2 DEF FlatFor
<1>7. \A x : x \in Stronger(l) <=> x \in Present /\ Above(x, l)
  BY DEF Stronger, Above
<1>8. /\ FlatPath(path) \in DOMAIN sources
      /\ sources[FlatPath(path)] = l
           <=> ~ \E x \in Stronger(l) : \E q \in Marked(inputs[x].fields) :
                   q # path /\ FlatPath(q) = FlatPath(path)
  BY <1>3, <1>5, <1>6, <1>7
<1> QED
  BY <1>8 DEF path

\* A leaf of the result is recorded under the layer it came from, unless a
\* stronger layer has a leaf whose path only reads the same, and then it is not
\* (merge.go, the sources that deepMerge, keyOverride and markLeaves fill under
\* the texts of joinPath).
THEOREM MergeKeepsSources == Spec => []LeavesKeepTheirSource
<1>1. KernelInv => LeavesKeepTheirSource
  <2> SUFFICES ASSUME KernelInv, pc = "return", NEW e \in Surviving
               PROVE  LET path == IF target = "deep" THEN e[1] ELSE <<e[1][1]>>
                          covered == \E x \in Stronger(e[2]) : \E q \in Marked(inputs[x].fields) :
                                       q # path /\ FlatPath(q) = FlatPath(path)
                      IN  /\ FlatPath(path) \in DOMAIN sources
                          /\ sources[FlatPath(path)] = e[2] <=> ~covered
    BY DEF LeavesKeepTheirSource
  <2>1. PICK l \in Present : \E p \in LeafPaths(inputs[l].fields) : e = <<p, l>> /\ ~Hidden(l, p)
    BY SurvivingIs
  <2>2. PICK p \in LeafPaths(inputs[l].fields) : e = <<p, l>> /\ ~Hidden(l, p)
    BY <2>1
  <2>3. LET path == IF target = "deep" THEN p ELSE <<p[1]>>
            covered == \E x \in Stronger(l) : \E q \in Marked(inputs[x].fields) :
                         q # path /\ FlatPath(q) = FlatPath(path)
        IN  /\ FlatPath(path) \in DOMAIN sources
            /\ sources[FlatPath(path)] = l <=> ~covered
    BY <2>2, SourcesKept
  <2>4. e[1] = p /\ e[2] = l
    BY <2>2
  <2> QED
    BY <2>3, <2>4
<1> QED
  BY <1>1, KernelAlways, PTL

\* A layer that marks anything has a leaf, and one that marks nothing has no
\* value at all, when no object is empty.
LEMMA MarksAreLeaves ==
  ASSUME NEW l \in Layers, NEW doc, LayerDoc(l, doc), HasNoEmpty(doc), NEW t
  PROVE  /\ MarkedFor(t, doc) # {} <=> LeafPaths(doc) # {}
         /\ MarkedFor(t, doc) = {} => Nodes(doc) = {} /\ DOMAIN doc = {}
<1>1. ASSUME NEW key \in DOMAIN doc PROVE Nodes(doc) # {}
  <2> DEFINE F == {key}
  <2>1. <<>> \in Seq(F) /\ key \in F /\ Append(<<>>, key) \in Seq(F) /\ Append(<<>>, key) # <<>>
    OBVIOUS
  <2>2. At(doc, Append(<<>>, key)) = Down(At(doc, <<>>), key)
    BY <2>1, AtAppend
  <2>3. At(doc, Append(<<>>, key)) = doc[key]
    BY <2>2, AtEmpty DEF Down
  <2>4. Bounded(doc, F)
    BY LayerDocs
  <2>5. doc[key] # Absent
    BY <2>1, <2>4, AtEmpty DEF Bounded
  <2>6. Append(<<>>, key) \in Nodes(doc)
    BY <2>1, <2>3, <2>4, <2>5, NodesAre
  <2> QED
    BY <2>6
<1>2. Nodes(doc) # {} => LeafPaths(doc) # {}
  BY LeafBelow
<1>3. ASSUME NEW p \in LeafPaths(doc) PROVE MarkedFor(t, doc) # {}
  <2>1. p \in Nodes(doc)
    BY DEF LeafPaths
  <2>2. p[1] \in DOMAIN doc
    BY <2>1, NodeOf, FirstField
  <2> QED
    BY <2>2 DEF MarkedFor
<1>4. MarkedFor(t, doc) # {} => LeafPaths(doc) # {}
  <2>1. CASE t = "deep"
    BY <2>1 DEF MarkedFor
  <2>2. CASE t # "deep"
    BY <1>1, <1>2, <2>2 DEF MarkedFor
  <2> QED
    BY <2>1, <2>2
<1> QED
  BY <1>1, <1>2, <1>3, <1>4

LEMMA StrongestIsSource ==
  ASSUME KernelInv, pc = "return", \A l \in Present : HasNoEmpty(inputs[l].fields)
  PROVE  LET owners == {e[2] : e \in Surviving}
         IN  IF owners = {} THEN EntrySource = NoLayer
             ELSE /\ EntrySource \in owners
                  /\ \A l \in owners : LayerPriority[l] <= LayerPriority[EntrySource]
<1> DEFINE owners == {e[2] : e \in Surviving}
           found  == {sources[p] : p \in DOMAIN sources}
           marked(x) == FlatFor(target, inputs[x].fields)
           S == {x \in Present : marked(x) # {}}
<1>0. SourcesOf(target, inputs, Present, sources) /\ Present \subseteq Layers
  <2>1. SourcesOf(target, inputs, Done, sources) /\ Done = Present
    BY SurvivingIs DEF KernelInv
  <2> QED
    BY <2>1 DEF Present
<1>1. ASSUME NEW x \in Present
      PROVE  /\ marked(x) # {} <=> LeafPaths(inputs[x].fields) # {}
             /\ marked(x) = {} => Nodes(inputs[x].fields) = {} /\ DOMAIN inputs[x].fields = {}
  <2>1. x \in Layers /\ LayerDoc(x, inputs[x].fields)
    BY DEF KernelInv, InputsOK, Present
  <2>2. marked(x) = {} <=> MarkedFor(target, inputs[x].fields) = {}
    BY DEF FlatFor
  <2> QED
    BY <2>1, <2>2, MarksAreLeaves
<1>2. found \subseteq S
  BY <1>0 DEF SourcesOf
<1>3. owners \subseteq S
  <2> SUFFICES ASSUME NEW e \in Surviving PROVE e[2] \in S
    OBVIOUS
  <2>1. PICK l \in Present : \E p \in LeafPaths(inputs[l].fields) : e = <<p, l>> /\ ~Hidden(l, p)
    BY SurvivingIs
  <2>2. PICK p \in LeafPaths(inputs[l].fields) : e = <<p, l>>
    BY <2>1
  <2>3. marked(l) # {}
    BY <1>1, <2>2
  <2> QED
    BY <2>2, <2>3
<1>4. EntrySource = IF found = {} THEN NoLayer
                    ELSE CHOOSE l \in found : \A x \in found : LayerPriority[x] <= LayerPriority[l]
  BY DEF EntrySource
<1>5. CASE S = {}
  <2>1. owners = {} /\ found = {}
    BY <1>2, <1>3, <1>5
  <2> HIDE DEF owners, found
  <2>2. EntrySource = NoLayer
    BY <1>4, <2>1
  <2> QED
    BY <2>1, <2>2 DEF owners
<1>6. CASE S # {}
  <2>1. PICK top \in S : \A x \in S : ~Above(x, top)
    BY <1>0, <1>6, SomeStrongest
  <2>2. top \in Present /\ marked(top) # {} /\ top \in Layers
    BY <1>0, <2>1
  <2>3. \A x \in Present : Above(x, top) => marked(x) = {}
    BY <2>1
  <2>4. top \in found
    <3>1. PICK p : p \in marked(top)
      BY <2>2
    <3>2. \A x \in Present : Above(x, top) => p \notin marked(x)
      BY <2>3
    <3>3. p \in DOMAIN sources /\ sources[p] = top
      BY <1>0, <2>2, <3>1, <3>2 DEF SourcesOf
    <3> QED
      BY <3>3
  <2>5. top \in owners
    <3>1. PICK p : p \in LeafPaths(inputs[top].fields)
      BY <1>1, <2>2
    <3>2. ~Hidden(top, p)
      <4> SUFFICES ASSUME NEW x \in Stronger(top),
                          LET doc == inputs[x].fields
                          IN  IF target = "deep"
                              THEN p \in Nodes(doc) \/ \E q \in PathPrefixes(p) : q \in LeafPaths(doc)
                              ELSE p[1] \in DOMAIN doc
                   PROVE  FALSE
        BY DEF Hidden
      <4>1. x \in Present /\ Above(x, top)
        BY DEF Stronger, Above
      <4>2. marked(x) = {}
        BY <2>3, <4>1
      <4>3. Nodes(inputs[x].fields) = {} /\ DOMAIN inputs[x].fields = {} /\ LeafPaths(inputs[x].fields) = {}
        BY <1>1, <4>1, <4>2
      <4> QED
        BY <4>3
    <3>3. <<p, top>> \in Surviving
      BY <2>2, <3>1, <3>2, SurvivingIs
    <3>4. <<p, top>>[2] = top
      OBVIOUS
    <3> QED
      BY <3>3, <3>4
  <2> HIDE DEF owners, found, S
  <2>6. \A x \in S : LayerPriority[x] <= LayerPriority[top]
    <3>1. \A x \in S : x \in Layers
      BY <1>0 DEF S
    <3> QED
      BY <2>1, <2>2, <3>1, Priorities DEF Above
  <2>7. PICK l : l = EntrySource /\ l \in found /\ LayerPriority[top] <= LayerPriority[l]
    <3>1. \A x \in found : LayerPriority[x] <= LayerPriority[top]
      BY <1>2, <2>6
    <3> QED
      BY <1>4, <2>4, <3>1
  <2>8. l = top
    <3>1. l \in S /\ l \in Layers
      BY <1>0, <1>2, <2>7 DEF S
    <3>2. ~Above(l, top) /\ ~Above(top, l)
      <4>1. LayerPriority[l] \in 0 .. 2 /\ LayerPriority[top] \in 0 .. 2
        BY <2>2, <3>1, Priorities
      <4> QED
        BY <2>1, <2>7, <3>1, <4>1 DEF Above
    <3> QED
      BY <2>2, <3>1, <3>2, Priorities
  <2>9. EntrySource = top
    BY <2>7, <2>8
  <2>10. \A x \in owners : LayerPriority[x] <= LayerPriority[EntrySource]
    BY <1>3, <2>6, <2>9
  <2> QED
    BY <2>5, <2>9, <2>10 DEF owners
<1> QED
  BY <1>5, <1>6

\* The source of the whole key is the strongest layer among those of the leaves
\* that survive, although the map of sources keeps the paths of values that
\* were replaced (effective.go, groupSnapshot).
THEOREM EntrySourceIsOwner == Spec => []EntrySourceSurvives
<1>1. KernelInv => EntrySourceSurvives
  BY StrongestIsSource DEF EntrySourceSurvives, HasNoEmpty
<1> QED
  BY <1>1, KernelAlways, PTL

-----------------------------------------------------------------------------
\* Properties texts.  The least and the greatest of a set of numbers.
LEMMA MinIs ==
  ASSUME NEW S \in SUBSET Nat, S # {}
  PROVE  Min(S) \in S /\ \A x \in S : Min(S) <= x
<1>1. \E n \in S : \A m \in S : n <= m
  BY LeastNumber
<1> QED
  BY <1>1 DEF Min

LEMMA MaxIs ==
  ASSUME NEW S \in SUBSET Nat, S # {}, NEW n \in Nat, \A x \in S : x <= n
  PROVE  Max(S) \in S /\ \A x \in S : x <= Max(S)
<1> DEFINE gaps == {d \in Nat : d <= n /\ n - d \in S}
<1>1. gaps # {}
  <2>1. PICK x \in S : TRUE
    OBVIOUS
  <2>2. n - x \in Nat /\ n - (n - x) = x /\ n - x <= n
    BY <2>1
  <2> QED
    BY <2>2
<1>2. PICK d \in gaps : \A e \in gaps : d <= e
  BY <1>1, LeastNumber
<1>3. \A x \in S : x <= n - d
  <2> SUFFICES ASSUME NEW x \in S PROVE x <= n - d
    OBVIOUS
  <2>1. n - x \in gaps
    <3>1. n - x \in Nat /\ n - (n - x) = x /\ n - x <= n
      OBVIOUS
    <3> QED
      BY <3>1
  <2> QED
    BY <1>2, <2>1
<1>4. \E m \in S : \A x \in S : m >= x
  BY <1>2, <1>3
<1>5. Max(S) \in S /\ \A x \in S : Max(S) >= x
  BY <1>4 DEF Max
<1> QED
  BY <1>5

-----------------------------------------------------------------------------
\* Trimming a part of a line, in places of the line: nothing is left of blanks,
\* and otherwise what is from the first to the last other character.
LEMMA TrimBlank ==
  ASSUME NEW S, NEW s \in Seq(S), NEW x \in 1 .. Len(s) + 1, NEW y \in 0 .. Len(s),
         \A i \in x .. y : s[i] = Blank
  PROVE  Trim(SubSeq(s, x, y)) = <<>> /\ TrimLeft(SubSeq(s, x, y)) = <<>>
<1> DEFINE t == SubSeq(s, x, y)
<1>1. \A i \in DOMAIN t : t[i] = Blank
  OBVIOUS
<1>2. Ink(t) = {}
  BY <1>1 DEF Ink
<1> QED
  BY <1>2 DEF Trim, TrimLeft

LEMMA TrimInk ==
  ASSUME NEW S, NEW s \in Seq(S), NEW x \in 1 .. Len(s) + 1, NEW y \in 0 .. Len(s),
         NEW p \in x .. y, NEW q \in p .. y, s[p] # Blank, s[q] # Blank,
         \A i \in x .. p - 1 : s[i] = Blank, \A i \in q + 1 .. y : s[i] = Blank
  PROVE  /\ Trim(SubSeq(s, x, y)) = SubSeq(s, p, q)
         /\ TrimLeft(SubSeq(s, x, y)) = SubSeq(s, p, y)
<1> DEFINE t == SubSeq(s, x, y)
           a == p - x + 1
           b == q - x + 1
<1>1. /\ t \in Seq(S) /\ Len(t) = y - x + 1 /\ DOMAIN t = 1 .. Len(t)
      /\ \A i \in 1 .. Len(t) : t[i] = s[x + i - 1]
  OBVIOUS
<1>2. /\ a \in Ink(t) /\ b \in Ink(t) /\ Ink(t) \subseteq Nat
      /\ \A i \in Ink(t) : a <= i /\ i <= b
  <2>1. a \in 1 .. Len(t) /\ b \in 1 .. Len(t) /\ t[a] = s[p] /\ t[b] = s[q]
    BY <1>1
  <2>2. ASSUME NEW i \in 1 .. Len(t), t[i] # Blank PROVE a <= i /\ i <= b
    <3>1. x + i - 1 \in x .. y /\ s[x + i - 1] # Blank
      BY <1>1, <2>2
    <3>2. ~(x + i - 1 < p) /\ ~(x + i - 1 > q)
      BY <3>1
    <3> QED
      BY <3>2
  <2> HIDE DEF t, a, b
  <2> QED
    BY <1>1, <2>1, <2>2 DEF Ink
<1>3. Min(Ink(t)) = a
  <2>1. Min(Ink(t)) \in Ink(t) /\ Min(Ink(t)) <= a
    BY <1>2, MinIs
  <2> HIDE DEF t
  <2> QED
    BY <1>2, <2>1
<1>4. Max(Ink(t)) = b
  <2>1. b \in Nat /\ \A i \in Ink(t) : i <= b
    BY <1>2
  <2>2. Max(Ink(t)) \in Ink(t) /\ b <= Max(Ink(t))
    BY <1>2, <2>1, MaxIs
  <2> HIDE DEF t
  <2> QED
    BY <1>2, <2>2
<1>5. Trim(t) = SubSeq(t, a, b) /\ TrimLeft(t) = SubSeq(t, a, Len(t))
  BY <1>2, <1>3, <1>4 DEF Trim, TrimLeft
<1>6. SubSeq(t, a, b) = SubSeq(s, p, q)
  OBVIOUS
<1>7. SubSeq(t, a, Len(t)) = SubSeq(s, p, y)
  OBVIOUS
<1> QED
  BY <1>5, <1>6, <1>7

\* A part of a line is blank or has a first and a last other character.
LEMMA InkBounds ==
  ASSUME NEW S, NEW s \in Seq(S), NEW x \in 1 .. Len(s) + 1, NEW y \in 0 .. Len(s)
  PROVE  \/ \A i \in x .. y : s[i] = Blank
         \/ \E p \in x .. y : \E q \in p .. y :
              /\ s[p] # Blank /\ s[q] # Blank
              /\ \A i \in x .. p - 1 : s[i] = Blank
              /\ \A i \in q + 1 .. y : s[i] = Blank
<1> DEFINE ink == {i \in x .. y : s[i] # Blank}
<1>1. SUFFICES ASSUME ink # {}
               PROVE  \E p \in x .. y : \E q \in p .. y :
                        /\ s[p] # Blank /\ s[q] # Blank
                        /\ \A i \in x .. p - 1 : s[i] = Blank
                        /\ \A i \in q + 1 .. y : s[i] = Blank
  OBVIOUS
<1>2. ink \in SUBSET Nat /\ \A i \in ink : i <= y
  OBVIOUS
<1>3. PICK p \in ink : \A i \in ink : p <= i
  BY <1>1, <1>2, LeastNumber
<1>4. PICK q \in ink : \A i \in ink : i <= q
  <2>1. y \in Nat /\ Max(ink) \in ink /\ \A i \in ink : i <= Max(ink)
    <3>1. y \in Nat
      OBVIOUS
    <3> QED
      BY <1>1, <1>2, <3>1, MaxIs
  <2> QED
    BY <2>1
<1>5. \A i \in x .. p - 1 : s[i] = Blank
  BY <1>3
<1>6. \A i \in q + 1 .. y : s[i] = Blank
  BY <1>4
<1>7. p \in x .. y /\ q \in p .. y /\ s[p] # Blank /\ s[q] # Blank
  BY <1>3, <1>4
<1> QED
  BY <1>5, <1>6, <1>7

\* What trimming a whole text leaves, and that trimming again changes nothing.
Trimmed(s) == s # <<>> => s[1] # Blank /\ s[Len(s)] # Blank

LEMMA TrimText ==
  ASSUME NEW S, NEW s \in Seq(S)
  PROVE  /\ Trim(s) \in Seq(S) /\ TrimLeft(s) \in Seq(S)
         /\ Trimmed(Trim(s))
         /\ \A i \in DOMAIN Trim(s) : \E j \in DOMAIN s : Trim(s)[i] = s[j]
         /\ Trimmed(s) => Trim(s) = s /\ TrimLeft(s) = s
         /\ Trim(TrimLeft(s)) = Trim(s)
         /\ Trim(s) = <<>> <=> \A i \in DOMAIN s : s[i] = Blank
<1>1. PICK n \in Nat : n = Len(s) /\ DOMAIN s = 1 .. n
  OBVIOUS
<1>2. s = SubSeq(s, 1, n) /\ 1 \in 1 .. Len(s) + 1 /\ n \in 0 .. Len(s)
  BY <1>1
<1>3. CASE \A i \in 1 .. n : s[i] = Blank
  <2>1. Trim(SubSeq(s, 1, n)) = <<>> /\ TrimLeft(SubSeq(s, 1, n)) = <<>>
    <3>1. 1 \in 1 .. Len(s) + 1 /\ n \in 0 .. Len(s)
      BY <1>2
    <3> QED
      BY <1>3, <3>1, TrimBlank
  <2>2. Trim(s) = <<>> /\ TrimLeft(s) = <<>>
    BY <1>2, <2>1
  <2>3. Trimmed(s) => s = <<>>
    BY <1>1, <1>3 DEF Trimmed
  <2>4. Trimmed(Trim(s)) /\ DOMAIN Trim(s) = {} /\ Trim(s) \in Seq(S) /\ TrimLeft(s) \in Seq(S)
    BY <2>2 DEF Trimmed
  <2>5. Trim(TrimLeft(s)) = Trim(s)
    <3>1. Ink(<<>>) = {}
      BY DEF Ink
    <3>2. Trim(<<>>) = <<>>
      BY <3>1 DEF Trim
    <3> QED
      BY <2>2, <3>2
  <2> QED
    BY <1>1, <1>3, <2>2, <2>3, <2>4, <2>5
<1>4. CASE ~ \A i \in 1 .. n : s[i] = Blank
  <2>1. PICK p \in 1 .. n : \E q \in p .. n :
              /\ s[p] # Blank /\ s[q] # Blank
              /\ \A i \in 1 .. p - 1 : s[i] = Blank
              /\ \A i \in q + 1 .. n : s[i] = Blank
    BY <1>2, <1>4, InkBounds
  <2>2. PICK q \in p .. n :
              /\ s[p] # Blank /\ s[q] # Blank
              /\ \A i \in 1 .. p - 1 : s[i] = Blank
              /\ \A i \in q + 1 .. n : s[i] = Blank
    BY <2>1
  <2>3. Trim(s) = SubSeq(s, p, q) /\ TrimLeft(s) = SubSeq(s, p, n)
    <3>1. 1 \in 1 .. Len(s) + 1 /\ n \in 0 .. Len(s)
      BY <1>2
    <3>2. Trim(SubSeq(s, 1, n)) = SubSeq(s, p, q) /\ TrimLeft(SubSeq(s, 1, n)) = SubSeq(s, p, n)
      BY <2>2, <3>1, TrimInk
    <3> QED
      BY <1>2, <3>2
  <2>4. /\ SubSeq(s, p, q) \in Seq(S) /\ Len(SubSeq(s, p, q)) = q - p + 1
        /\ \A i \in 1 .. q - p + 1 : SubSeq(s, p, q)[i] = s[p + i - 1] /\ p + i - 1 \in 1 .. n
        /\ SubSeq(s, p, n) \in Seq(S)
    BY <1>1
  <2>5. Trimmed(Trim(s)) /\ Trim(s) # <<>>
    <3>1. 1 \in 1 .. q - p + 1 /\ q - p + 1 \in 1 .. q - p + 1 /\ p + 1 - 1 = p /\ p + (q - p + 1) - 1 = q
      OBVIOUS
    <3>2. Trim(s)[1] = s[p] /\ Trim(s)[Len(Trim(s))] = s[q] /\ Len(Trim(s)) # 0
      BY <2>3, <2>4, <3>1
    <3> QED
      BY <2>2, <3>2 DEF Trimmed
  <2>6. \A i \in DOMAIN Trim(s) : \E j \in DOMAIN s : Trim(s)[i] = s[j]
    <3> DEFINE w == SubSeq(s, p, q)
    <3>1. DOMAIN w = 1 .. q - p + 1 /\ \A i \in 1 .. q - p + 1 : w[i] = s[p + i - 1]
      BY <1>1
    <3>2. \A i \in 1 .. q - p + 1 : p + i - 1 \in DOMAIN s
      BY <1>1, <2>4
    <3> HIDE DEF w
    <3>3. \A i \in DOMAIN w : \E j \in DOMAIN s : w[i] = s[j]
      BY <3>1, <3>2
    <3> QED
      BY <2>3, <3>3 DEF w
  <2>7. Trimmed(s) => p = 1 /\ q = n
    <3>1. p # 1 => s[1] = Blank
      BY <2>2
    <3>2. q # n => s[n] = Blank
      BY <2>2
    <3> QED
      BY <1>1, <3>1, <3>2 DEF Trimmed
  <2>8. Trim(SubSeq(s, p, n)) = SubSeq(s, p, q)
    <3>1. p \in 1 .. Len(s) + 1 /\ n \in 0 .. Len(s) /\ \A i \in p .. p - 1 : s[i] = Blank
      BY <1>1
    <3> QED
      BY <2>2, <3>1, TrimInk
  <2> QED
    BY <1>1, <1>2, <1>4, <2>3, <2>4, <2>5, <2>6, <2>7, <2>8
<1> QED
  BY <1>3, <1>4

-----------------------------------------------------------------------------
\* Lines.  A line goes from where it begins to the next newline or the end.
LEMMA LineAt ==
  ASSUME NEW S, NEW text \in Seq(S), NEW i \in 1 .. Len(text) + 1,
         NEW e \in i - 1 .. Len(text), \A j \in i .. e : text[j] # "\n",
         e < Len(text) => text[e + 1] = "\n"
  PROVE  Line(text, i) = SubSeq(text, i, e)
<1> DEFINE ends == {j \in i .. Len(text) : text[j] = "\n"}
<1>1. CASE e = Len(text)
  <2>1. ends = {}
    BY <1>1
  <2> QED
    BY <1>1, <2>1 DEF Line
<1>2. CASE e < Len(text)
  <2>1. e + 1 \in ends /\ ends \in SUBSET Nat
    BY <1>2
  <2>2. \A j \in ends : e + 1 <= j
    BY <1>2
  <2>3. Min(ends) = e + 1
    <3>1. Min(ends) \in ends /\ Min(ends) <= e + 1
      BY <2>1, MinIs
    <3>2. Min(ends) \in Nat /\ e + 1 <= Min(ends) /\ e + 1 \in Nat
      BY <2>1, <2>2, <3>1
    <3> HIDE DEF ends
    <3> QED
      BY <3>1, <3>2
  <2>4. ends # {} /\ Min(ends) - 1 = e
    BY <2>1, <2>3
  <2> QED
    BY <2>4 DEF Line
<1> QED
  BY <1>1, <1>2

LEMMA LineIs ==
  ASSUME NEW S, NEW text \in Seq(S), NEW i \in Starts(text)
  PROVE  /\ i \in 1 .. Len(text) + 1
         /\ \E e \in i - 1 .. Len(text) :
              /\ Line(text, i) = SubSeq(text, i, e)
              /\ \A j \in i .. e : text[j] # "\n"
              /\ e < Len(text) => text[e + 1] = "\n"
<1>1. i \in 1 .. Len(text) + 1
  BY DEF Starts
<1> DEFINE ends == {j \in i .. Len(text) : text[j] = "\n"}
<1>2. CASE ends = {}
  <2>1. /\ Len(text) \in i - 1 .. Len(text) /\ \A j \in i .. Len(text) : text[j] # "\n"
        /\ Line(text, i) = SubSeq(text, i, Len(text))
    BY <1>1, <1>2 DEF Line
  <2> QED
    BY <1>1, <2>1
<1>3. CASE ends # {}
  <2>1. PICK d \in ends : \A j \in ends : d <= j
    <3>1. ends \in SUBSET Nat
      BY <1>1
    <3> QED
      BY <1>3, <3>1, LeastNumber
  <2>2. /\ d - 1 \in i - 1 .. Len(text) /\ \A j \in i .. d - 1 : text[j] # "\n"
        /\ text[d - 1 + 1] = "\n"
    BY <1>1, <2>1
  <2>3. Line(text, i) = SubSeq(text, i, d - 1)
    BY <1>1, <2>2, LineAt
  <2> QED
    BY <1>1, <2>2, <2>3
<1> QED
  BY <1>2, <1>3

-----------------------------------------------------------------------------
\* The kernel's reader.  The blank is none of the separators.
LEMMA BlankIsNone ==
  Blank # "=" /\ Blank # ":" /\ Blank # "#" /\ Blank # "\\" /\ Blank # "\n"
BY Zenon DEF Blank

LEMMA TrimLeftInk ==
  ASSUME NEW S, NEW s \in Seq(S), NEW x \in 1 .. Len(s) + 1, NEW y \in 0 .. Len(s),
         NEW p \in x .. y, s[p] # Blank, \A i \in x .. p - 1 : s[i] = Blank
  PROVE  TrimLeft(SubSeq(s, x, y)) = SubSeq(s, p, y)
<1>1. ~ \A i \in x .. y : s[i] = Blank
  OBVIOUS
<1>2. PICK f \in x .. y : \E q \in f .. y :
            /\ s[f] # Blank /\ s[q] # Blank
            /\ \A i \in x .. f - 1 : s[i] = Blank
            /\ \A i \in q + 1 .. y : s[i] = Blank
  BY <1>1, InkBounds
<1>3. f = p
  <2>1. ~(f < p)
    BY <1>2
  <2>2. ~(p < f)
    BY <1>2
  <2> QED
    BY <2>1, <2>2
<1>4. TrimLeft(SubSeq(s, x, y)) = SubSeq(s, f, y)
  BY <1>2, TrimInk
<1> QED
  BY <1>3, <1>4

LEMMA DecodeAt ==
  ASSUME NEW S, NEW line \in Seq(S), NEW e \in 1 .. Len(line),
         line[e] \in {"=", ":"}, \A j \in 1 .. e - 1 : line[j] \notin {"=", ":"}
  PROVE  DecodeLine(line) = [key |-> Trim(SubSeq(line, 1, e - 1)),
                             val |-> Trim(SubSeq(line, e + 1, Len(line)))]
<1> DEFINE seps == {j \in DOMAIN line : line[j] \in {"=", ":"}}
<1>1. e \in seps /\ seps \in SUBSET Nat /\ \A j \in seps : e <= j
  OBVIOUS
<1>2. Min(seps) = e
  <2>1. Min(seps) \in seps /\ Min(seps) <= e
    BY <1>1, MinIs
  <2>2. Min(seps) \in Nat /\ e <= Min(seps)
    BY <1>1, <2>1
  <2> HIDE DEF seps
  <2> QED
    BY <2>1, <2>2
<1>3. seps # {}
  BY <1>1
<1>4. DecodeLine(line) = IF seps = {} THEN [key |-> Trim(line), val |-> <<>>]
                         ELSE [key |-> Trim(SubSeq(line, 1, Min(seps) - 1)),
                               val |-> Trim(SubSeq(line, Min(seps) + 1, Len(line)))]
  BY DEF DecodeLine
<1> HIDE DEF seps
<1> QED
  BY <1>2, <1>3, <1>4

\* The first of the separators, or none.
LEMMA DecodeIs ==
  ASSUME NEW S, NEW line \in Seq(S)
  PROVE  \/ /\ \A j \in 1 .. Len(line) : line[j] \notin {"=", ":"}
            /\ DecodeLine(line) = [key |-> Trim(line), val |-> <<>>]
         \/ \E e \in 1 .. Len(line) :
              /\ line[e] \in {"=", ":"} /\ \A j \in 1 .. e - 1 : line[j] \notin {"=", ":"}
              /\ DecodeLine(line) = [key |-> Trim(SubSeq(line, 1, e - 1)),
                                     val |-> Trim(SubSeq(line, e + 1, Len(line)))]
<1> DEFINE seps == {j \in DOMAIN line : line[j] \in {"=", ":"}}
<1>1. CASE seps = {}
  <2>1. DecodeLine(line) = [key |-> Trim(line), val |-> <<>>]
    BY <1>1 DEF DecodeLine
  <2>2. \A j \in 1 .. Len(line) : line[j] \notin {"=", ":"}
    BY <1>1
  <2> QED
    BY <2>1, <2>2
<1>2. CASE seps # {}
  <2>1. seps \in SUBSET Nat
    OBVIOUS
  <2>2. PICK e \in seps : \A j \in seps : e <= j
    BY <1>2, <2>1, LeastNumber
  <2>3. /\ e \in 1 .. Len(line) /\ line[e] \in {"=", ":"}
        /\ \A j \in 1 .. e - 1 : line[j] \notin {"=", ":"}
    BY <2>2
  <2>4. DecodeLine(line) = [key |-> Trim(SubSeq(line, 1, e - 1)),
                            val |-> Trim(SubSeq(line, e + 1, Len(line)))]
    BY <2>3, DecodeAt
  <2> QED
    BY <2>3, <2>4
<1> QED
  BY <1>1, <1>2

\* What the reader can make of a line, and the writer can write: neither a
\* separator nor a newline in a key, no comment sign before it, no newline in a
\* value, no blanks around either.
WrittenKey(k) ==
  /\ k \in Seq(Chars) /\ Trimmed(k)
  /\ \A i \in DOMAIN k : k[i] \notin {"=", ":", "\n"}
  /\ k # <<>> => k[1] # "#"
WrittenVal(v) ==
  /\ v \in Seq(Chars) /\ Trimmed(v)
  /\ \A i \in DOMAIN v : v[i] # "\n"

LEMMA HeadIs ==
  ASSUME NEW S, NEW t \in Seq(S), Len(t) # 0
  PROVE  t # <<>> /\ Head(t) = t[1]
OBVIOUS

\* A line that is no comment does not begin with the sign.
LEMMA ContentStart ==
  ASSUME NEW S, NEW line \in Seq(S), IsContent(line)
  PROVE  \E p \in 1 .. Len(line) :
           /\ line[p] # Blank /\ line[p] # "#" /\ \A i \in 1 .. p - 1 : line[i] = Blank
           /\ TrimLeft(line) = SubSeq(line, p, Len(line))
<1>1. PICK n \in Nat : n = Len(line) /\ DOMAIN line = 1 .. n
  OBVIOUS
<1>2. SubSeq(line, 1, n) = line /\ 1 \in 1 .. Len(line) + 1 /\ n \in 0 .. Len(line)
  BY <1>1
<1>3. ~ \A i \in 1 .. n : line[i] = Blank
  BY <1>1, TrimText DEF IsContent
<1>4. PICK p \in 1 .. n : /\ line[p] # Blank
                          /\ \A i \in 1 .. p - 1 : line[i] = Blank
  <2>1. \E f \in 1 .. n : \E q \in f .. n :
           /\ line[f] # Blank /\ line[q] # Blank
           /\ \A i \in 1 .. f - 1 : line[i] = Blank
           /\ \A i \in q + 1 .. n : line[i] = Blank
    BY <1>2, <1>3, InkBounds
  <2> QED
    BY <2>1
<1>5. TrimLeft(SubSeq(line, 1, n)) = SubSeq(line, p, n)
  BY <1>2, <1>4, TrimLeftInk
<1>6. SubSeq(line, p, n) # <<>> /\ Head(SubSeq(line, p, n)) = line[p]
  <2>1. /\ SubSeq(line, p, n) \in Seq(S) /\ Len(SubSeq(line, p, n)) = n - p + 1
        /\ SubSeq(line, p, n)[1] = line[p]
    BY <1>1
  <2>2. Len(SubSeq(line, p, n)) # 0
    BY <2>1
  <2> QED
    BY <2>1, <2>2, HeadIs
<1>7. line[p] # "#"
  BY <1>2, <1>5, <1>6 DEF IsContent, StartsWith
<1> QED
  BY <1>1, <1>2, <1>4, <1>5, <1>7

LEMMA DecodeLineWritten ==
  ASSUME NEW line \in Seq(Chars), IsContent(line), \A j \in DOMAIN line : line[j] # "\n"
  PROVE  WrittenKey(DecodeLine(line).key) /\ WrittenVal(DecodeLine(line).val)
<1>1. PICK n \in Nat : n = Len(line) /\ DOMAIN line = 1 .. n
  OBVIOUS
<1>2. PICK p \in 1 .. n : /\ line[p] # Blank /\ line[p] # "#"
                          /\ \A i \in 1 .. p - 1 : line[i] = Blank
  BY <1>1, ContentStart
<1>3. ASSUME NEW y \in 0 .. n, \A j \in 1 .. y : line[j] \notin {"=", ":"}
      PROVE  WrittenKey(Trim(SubSeq(line, 1, y)))
  <2> DEFINE s == SubSeq(line, 1, y)
             k == Trim(s)
  <2>1. /\ s \in Seq(Chars) /\ DOMAIN s = 1 .. y
        /\ \A j \in DOMAIN s : s[j] \notin {"=", ":", "\n"}
    BY <1>1, <1>3
  <2> HIDE DEF s
  <2>2. /\ k \in Seq(Chars) /\ Trimmed(k)
        /\ \A i \in DOMAIN k : \E j \in DOMAIN s : k[i] = s[j]
        /\ k = <<>> <=> \A i \in DOMAIN s : s[i] = Blank
    BY <2>1, TrimText
  <2>3. k # <<>> => k[1] # "#"
    <3> SUFFICES ASSUME k # <<>> PROVE k[1] # "#"
      OBVIOUS
    <3>1. y \in 0 .. Len(line) /\ 1 \in 1 .. Len(line) + 1
      BY <1>1
    <3>2. ~ \A i \in 1 .. y : line[i] = Blank
      BY <1>1, <2>1, <2>2 DEF s
    <3>3. p \in 1 .. y
      BY <1>2, <3>2
    <3>4. PICK f \in 1 .. y : \E q \in f .. y :
            /\ line[f] # Blank /\ line[q] # Blank
            /\ \A i \in 1 .. f - 1 : line[i] = Blank
            /\ \A i \in q + 1 .. y : line[i] = Blank
      BY <3>1, <3>2, InkBounds
    <3>5. PICK q \in f .. y :
            /\ line[f] # Blank /\ line[q] # Blank
            /\ \A i \in 1 .. f - 1 : line[i] = Blank
            /\ \A i \in q + 1 .. y : line[i] = Blank
      BY <3>4
    <3>6. f = p
      <4>1. ~(f < p)
        BY <1>2, <3>5
      <4>2. ~(p < f)
        BY <1>2, <3>5
      <4> QED
        BY <4>1, <4>2
    <3>7. Trim(SubSeq(line, 1, y)) = SubSeq(line, f, q)
      BY <3>1, <3>5, TrimInk
    <3>8. SubSeq(line, f, q)[1] = line[f]
      BY <1>1
    <3> QED
      BY <1>2, <3>6, <3>7, <3>8 DEF s
  <2> HIDE DEF k
  <2>4. \A i \in DOMAIN k : k[i] \notin {"=", ":", "\n"}
    BY <2>1, <2>2
  <2>5. WrittenKey(k)
    BY <2>2, <2>3, <2>4 DEF WrittenKey
  <2> QED
    BY <2>5 DEF k, s
<1>4. ASSUME NEW x \in 1 .. n + 1 PROVE WrittenVal(Trim(SubSeq(line, x, n)))
  <2> DEFINE s == SubSeq(line, x, n)
             v == Trim(s)
  <2>1. s \in Seq(Chars) /\ \A j \in DOMAIN s : s[j] # "\n"
    BY <1>1
  <2> HIDE DEF s
  <2>2. /\ v \in Seq(Chars) /\ Trimmed(v)
        /\ \A i \in DOMAIN v : \E j \in DOMAIN s : v[i] = s[j]
    BY <2>1, TrimText
  <2> HIDE DEF v
  <2>3. WrittenVal(v)
    BY <2>1, <2>2 DEF WrittenVal
  <2> QED
    BY <2>3 DEF v, s
<1>5. WrittenVal(<<>>)
  BY DEF WrittenVal, Trimmed
<1>6. CASE /\ \A j \in 1 .. n : line[j] \notin {"=", ":"}
           /\ DecodeLine(line) = [key |-> Trim(line), val |-> <<>>]
  <2>1. n \in 0 .. n /\ SubSeq(line, 1, n) = line
    BY <1>1
  <2>2. WrittenKey(Trim(SubSeq(line, 1, n)))
    BY <1>3, <1>6, <2>1
  <2> QED
    <3>1. WrittenKey(Trim(line))
      BY <2>1, <2>2
    <3> QED
      BY <1>5, <1>6, <3>1
<1>7. ASSUME NEW e \in 1 .. n,
             \A j \in 1 .. e - 1 : line[j] \notin {"=", ":"},
             DecodeLine(line) = [key |-> Trim(SubSeq(line, 1, e - 1)),
                                 val |-> Trim(SubSeq(line, e + 1, n))]
      PROVE  WrittenKey(DecodeLine(line).key) /\ WrittenVal(DecodeLine(line).val)
  <2>1. e - 1 \in 0 .. n /\ e + 1 \in 1 .. n + 1
    OBVIOUS
  <2>2. WrittenKey(Trim(SubSeq(line, 1, e - 1))) /\ WrittenVal(Trim(SubSeq(line, e + 1, n)))
    BY <1>3, <1>4, <1>7, <2>1
  <2> QED
    BY <1>7, <2>2
<1> QED
  BY <1>1, <1>6, <1>7, DecodeIs

-----------------------------------------------------------------------------
\* The writer.  Putting texts together, by place.
LEMMA Joined ==
  ASSUME NEW S, NEW a \in Seq(S), NEW b \in Seq(S)
  PROVE  /\ a \o b \in Seq(S) /\ Len(a \o b) = Len(a) + Len(b)
         /\ DOMAIN (a \o b) = 1 .. Len(a) + Len(b)
         /\ \A i \in 1 .. Len(a) : (a \o b)[i] = a[i]
         /\ \A i \in Len(a) + 1 .. Len(a) + Len(b) : (a \o b)[i] = b[i - Len(a)]
         /\ \A i \in 1 .. Len(b) : (a \o b)[Len(a) + i] = b[i]
OBVIOUS

LEMMA OneSign ==
  /\ <<"=">> \in Seq(Chars) /\ Len(<<"=">>) = 1 /\ <<"=">>[1] = "="
  /\ <<"\n">> \in Seq(Chars) /\ Len(<<"\n">>) = 1 /\ <<"\n">>[1] = "\n"
BY TextsAssumption

\* A written line, by place: the key, the sign, the value.
Places(line, k, v, m, n) ==
  /\ m = Len(k) /\ n = m + 1 + Len(v)
  /\ line \in Seq(Chars) /\ Len(line) = n /\ DOMAIN line = 1 .. n /\ m + 1 \in 1 .. n
  /\ \A i \in 1 .. m : line[i] = k[i]
  /\ line[m + 1] = "="
  /\ \A i \in m + 2 .. n : line[i] = v[i - m - 1]
  /\ SubSeq(line, 1, m) = k /\ SubSeq(line, m + 2, n) = v

LEMMA LinePlaces ==
  ASSUME NEW k \in Seq(Chars), NEW v \in Seq(Chars), NEW line, line = k \o <<"=">> \o v
  PROVE  \E m, n \in Nat : Places(line, k, v, m, n)
<1>1. PICK m, n \in Nat : m = Len(k) /\ n = m + 1 + Len(v)
  OBVIOUS
<1> DEFINE c == k \o <<"=">>
<1>2. /\ c \in Seq(Chars) /\ Len(c) = m + 1 /\ c[m + 1] = "="
      /\ \A i \in 1 .. m : c[i] = k[i]
  <2>1. c \in Seq(Chars) /\ Len(c) = m + 1 /\ \A i \in 1 .. m : c[i] = k[i]
    BY OneSign, Joined, <1>1
  <2>2. 1 \in 1 .. Len(<<"=">>) /\ c[Len(k) + 1] = <<"=">>[1]
    BY OneSign, Joined, <1>1
  <2> QED
    BY <2>1, <2>2, OneSign, <1>1
<1>3. line = c \o v
  OBVIOUS
<1> HIDE DEF c
<1>4. line \in Seq(Chars) /\ Len(line) = n /\ DOMAIN line = 1 .. n /\ m + 1 \in 1 .. n
  <2>1. /\ c \o v \in Seq(Chars) /\ Len(c \o v) = Len(c) + Len(v)
        /\ DOMAIN (c \o v) = 1 .. Len(c) + Len(v)
    BY <1>2, Joined, <1>1
  <2>2. m + 1 \in 1 .. n /\ Len(c) + Len(v) = n
    BY <1>2, <1>1
  <2> QED
    BY <2>1, <2>2, <1>3, <1>1
<1>5. \A i \in 1 .. m : line[i] = k[i]
  <2>1. \A i \in 1 .. Len(c) : (c \o v)[i] = c[i]
    BY <1>2, Joined, <1>1
  <2> QED
    BY <1>2, <2>1, <1>3, <1>1
<1>6. line[m + 1] = "="
  <2>1. \A i \in 1 .. Len(c) : (c \o v)[i] = c[i]
    BY <1>2, Joined, <1>1
  <2> QED
    BY <1>2, <2>1, <1>3, <1>1
<1>7. \A i \in m + 2 .. n : line[i] = v[i - m - 1]
  <2>1. ASSUME NEW i \in m + 2 .. n PROVE (c \o v)[i] = v[i - (m + 1)]
    <3>1. i \in Len(c) + 1 .. Len(c) + Len(v)
      BY <1>2, <1>1
    <3> QED
      BY <1>2, <3>1, Joined
  <2>2. \A i \in m + 2 .. n : i - (m + 1) = i - m - 1
    OBVIOUS
  <2> QED
    BY <2>1, <2>2, <1>3, <1>1
<1>8. SubSeq(line, 1, m) = k
  BY <1>4, <1>5, <1>1
<1>9. SubSeq(line, m + 2, n) = v
  BY <1>4, <1>7, <1>1
<1> QED
  BY <1>4, <1>5, <1>6, <1>7, <1>8, <1>9, <1>1 DEF Places

\* A written line is no comment and reads back.
LEMMA LineWritten ==
  ASSUME NEW k, NEW v, WrittenKey(k), WrittenVal(v)
  PROVE  LET line == k \o <<"=">> \o v
         IN  /\ line \in Seq(Chars) /\ \A i \in DOMAIN line : line[i] # "\n"
             /\ TrimLeft(line) = line /\ IsContent(line)
             /\ DecodeLine(line) = [key |-> k, val |-> v]
<1> DEFINE line == k \o <<"=">> \o v
<1>1. k \in Seq(Chars) /\ v \in Seq(Chars)
  BY DEF WrittenKey, WrittenVal
<1>2. line = k \o <<"=">> \o v
  OBVIOUS
<1> HIDE DEF line
<1>3. PICK m, n \in Nat : Places(line, k, v, m, n)
  BY <1>2, <1>1, LinePlaces
<1>4. /\ m = Len(k) /\ n = m + 1 + Len(v)
      /\ line \in Seq(Chars) /\ Len(line) = n /\ DOMAIN line = 1 .. n /\ m + 1 \in 1 .. n
      /\ \A i \in 1 .. m : line[i] = k[i]
      /\ line[m + 1] = "="
      /\ \A i \in m + 2 .. n : line[i] = v[i - m - 1]
      /\ SubSeq(line, 1, m) = k /\ SubSeq(line, m + 2, n) = v
  BY <1>3 DEF Places
<1>5. \A i \in 1 .. n : line[i] # "\n"
  <2>1. \A i \in 1 .. m : k[i] # "\n"
    BY <1>1, <1>4 DEF WrittenKey
  <2>2. \A i \in m + 2 .. n : i - m - 1 \in 1 .. Len(v)
    BY <1>1, <1>4
  <2>3. \A i \in m + 2 .. n : v[i - m - 1] # "\n"
    BY <1>1, <2>2 DEF WrittenVal
  <2>4. ASSUME NEW i \in 1 .. n PROVE i \in 1 .. m \/ i = m + 1 \/ i \in m + 2 .. n
    OBVIOUS
  <2> QED
    BY <1>4, <2>1, <2>3, <2>4
<1>6. line[1] # Blank /\ line[1] # "#"
  <2>1. CASE m = 0
    BY <1>4, <2>1, BlankIsNone
  <2>2. CASE m # 0
    <3>1. 1 \in 1 .. m /\ k # <<>>
      BY <1>1, <1>4, <2>2
    <3> QED
      BY <1>4, <3>1 DEF WrittenKey, Trimmed
  <2> QED
    BY <2>1, <2>2
<1>7. TrimLeft(line) = line
  <2>1. /\ 1 \in 1 .. Len(line) + 1 /\ n \in 0 .. Len(line) /\ 1 \in 1 .. n
        /\ \A i \in 1 .. 1 - 1 : line[i] = Blank
        /\ SubSeq(line, 1, n) = line
    BY <1>4
  <2>2. TrimLeft(SubSeq(line, 1, n)) = SubSeq(line, 1, n)
    BY <1>4, <1>6, <2>1, TrimLeftInk
  <2> QED
    BY <2>1, <2>2
<1>8. IsContent(line)
  <2>1. 1 \in DOMAIN line
    BY <1>4
  <2>2. Trim(line) # <<>>
    BY <1>4, <1>6, <2>1, TrimText
  <2>3. Head(line) # "#"
    BY <1>4, <1>6, HeadIs
  <2> QED
    BY <1>7, <2>2, <2>3 DEF IsContent, StartsWith
<1>9. DecodeLine(line) = [key |-> k, val |-> v]
  <2>1. \A j \in 1 .. m : line[j] \notin {"=", ":"}
    BY <1>1, <1>4 DEF WrittenKey
  <2>2. PICK e \in 1 .. Len(line) : e = m + 1
    BY <1>4
  <2>3. /\ line \in Seq(Chars) /\ line[e] \in {"=", ":"}
        /\ \A j \in 1 .. e - 1 : line[j] \notin {"=", ":"}
    BY <1>4, <2>1, <2>2
  <2>4. DecodeLine(line) = [key |-> Trim(SubSeq(line, 1, e - 1)),
                            val |-> Trim(SubSeq(line, e + 1, Len(line)))]
    BY <2>3, DecodeAt
  <2>5. e - 1 = m /\ e + 1 = m + 2 /\ Len(line) = n
    BY <1>4, <2>2
  <2>6. Trim(k) = k /\ Trim(v) = v
    BY <1>1, TrimText DEF WrittenKey, WrittenVal
  <2> QED
    BY <1>4, <2>4, <2>6, <2>5
<1> QED
  BY <1>4, <1>5, <1>7, <1>8, <1>9 DEF line

\* A text made of whole lines.
Ended(t) == t # <<>> => t[Len(t)] = "\n"

\* A line put behind whole lines leaves them and is the next one.
LEMMA LineAppended ==
  ASSUME NEW t \in Seq(Chars), Ended(t), NEW u \in Seq(Chars),
         \A i \in DOMAIN u : u[i] # "\n"
  PROVE  LET t2 == t \o u \o <<"\n">>
         IN  /\ t2 \in Seq(Chars) /\ Ended(t2) /\ Len(t2) > Len(t)
             /\ Starts(t2) = Starts(t) \union {Len(t2) + 1}
             /\ Len(t) + 1 \in Starts(t) /\ Line(t2, Len(t) + 1) = u
             /\ \A i \in Starts(t) : i <= Len(t) => Line(t2, i) = Line(t, i)
<1> DEFINE t2 == t \o u \o <<"\n">>
<1>1. PICK a \in Nat : a = Len(t) /\ DOMAIN t = 1 .. a
  OBVIOUS
<1>2. PICK b \in Nat : b = a + Len(u) + 1
  BY <1>1
<1>3. /\ t2 \in Seq(Chars) /\ Len(t2) = b /\ DOMAIN t2 = 1 .. b /\ b > a
      /\ \A i \in 1 .. a : t2[i] = t[i]
      /\ \A i \in a + 1 .. b - 1 : t2[i] = u[i - a]
      /\ t2[b] = "\n"
      /\ SubSeq(t2, a + 1, b - 1) = u
  <2> DEFINE c == t \o u
  <2>1. /\ c \in Seq(Chars) /\ Len(c) = b - 1
        /\ \A i \in 1 .. a : c[i] = t[i]
        /\ \A i \in a + 1 .. b - 1 : c[i] = u[i - a]
    <3>1. c \in Seq(Chars) /\ Len(c) = Len(t) + Len(u)
      BY Joined
    <3>2. \A i \in 1 .. Len(t) : c[i] = t[i]
      BY Joined
    <3>3. \A i \in Len(t) + 1 .. Len(t) + Len(u) : c[i] = u[i - Len(t)]
      BY Joined
    <3>4. Len(t) + Len(u) = b - 1
      BY <1>1, <1>2
    <3> HIDE DEF c
    <3> QED
      BY <1>1, <3>1, <3>2, <3>3, <3>4
  <2> HIDE DEF c
  <2>2. t2 \in Seq(Chars) /\ Len(t2) = b /\ DOMAIN t2 = 1 .. b /\ b > a
    <3>1. /\ c \o <<"\n">> \in Seq(Chars) /\ Len(c \o <<"\n">>) = b - 1 + 1
          /\ DOMAIN (c \o <<"\n">>) = 1 .. b - 1 + 1
      BY <2>1, OneSign, Joined
    <3>2. b - 1 + 1 = b /\ b > a
      BY <1>1, <1>2
    <3> QED
      BY <3>1, <3>2 DEF c
  <2>3. \A i \in 1 .. b - 1 : t2[i] = c[i]
    <3>1. \A i \in 1 .. b - 1 : (c \o <<"\n">>)[i] = c[i]
      BY <2>1, OneSign, Joined
    <3> QED
      BY <3>1 DEF c
  <2>4. \A i \in a + 1 .. b - 1 : t2[i] = u[i - a]
    BY <1>1, <1>2, <2>1, <2>3
  <2>5. t2[b] = "\n"
    <3>1. 1 \in 1 .. Len(<<"\n">>)
      BY OneSign
    <3>2. (c \o <<"\n">>)[Len(c) + 1] = <<"\n">>[1]
      BY <2>1, <3>1, OneSign, Joined
    <3>3. Len(c) + 1 = b
      BY <2>1, <1>2
    <3> QED
      BY <3>2, <3>3, OneSign DEF c
  <2>6. \A i \in 1 .. a : t2[i] = t[i]
    BY <1>1, <1>2, <2>1, <2>3
  <2> HIDE DEF t2
  <2>7. SubSeq(t2, a + 1, b - 1) = u
    BY <1>1, <1>2, <2>2, <2>4
  <2> QED
    BY <2>2, <2>4, <2>5, <2>7, <2>6
<1> HIDE DEF t2
<1>4. \A i \in a + 1 .. b - 1 : t2[i] # "\n"
  <2>1. \A i \in a + 1 .. b - 1 : i - a \in DOMAIN u
    BY <1>2
  <2> QED
    BY <1>3, <2>1
<1>5. Ended(t2)
  BY <1>3 DEF Ended
<1>6. a + 1 \in Starts(t)
  <2>1. CASE t = <<>>
    BY <1>1, <2>1 DEF Starts
  <2>2. CASE t # <<>>
    BY <1>1, <2>2 DEF Starts, Ended
  <2> QED
    BY <2>1, <2>2
<1>7. Starts(t2) = Starts(t) \union {b + 1}
  <2>1. {j \in DOMAIN t2 : t2[j] = "\n"} = {j \in DOMAIN t : t[j] = "\n"} \union {b}
    BY <1>1, <1>3, <1>4
  <2> QED
    BY <2>1 DEF Starts
<1>8. Line(t2, a + 1) = u
  <2>1. PICK x \in Nat, e \in Nat : x = a + 1 /\ e = b - 1
    BY <1>1, <1>2
  <2>2. /\ x \in 1 .. Len(t2) + 1 /\ e \in x - 1 .. Len(t2)
        /\ \A j \in x .. e : t2[j] # "\n"
        /\ e < Len(t2) => t2[e + 1] = "\n"
    BY <1>1, <1>2, <1>3, <1>4, <2>1
  <2>3. Line(t2, x) = SubSeq(t2, x, e)
    BY <1>3, <2>2, LineAt
  <2> QED
    BY <1>3, <2>1, <2>3
<1>9. ASSUME NEW i \in Starts(t), i <= a PROVE Line(t2, i) = Line(t, i)
  <2>1. PICK e \in i - 1 .. Len(t) :
              /\ Line(t, i) = SubSeq(t, i, e)
              /\ \A j \in i .. e : t[j] # "\n"
              /\ e < Len(t) => t[e + 1] = "\n"
    BY LineIs
  <2>2. i \in 1 .. Len(t) + 1
    BY LineIs
  <2>3. e # a
    <3>1. SUFFICES ASSUME e = a PROVE FALSE
      OBVIOUS
    <3>2. a \in i .. e /\ t # <<>>
      BY <1>1, <1>9, <2>2, <3>1
    <3> QED
      BY <1>1, <2>1, <3>2 DEF Ended
  <2>4. /\ i \in 1 .. Len(t2) + 1 /\ e \in i - 1 .. Len(t2) /\ \A j \in i .. e : t2[j] # "\n"
        /\ e < Len(t2) => t2[e + 1] = "\n"
    <3>1. i \in Nat /\ i >= 1 /\ e \in Nat /\ e < a /\ i - 1 <= e
      BY <1>1, <2>1, <2>2, <2>3
    <3>2. t[e + 1] = "\n" /\ t2[e + 1] = t[e + 1]
      BY <1>1, <1>3, <2>1, <3>1
    <3>3. \A j \in i .. e : t2[j] = t[j]
      BY <1>1, <1>3, <3>1
    <3> QED
      BY <1>1, <1>3, <2>1, <3>1, <3>2, <3>3
  <2>5. Line(t2, i) = SubSeq(t2, i, e)
    BY <1>3, <2>4, LineAt
  <2>6. SubSeq(t2, i, e) = SubSeq(t, i, e)
    <3>1. i \in Nat /\ i >= 1 /\ e \in Nat /\ e <= a
      BY <1>1, <2>1, <2>2
    <3> QED
      BY <1>1, <1>3, <3>1
  <2> QED
    BY <2>1, <2>5, <2>6
<1> QED
  BY <1>1, <1>3, <1>5, <1>6, <1>7, <1>8, <1>9 DEF t2

-----------------------------------------------------------------------------
\* The keys of a finite map in a sequence, each once.
LEMMA KeysListed ==
  ASSUME NEW D, IsFiniteSet(D)
  PROVE  \E N \in Nat : /\ SetToSeq(D) \in [1 .. N -> D] /\ Len(SetToSeq(D)) = N
                        /\ \A i, j \in 1 .. N : SetToSeq(D)[i] = SetToSeq(D)[j] => i = j
                        /\ \A k \in D : \E i \in 1 .. N : SetToSeq(D)[i] = k
<1>1. PICK N \in Nat : N = Cardinality(D)
  BY FS_CardinalityType
<1>2. PICK f \in Bijection(1 .. N, D) : TRUE
  BY <1>1, FS_CardinalityType DEF ExistsBijection
<1>3. f \in [1 .. N -> D] /\ IsInjective(f)
  BY <1>2 DEF Bijection, Injection
<1> DEFINE ks == SetToSeq(D)
<1>4. ks \in [1 .. N -> D] /\ IsInjective(ks)
  BY <1>1, <1>3 DEF SetToSeq
<1> HIDE DEF ks
<1>5. IsFiniteSet(1 .. N) /\ Cardinality(1 .. N) = N
  BY FS_Interval
<1>6. ks \in Surjection(1 .. N, D)
  <2>1. ks \in Injection(1 .. N, D)
    BY <1>4 DEF Injection
  <2> QED
    BY <1>1, <1>5, <2>1, FS_Injection
<1>7. Len(ks) = N
  BY <1>4
<1>8. \A k \in D : \E i \in 1 .. N : ks[i] = k
  BY <1>6 DEF Surjection
<1>9. \A i, j \in 1 .. N : ks[i] = ks[j] => i = j
  BY <1>4 DEF IsInjective
<1> QED
  BY <1>4, <1>7, <1>8, <1>9 DEF ks

\* What the writer is given, and the line it writes of a key.
WrittenMap(map) ==
  /\ map = [k \in DOMAIN map |-> map[k]] /\ IsFiniteSet(DOMAIN map)
  /\ \A k \in DOMAIN map : WrittenKey(k) /\ WrittenVal(map[k])
LineOf(map, k) == k \o <<"=">> \o map[k]

\* The buffer after n keys.
Buffer(map, ks, N, buf) ==
  buf = [n \in 0 .. N |->
           IF n = 0 THEN <<>>
           ELSE buf[n - 1] \o ks[n] \o <<"=">> \o map[ks[n]] \o <<"\n">>]

LEMMA BufferExists ==
  ASSUME NEW map, NEW ks, NEW N \in Nat
  PROVE  \E buf : Buffer(map, ks, N, buf)
<1> DEFINE good == {n \in 0 .. N : \E buf : Buffer(map, ks, n, buf)}
<1>1. 0 \in good
  <2> DEFINE b == [n \in 0 .. 0 |-> <<>>]
  <2>1. Buffer(map, ks, 0, b)
    BY DEF Buffer
  <2> QED
    BY <2>1
<1>2. ASSUME NEW p \in 0 .. N - 1, p \in good PROVE p + 1 \in good
  <2>1. PICK b : Buffer(map, ks, p, b)
    BY <1>2
  <2> DEFINE new == b[p] \o ks[p + 1] \o <<"=">> \o map[ks[p + 1]] \o <<"\n">>
             c == [n \in 0 .. p + 1 |-> IF n <= p THEN b[n] ELSE new]
  <2>2. \A n \in 0 .. p + 1 : n > 0 => n - 1 \in 0 .. p /\ c[n - 1] = b[n - 1]
    OBVIOUS
  <2>3. ASSUME NEW n \in 0 .. p, n # 0
        PROVE  b[n] = b[n - 1] \o ks[n] \o <<"=">> \o map[ks[n]] \o <<"\n">>
    <3> HIDE DEF new, c
    <3>1. b[n] = [m \in 0 .. p |->
                   IF m = 0 THEN <<>>
                   ELSE b[m - 1] \o ks[m] \o <<"=">> \o map[ks[m]] \o <<"\n">>][n]
      BY <2>1, Zenon DEF Buffer
    <3> QED
      BY <2>3, <3>1
  <2>4. ASSUME NEW n \in 0 .. p + 1
        PROVE  c[n] = IF n = 0 THEN <<>>
                      ELSE c[n - 1] \o ks[n] \o <<"=">> \o map[ks[n]] \o <<"\n">>
    <3>1. CASE n = 0
      <4>1. c[n] = b[0]
        BY <3>1
      <4>2. b[0] = <<>>
        BY <2>1 DEF Buffer
      <4> QED
        BY <3>1, <4>1, <4>2
    <3>2. CASE n \in 1 .. p
      <4>1. c[n] = b[n] /\ c[n - 1] = b[n - 1] /\ n # 0 /\ n \in 0 .. p
        BY <2>2, <3>2
      <4>2. b[n] = b[n - 1] \o ks[n] \o <<"=">> \o map[ks[n]] \o <<"\n">>
        <5> HIDE DEF c
        <5> QED
          BY <2>3, <4>1
      <4> HIDE DEF c
      <4> QED
        BY <4>1, <4>2
    <3>3. CASE n = p + 1
      <4>1. n # 0 /\ ~(n <= p) /\ n - 1 = p
        BY <3>3
      <4>2. c[n] = new
        <5> HIDE DEF new
        <5> QED
          BY <4>1
      <4>3. c[n - 1] = b[p]
        BY <2>2, <3>3, <4>1
      <4> HIDE DEF c
      <4> QED
        BY <3>3, <4>1, <4>2, <4>3
    <3> QED
      BY <3>1, <3>2, <3>3
  <2>5. DOMAIN c = 0 .. p + 1 /\ c = [n \in 0 .. p + 1 |-> c[n]]
    OBVIOUS
  <2> HIDE DEF c
  <2>6. Buffer(map, ks, p + 1, c)
    BY <2>4, <2>5 DEF Buffer
  <2> QED
    BY <2>6
<1>3. N \in 0 .. N /\ N \in good
  <2>1. \A p \in 0 .. N : p \in good
    <3> HIDE DEF good
    <3> QED
      BY <1>1, <1>2, Upward
  <2> QED
    BY <2>1
<1> QED
  BY <1>3

LEMMA EncodeIs ==
  ASSUME NEW map, WrittenMap(map)
  PROVE  \E N \in Nat : \E ks \in [1 .. N -> DOMAIN map] : \E buf :
           /\ \A i, j \in 1 .. N : ks[i] = ks[j] => i = j
           /\ \A k \in DOMAIN map : \E i \in 1 .. N : ks[i] = k
           /\ Buffer(map, ks, N, buf)
           /\ EncodeProperties(map) = buf[N]
<1> DEFINE ks == SetToSeq(DOMAIN map)
<1>1. PICK N \in Nat : /\ ks \in [1 .. N -> DOMAIN map] /\ Len(ks) = N
                       /\ \A i, j \in 1 .. N : ks[i] = ks[j] => i = j
                       /\ \A k \in DOMAIN map : \E i \in 1 .. N : ks[i] = k
  BY KeysListed DEF WrittenMap
<1> DEFINE buf == CHOOSE b : Buffer(map, ks, Len(ks), b)
<1>2. EncodeProperties(map) = buf[Len(ks)]
  BY Zenon DEF EncodeProperties, Buffer
<1> HIDE DEF ks
<1>3. Buffer(map, ks, Len(ks), buf)
  <2>1. \E b : Buffer(map, ks, Len(ks), b)
    BY <1>1, BufferExists
  <2> QED
    BY <2>1, Zenon
<1> HIDE DEF buf
<1> QED
  BY <1>1, <1>2, <1>3

\* Behind the last line of whole lines begins an empty one.
LEMMA LastIsEmpty ==
  ASSUME NEW t \in Seq(Chars), Ended(t)
  PROVE  Line(t, Len(t) + 1) = <<>>
<1>1. PICK n \in Nat, x \in Nat : n = Len(t) /\ x = n + 1
  OBVIOUS
<1>2. /\ x \in 1 .. Len(t) + 1 /\ n \in x - 1 .. Len(t)
      /\ \A j \in x .. n : t[j] # "\n"
      /\ n < Len(t) => t[n + 1] = "\n"
  BY <1>1
<1>3. Line(t, x) = SubSeq(t, x, n)
  BY <1>2, LineAt
<1>4. SubSeq(t, x, n) = <<>>
  BY <1>1
<1> QED
  BY <1>1, <1>3, <1>4

LEMMA EmptyIsNoContent == ~IsContent(<<>>)
<1>1. Ink(<<>>) = {}
  BY DEF Ink
<1> QED
  BY <1>1 DEF IsContent, Trim

\* The text of the first n keys: a line of each, and the empty one behind them.
Written(map, ks, n, t) ==
  /\ t \in Seq(Chars) /\ Ended(t)
  /\ \E place \in [1 .. n -> Nat] :
       /\ Starts(t) = {place[j] : j \in 1 .. n} \union {Len(t) + 1}
       /\ \A j \in 1 .. n : place[j] <= Len(t) /\ Line(t, place[j]) = LineOf(map, ks[j])

LEMMA WrittenNone ==
  ASSUME NEW map, NEW ks
  PROVE  Written(map, ks, 0, <<>>)
<1> DEFINE place == [j \in 1 .. 0 |-> 0]
<1>1. <<>> \in Seq(Chars) /\ Ended(<<>>)
  BY DEF Ended
<1>2. Starts(<<>>) = {1} /\ Len(<<>>) + 1 = 1
  BY DEF Starts
<1>3. place \in [1 .. 0 -> Nat] /\ {place[j] : j \in 1 .. 0} = {}
  OBVIOUS
<1> HIDE DEF place
<1>4. \A j \in 1 .. 0 : place[j] <= Len(<<>>) /\ Line(<<>>, place[j]) = LineOf(map, ks[j])
  OBVIOUS
<1>5. Starts(<<>>) = {place[j] : j \in 1 .. 0} \union {Len(<<>>) + 1}
  BY <1>2, <1>3
<1> QED
  BY <1>1, <1>3, <1>4, <1>5 DEF Written

LEMMA WrittenOne ==
  ASSUME NEW map, NEW ks, NEW n \in Nat, NEW t, Written(map, ks, n, t),
         WrittenKey(ks[n + 1]), WrittenVal(map[ks[n + 1]])
  PROVE  Written(map, ks, n + 1, t \o ks[n + 1] \o <<"=">> \o map[ks[n + 1]] \o <<"\n">>)
<1> DEFINE k  == ks[n + 1]
           u  == LineOf(map, ks[n + 1])
           t2 == t \o u \o <<"\n">>
<1>1. t \in Seq(Chars) /\ Ended(t)
  BY DEF Written
<1>2. k \in Seq(Chars) /\ map[k] \in Seq(Chars)
  BY DEF WrittenKey, WrittenVal
<1>3. u \in Seq(Chars) /\ \A i \in DOMAIN u : u[i] # "\n"
  BY LineWritten DEF LineOf
<1>4. /\ t2 \in Seq(Chars) /\ Ended(t2) /\ Len(t2) > Len(t)
      /\ Starts(t2) = Starts(t) \union {Len(t2) + 1}
      /\ Len(t) + 1 \in Starts(t) /\ Line(t2, Len(t) + 1) = u
      /\ \A i \in Starts(t) : i <= Len(t) => Line(t2, i) = Line(t, i)
  <2> HIDE DEF u
  <2> QED
    BY <1>1, <1>3, LineAppended
<1>5. t \o k \o <<"=">> \o map[k] \o <<"\n">> = t2
  <2> DEFINE v == map[k]
  <2>1. v \in Seq(Chars)
    BY <1>2
  <2> HIDE DEF v, k
  <2>2. t \o k \o <<"=">> = t \o (k \o <<"=">>) /\ k \o <<"=">> \in Seq(Chars)
    BY <1>1, <1>2, OneSign, Joined, ConcatAssociative
  <2> DEFINE w == k \o <<"=">>
  <2>3. w \in Seq(Chars)
    BY <2>2
  <2> HIDE DEF w
  <2>4. t \o w \o v = t \o (w \o v)
    BY <1>1, <2>1, <2>3, ConcatAssociative
  <2>5. u = w \o v
    BY DEF LineOf, w, v, k
  <2> QED
    BY <2>2, <2>4, <2>5 DEF w, v
<1>6. PICK place \in [1 .. n -> Nat] :
         /\ Starts(t) = {place[j] : j \in 1 .. n} \union {Len(t) + 1}
         /\ \A j \in 1 .. n : place[j] <= Len(t) /\ Line(t, place[j]) = LineOf(map, ks[j])
  BY DEF Written
<1>7. PICK a \in Nat, m \in Nat : a = Len(t) + 1 /\ m = n + 1
  BY <1>1
<1> DEFINE place2 == [j \in 1 .. m |-> IF j <= n THEN place[j] ELSE a]
<1>8. /\ place2 \in [1 .. m -> Nat] /\ \A j \in 1 .. n : place2[j] = place[j]
      /\ place2[m] = a /\ \A j \in 1 .. m : j \in 1 .. n \/ j = m
      /\ 1 .. n \subseteq 1 .. m /\ m \in 1 .. m
  BY <1>7
<1> HIDE DEF place2, t2, u
<1>9. Starts(t2) = {place2[j] : j \in 1 .. m} \union {Len(t2) + 1}
  <2>1. {place2[j] : j \in 1 .. m} = {place[j] : j \in 1 .. n} \union {a}
    BY <1>8
  <2> QED
    BY <1>4, <1>6, <1>7, <2>1
<1>10. ASSUME NEW j \in 1 .. m
       PROVE  place2[j] <= Len(t2) /\ Line(t2, place2[j]) = LineOf(map, ks[j])
  <2>1. Len(t2) \in Nat /\ Len(t) \in Nat
    BY <1>1, <1>4
  <2>2. CASE j \in 1 .. n
    <3>1. /\ place[j] \in Starts(t) /\ place[j] <= Len(t)
          /\ Line(t, place[j]) = LineOf(map, ks[j]) /\ place[j] \in Nat
      BY <1>6, <2>2
    <3> QED
      BY <1>4, <1>8, <2>1, <2>2, <3>1
  <2>3. CASE j = m
    BY <1>4, <1>7, <1>8, <2>1, <2>3 DEF u
  <2> QED
    BY <1>8, <2>2, <2>3
<1>11. Written(map, ks, m, t2)
  BY <1>4, <1>8, <1>9, <1>10 DEF Written
<1> QED
  BY <1>5, <1>7, <1>11

\* A written text has one line of content of each key.
LEMMA EncodedLines ==
  ASSUME NEW map, WrittenMap(map)
  PROVE  \E N \in Nat : \E ks \in [1 .. N -> DOMAIN map] :
           /\ \A i, j \in 1 .. N : ks[i] = ks[j] => i = j
           /\ \A k \in DOMAIN map : \E i \in 1 .. N : ks[i] = k
           /\ Written(map, ks, N, EncodeProperties(map))
<1>1. PICK N \in Nat : \E ks \in [1 .. N -> DOMAIN map] : \E buf :
           /\ \A i, j \in 1 .. N : ks[i] = ks[j] => i = j
           /\ \A k \in DOMAIN map : \E i \in 1 .. N : ks[i] = k
           /\ Buffer(map, ks, N, buf)
           /\ EncodeProperties(map) = buf[N]
  BY EncodeIs
<1>2. PICK ks \in [1 .. N -> DOMAIN map] : \E buf :
           /\ \A i, j \in 1 .. N : ks[i] = ks[j] => i = j
           /\ \A k \in DOMAIN map : \E i \in 1 .. N : ks[i] = k
           /\ Buffer(map, ks, N, buf)
           /\ EncodeProperties(map) = buf[N]
  BY <1>1
<1>3. PICK buf :
           /\ \A i, j \in 1 .. N : ks[i] = ks[j] => i = j
           /\ \A k \in DOMAIN map : \E i \in 1 .. N : ks[i] = k
           /\ Buffer(map, ks, N, buf)
           /\ EncodeProperties(map) = buf[N]
  BY <1>2
<1> DEFINE good == {n \in 0 .. N : Written(map, ks, n, buf[n])}
<1>4. 0 \in good
  <2>1. buf[0] = <<>>
    BY <1>3 DEF Buffer
  <2> QED
    BY <2>1, WrittenNone
<1>5. ASSUME NEW p \in 0 .. N - 1, p \in good PROVE p + 1 \in good
  <2>1. PICK m \in Nat : m = p + 1
    OBVIOUS
  <2>2. m \in 0 .. N /\ m # 0 /\ m \in 1 .. N /\ p \in Nat /\ m - 1 = p
    BY <2>1
  <2>3. buf[m] = buf[m - 1] \o ks[m] \o <<"=">> \o map[ks[m]] \o <<"\n">>
    <3>1. buf[m] = [n \in 0 .. N |->
                   IF n = 0 THEN <<>>
                   ELSE buf[n - 1] \o ks[n] \o <<"=">> \o map[ks[n]] \o <<"\n">>][m]
      BY <1>3, Zenon DEF Buffer
    <3> QED
      BY <2>2, <3>1
  <2>4. ks[m] \in DOMAIN map
    BY <2>2
  <2>5. WrittenKey(ks[m]) /\ WrittenVal(map[ks[m]])
    BY <2>4 DEF WrittenMap
  <2>6. Written(map, ks, p, buf[p])
    BY <1>5
  <2>7. Written(map, ks, p + 1, buf[p] \o ks[p + 1] \o <<"=">> \o map[ks[p + 1]] \o <<"\n">>)
    BY <2>1, <2>2, <2>5, <2>6, WrittenOne
  <2> QED
    BY <2>1, <2>2, <2>3, <2>7
<1>6. N \in 0 .. N /\ \A p \in 0 .. N : p \in good
  <2> HIDE DEF good
  <2> QED
    BY <1>4, <1>5, Upward
<1>7. Written(map, ks, N, EncodeProperties(map))
  BY <1>3, <1>6
<1> QED
  BY <1>2, <1>3, <1>7

LEMMA MaxOfOne ==
  ASSUME NEW x \in Nat
  PROVE  Max({x}) = x
<1> DEFINE S == {x}
<1>1. S \in SUBSET Nat /\ S # {} /\ \A y \in S : y <= x
  OBVIOUS
<1>2. Max(S) \in S
  <2> HIDE DEF S
  <2> QED
    BY <1>1, MaxIs
<1> QED
  BY <1>2

\* What the kernel writes it reads back.
LEMMA ReadsBack ==
  ASSUME NEW map, WrittenMap(map)
  PROVE  DecodeProperties(EncodeProperties(map)) = map
<1>1. PICK N \in Nat : \E ks \in [1 .. N -> DOMAIN map] :
           /\ \A i, j \in 1 .. N : ks[i] = ks[j] => i = j
           /\ \A k \in DOMAIN map : \E i \in 1 .. N : ks[i] = k
           /\ Written(map, ks, N, EncodeProperties(map))
  BY EncodedLines
<1>2. PICK ks \in [1 .. N -> DOMAIN map] :
           /\ \A i, j \in 1 .. N : ks[i] = ks[j] => i = j
           /\ \A k \in DOMAIN map : \E i \in 1 .. N : ks[i] = k
           /\ Written(map, ks, N, EncodeProperties(map))
  BY <1>1
<1> DEFINE t == EncodeProperties(map)
<1>3. t \in Seq(Chars) /\ Ended(t)
  BY <1>2 DEF Written
<1>4. PICK place \in [1 .. N -> Nat] :
       /\ Starts(t) = {place[j] : j \in 1 .. N} \union {Len(t) + 1}
       /\ \A j \in 1 .. N : place[j] <= Len(t) /\ Line(t, place[j]) = LineOf(map, ks[j])
  BY <1>2 DEF Written
<1> HIDE DEF t
<1> DEFINE content == {i \in Starts(t) : IsContent(Line(t, i))}
           entry(i) == DecodeLine(Line(t, i))
           of(k) == {i \in content : entry(i).key = k}
<1>5. ASSUME NEW j \in 1 .. N
      PROVE  /\ IsContent(Line(t, place[j])) /\ entry(place[j]).key = ks[j]
             /\ entry(place[j]).val = map[ks[j]]
  <2>1. WrittenKey(ks[j]) /\ WrittenVal(map[ks[j]])
    BY DEF WrittenMap
  <2>2. /\ IsContent(LineOf(map, ks[j]))
        /\ DecodeLine(LineOf(map, ks[j])) = [key |-> ks[j], val |-> map[ks[j]]]
    BY <2>1, LineWritten DEF LineOf
  <2> QED
    BY <1>4, <2>2
<1>6. content = {place[j] : j \in 1 .. N}
  <2>1. ~IsContent(Line(t, Len(t) + 1))
    BY <1>3, LastIsEmpty, EmptyIsNoContent
  <2> QED
    BY <1>4, <1>5, <2>1
<1>7. {entry(i).key : i \in content} = DOMAIN map
  <2> HIDE DEF entry, content
  <2>1. ASSUME NEW i \in content PROVE entry(i).key \in DOMAIN map
    <3>1. PICK j \in 1 .. N : i = place[j]
      BY <1>6
    <3>2. entry(i).key = ks[j] /\ ks[j] \in DOMAIN map
      BY <1>5, <3>1
    <3> QED
      BY <3>2
  <2>2. ASSUME NEW k \in DOMAIN map PROVE \E i \in content : entry(i).key = k
    <3>1. PICK j \in 1 .. N : ks[j] = k
      BY <1>2
    <3>2. place[j] \in content /\ entry(place[j]).key = k
      BY <1>5, <1>6, <3>1
    <3> QED
      BY <3>2
  <2> QED
    BY <2>1, <2>2
<1>8. ASSUME NEW k \in DOMAIN map PROVE entry(Max(of(k))).val = map[k]
  <2>1. PICK j \in 1 .. N : ks[j] = k
    BY <1>2
  <2>2. of(k) = {place[j]}
    <3> HIDE DEF entry, content
    <3>1. ASSUME NEW i \in of(k) PROVE i = place[j]
      <4>1. i \in content /\ entry(i).key = k
        OBVIOUS
      <4>2. PICK q \in 1 .. N : i = place[q]
        BY <1>6, <4>1
      <4>3. ks[q] = ks[j]
        BY <1>5, <2>1, <4>1, <4>2
      <4> QED
        BY <1>2, <4>2, <4>3
    <3>2. place[j] \in of(k)
      BY <1>5, <1>6, <2>1
    <3> QED
      BY <3>1, <3>2
  <2>3. Max({place[j]}) = place[j]
    BY MaxOfOne
  <2> HIDE DEF of, entry
  <2> QED
    BY <1>5, <2>1, <2>2, <2>3
<1>9. DecodeProperties(t) = [k \in {entry(i).key : i \in content} |-> entry(Max(of(k))).val]
  BY DEF DecodeProperties
<1> HIDE DEF entry, of, content
<1>10. map = [k \in DOMAIN map |-> map[k]]
  BY DEF WrittenMap
<1>11. DecodeProperties(t) = map
  BY <1>7, <1>8, <1>9, <1>10
<1> QED
  BY <1>11 DEF t

LEMMA StartsFinite ==
  ASSUME NEW S, NEW text \in Seq(S)
  PROVE  /\ Starts(text) \in SUBSET Nat /\ IsFiniteSet(Starts(text))
         /\ \A i \in Starts(text) : i <= Len(text) + 1
<1>1. PICK n \in Nat : n = Len(text) + 1
  OBVIOUS
<1>2. Starts(text) \subseteq 1 .. n
  BY <1>1 DEF Starts
<1>3. 1 \in Int /\ n \in Int /\ IsFiniteSet(1 .. n)
  BY FS_Interval
<1>4. IsFiniteSet(Starts(text))
  BY <1>2, <1>3, FS_Subset
<1> QED
  BY <1>1, <1>2, <1>4

\* A line has no newline and its characters are the text's.
LEMMA LineChars ==
  ASSUME NEW S, NEW text \in Seq(S), NEW i \in Starts(text)
  PROVE  /\ Line(text, i) \in Seq(S)
         /\ \A j \in DOMAIN Line(text, i) : Line(text, i)[j] # "\n"
         /\ \A j \in DOMAIN Line(text, i) : \E m \in DOMAIN text : Line(text, i)[j] = text[m]
<1>1. PICK e \in i - 1 .. Len(text) :
          /\ Line(text, i) = SubSeq(text, i, e)
          /\ \A j \in i .. e : text[j] # "\n"
          /\ e < Len(text) => text[e + 1] = "\n"
  BY LineIs
<1>2. i \in 1 .. Len(text) + 1
  BY LineIs
<1>3. /\ SubSeq(text, i, e) \in Seq(S) /\ DOMAIN SubSeq(text, i, e) = 1 .. e - i + 1
      /\ \A j \in 1 .. e - i + 1 :
           SubSeq(text, i, e)[j] = text[i + j - 1] /\ i + j - 1 \in i .. e
  BY <1>2
<1>4. i .. e \subseteq DOMAIN text
  BY <1>2
<1> QED
  BY <1>1, <1>3, <1>4

\* What the kernel reads of any text it can write.
LEMMA DecodeWritten ==
  ASSUME NEW text \in Seq(Chars)
  PROVE  /\ WrittenMap(DecodeProperties(text))
         /\ DOMAIN DecodeProperties(text) =
              {DecodeLine(Line(text, i)).key : i \in {j \in Starts(text) : IsContent(Line(text, j))}}
<1> DEFINE content == {i \in Starts(text) : IsContent(Line(text, i))}
           entry(i) == DecodeLine(Line(text, i))
           of(k) == {i \in content : entry(i).key = k}
           keys == {entry(i).key : i \in content}
           map == DecodeProperties(text)
<1>1. map = [k \in keys |-> entry(Max(of(k))).val]
  BY DEF DecodeProperties
<1>2. ASSUME NEW i \in content
      PROVE  WrittenKey(entry(i).key) /\ WrittenVal(entry(i).val)
  <2>1. Line(text, i) \in Seq(Chars) /\ \A j \in DOMAIN Line(text, i) : Line(text, i)[j] # "\n"
    BY LineChars
  <2> QED
    BY <2>1, DecodeLineWritten
<1>3. Starts(text) \in SUBSET Nat /\ IsFiniteSet(Starts(text))
      /\ \A i \in Starts(text) : i <= Len(text) + 1
  BY StartsFinite
<1>4. content \subseteq Starts(text)
  OBVIOUS
<1>5. IsFiniteSet(content)
  <2> HIDE DEF content
  <2> QED
    BY <1>3, <1>4, FS_Subset
<1>6. IsFiniteSet(keys)
  <2> DEFINE f == [i \in content |-> entry(i).key]
  <2>1. f \in Surjection(content, keys)
    <3> HIDE DEF content, entry
    <3> QED
      BY DEF Surjection
  <2> HIDE DEF f, content, keys
  <2> QED
    BY <1>5, <2>1, FS_Surjection
<1>7. ASSUME NEW k \in keys PROVE Max(of(k)) \in content /\ entry(Max(of(k))).key = k
  <2>1. PICK n \in Nat : n = Len(text) + 1
    OBVIOUS
  <2>2. of(k) \in SUBSET Nat /\ of(k) # {} /\ \A i \in of(k) : i <= n
    BY <1>3, <1>4, <2>1
  <2>3. Max(of(k)) \in of(k)
    <3> HIDE DEF of
    <3> QED
      BY <2>2, MaxIs
  <2> HIDE DEF entry, content
  <2> QED
    BY <2>3
<1> HIDE DEF entry, content, of, keys, map
<1>8. DOMAIN map = keys /\ \A k \in keys : map[k] = entry(Max(of(k))).val
  BY <1>1
<1>9. \A k \in keys : WrittenKey(k) /\ WrittenVal(map[k])
  BY <1>2, <1>7, <1>8
<1>10. map = [k \in DOMAIN map |-> map[k]]
  BY <1>1, <1>8
<1>11. WrittenMap(map)
  BY <1>6, <1>8, <1>9, <1>10 DEF WrittenMap
<1> QED
  BY <1>8, <1>11 DEF map, keys, entry, content

-----------------------------------------------------------------------------
\* The validator's reader, of texts without backslashes: no character is
\* escaped, decoding escapes changes nothing, no lines are joined.
LEMMA PlainIs ==
  ASSUME NEW S, NEW s \in Seq(S)
  PROVE  IsPlain(s) <=> \A i \in 1 .. Len(s) : s[i] # "\\"
BY DEF IsPlain

LEMMA NoneEscaped ==
  ASSUME NEW S, NEW s \in Seq(S), IsPlain(s)
  PROVE  \A i \in 1 .. Len(s) : ~Escaped(s)[i]
<1> DEFINE Esc(e) == e = [i \in 1 .. Len(s) |-> i > 1 /\ s[i - 1] = "\\" /\ ~e[i - 1]]
           f == [i \in 1 .. Len(s) |-> FALSE]
<1>1. \A i \in 1 .. Len(s) : s[i] # "\\"
  BY PlainIs
<1>2. \A i \in 1 .. Len(s) : i > 1 => s[i - 1] # "\\"
  BY <1>1
<1>3. Esc(f)
  BY <1>2
<1>4. Escaped(s) = CHOOSE e : Esc(e)
  BY Zenon DEF Escaped
<1>5. Esc(Escaped(s))
  <2> HIDE DEF Esc, f
  <2> QED
    BY <1>3, <1>4, Zenon
<1> DEFINE e == Escaped(s)
<1>6. e = [i \in 1 .. Len(s) |-> i > 1 /\ s[i - 1] = "\\" /\ ~e[i - 1]]
  BY <1>5
<1> HIDE DEF e
<1>7. \A i \in 1 .. Len(s) : e[i] = (i > 1 /\ s[i - 1] = "\\" /\ ~e[i - 1])
  BY <1>6, Zenon
<1> QED
  BY <1>2, <1>7 DEF e

LEMMA PlainEscapes ==
  ASSUME NEW S, NEW s \in Seq(S), IsPlain(s)
  PROVE  DecodeEscapes(s) = s
<1> DEFINE escapes(i) == s[i] = "\\" /\ ~Escaped(s)[i] /\ i # Len(s)
           Out(o) == o = [i \in 0 .. Len(s) |->
                            IF i = 0 THEN <<>>
                            ELSE IF escapes(i) THEN o[i - 1] ELSE Append(o[i - 1], s[i])]
           f == [i \in 0 .. Len(s) |-> SubSeq(s, 1, i)]
<1>1. PICK n \in Nat : n = Len(s)
  OBVIOUS
<1>2. \A i \in 0 .. n : i # 0 => ~escapes(i)
  BY <1>1, PlainIs
<1>3. ASSUME NEW i \in 0 .. n, i # 0
      PROVE  i - 1 \in 0 .. n /\ Append(SubSeq(s, 1, i - 1), s[i]) = SubSeq(s, 1, i)
  BY <1>1, <1>3
<1>4. SubSeq(s, 1, 0) = <<>> /\ SubSeq(s, 1, n) = s /\ n \in 0 .. n
  BY <1>1
<1>5. Out(f)
  <2> HIDE DEF escapes
  <2>1. ASSUME NEW i \in 0 .. n
        PROVE  f[i] = IF i = 0 THEN <<>>
                      ELSE IF escapes(i) THEN f[i - 1] ELSE Append(f[i - 1], s[i])
    <3>1. CASE i = 0
      BY <1>1, <1>4, <3>1
    <3>2. CASE i # 0
      <4>1. f[i] = SubSeq(s, 1, i) /\ f[i - 1] = SubSeq(s, 1, i - 1)
        BY <1>1, <1>3, <3>2
      <4> HIDE DEF f
      <4> QED
        BY <1>2, <1>3, <3>2, <4>1
    <3> QED
      BY <3>1, <3>2
  <2>2. f = [i \in 0 .. n |-> f[i]]
    BY <1>1
  <2> HIDE DEF f
  <2> QED
    BY <1>1, <2>1, <2>2
<1> DEFINE o == CHOOSE x : Out(x)
<1>6. DecodeEscapes(s) = o[Len(s)]
  BY Zenon DEF DecodeEscapes
<1>7. Out(o)
  <2> HIDE DEF Out, f
  <2> QED
    BY <1>5, Zenon
<1>8. \A i \in 0 .. n : o[i] = IF i = 0 THEN <<>>
                               ELSE IF escapes(i) THEN o[i - 1] ELSE Append(o[i - 1], s[i])
  <2> HIDE DEF o, escapes
  <2> QED
    BY <1>1, <1>7, Zenon
<1> HIDE DEF o, escapes
<1> DEFINE good == {i \in 0 .. n : o[i] = SubSeq(s, 1, i)}
<1>9. 0 \in good
  <2>1. 0 \in 0 .. n
    OBVIOUS
  <2>2. o[0] = <<>>
    BY <1>8, <2>1
  <2> QED
    BY <1>4, <2>1, <2>2
<1>10. ASSUME NEW p \in 0 .. n - 1, p \in good PROVE p + 1 \in good
  <2>1. PICK m \in Nat : m = p + 1
    OBVIOUS
  <2>2. m \in 0 .. n /\ m # 0 /\ m - 1 = p
    BY <2>1
  <2>3. o[m] = Append(o[m - 1], s[m])
    BY <1>2, <1>8, <2>2
  <2> QED
    BY <1>3, <1>10, <2>1, <2>2, <2>3
<1>11. \A p \in 0 .. n : p \in good
  <2> HIDE DEF good
  <2> QED
    BY <1>9, <1>10, Upward
<1> QED
  BY <1>1, <1>4, <1>6, <1>11

LEMMA PlainPart ==
  ASSUME NEW S, NEW s \in Seq(S), IsPlain(s), NEW t \in Seq(S),
         \A j \in DOMAIN t : \E m \in DOMAIN s : t[j] = s[m]
  PROVE  IsPlain(t)
BY DEF IsPlain

LEMMA PlainLine ==
  ASSUME NEW S, NEW text \in Seq(S), IsPlain(text), NEW i \in Starts(text)
  PROVE  Line(text, i) \in Seq(S) /\ IsPlain(Line(text, i)) /\ ~EndsWith(Line(text, i), "\\")
<1> DEFINE line == Line(text, i)
<1>1. line \in Seq(S) /\ \A j \in DOMAIN line : \E m \in DOMAIN text : line[j] = text[m]
  BY LineChars
<1> HIDE DEF line
<1>2. IsPlain(line)
  BY <1>1, PlainPart
<1>3. ~EndsWith(line, "\\")
  <2>1. SUFFICES ASSUME line # <<>> PROVE Last(line) # "\\"
    BY DEF EndsWith
  <2>2. Len(line) \in 1 .. Len(line)
    BY <1>1, <2>1
  <2>3. Last(line) = line[Len(line)]
    BY DEF Last
  <2> QED
    BY <1>1, <1>2, <2>2, <2>3, PlainIs
<1> QED
  BY <1>1, <1>2, <1>3 DEF line

LEMMA PlainLogical ==
  ASSUME NEW S, NEW text \in Seq(S), IsPlain(text)
  PROVE  LogicalLines(text) = [i \in Starts(text) |-> Line(text, i)]
<1> DEFINE before(i) == {j \in Starts(text) : j < i}
           Join(g) == g = [i \in Starts(text) |->
                             IF before(i) # {} /\ EndsWith(g[Max(before(i))], "\\")
                               THEN Front(g[Max(before(i))]) \o TrimLeft(Line(text, i))
                               ELSE Line(text, i)]
           f == [i \in Starts(text) |-> Line(text, i)]
<1>1. Starts(text) \in SUBSET Nat
  BY StartsFinite
<1>2. ASSUME NEW i \in Starts(text), before(i) # {}
      PROVE  Max(before(i)) \in Starts(text) /\ Max(before(i)) < i
  <2>1. before(i) \in SUBSET Nat /\ i \in Nat /\ \A j \in before(i) : j <= i
    BY <1>1
  <2>2. Max(before(i)) \in before(i)
    <3> HIDE DEF before
    <3> QED
      BY <1>2, <2>1, MaxIs
  <2> QED
    BY <2>2
<1>3. \A i \in Starts(text) : ~EndsWith(Line(text, i), "\\")
  BY PlainLine
<1>4. Join(f)
  <2> HIDE DEF before
  <2>1. ASSUME NEW i \in Starts(text)
        PROVE  f[i] = IF before(i) # {} /\ EndsWith(f[Max(before(i))], "\\")
                        THEN Front(f[Max(before(i))]) \o TrimLeft(Line(text, i))
                        ELSE Line(text, i)
    <3>1. f[i] = Line(text, i)
      OBVIOUS
    <3>2. before(i) # {} => f[Max(before(i))] = Line(text, Max(before(i)))
      BY <1>2
    <3> HIDE DEF f
    <3>3. ~(before(i) # {} /\ EndsWith(f[Max(before(i))], "\\"))
      BY <1>2, <1>3, <3>2
    <3> QED
      BY <3>1, <3>3
  <2>2. f = [i \in Starts(text) |-> f[i]]
    OBVIOUS
  <2> HIDE DEF f
  <2> QED
    BY <2>1, <2>2
<1> DEFINE g == CHOOSE x : Join(x)
           complete == {i \in Starts(text) : i = Max(Starts(text)) \/ ~EndsWith(g[i], "\\")}
<1>5. LogicalLines(text) = [i \in complete |-> g[i]]
  BY Zenon DEF LogicalLines
<1>6. Join(g)
  <2> HIDE DEF Join, f
  <2> QED
    BY <1>4, Zenon
<1>7. \A i \in Starts(text) :
        g[i] = IF before(i) # {} /\ EndsWith(g[Max(before(i))], "\\")
                 THEN Front(g[Max(before(i))]) \o TrimLeft(Line(text, i))
                 ELSE Line(text, i)
  <2> HIDE DEF g, before
  <2> QED
    BY <1>6, Zenon
<1> HIDE DEF g, before, Join
<1>8. \A i \in Starts(text) : g[i] = Line(text, i)
  <2> DEFINE bad == {i \in Starts(text) : g[i] # Line(text, i)}
  <2>1. SUFFICES ASSUME bad # {} PROVE FALSE
    OBVIOUS
  <2>2. bad \in SUBSET Nat
    BY <1>1
  <2>3. PICK i \in bad : \A j \in bad : i <= j
    BY <2>1, <2>2, LeastNumber
  <2>4. before(i) # {} /\ EndsWith(g[Max(before(i))], "\\")
    BY <1>7, <2>3
  <2>5. Max(before(i)) \in Starts(text) /\ Max(before(i)) < i
    BY <1>2, <2>3, <2>4
  <2>6. Max(before(i)) \notin bad
    BY <1>1, <2>2, <2>3, <2>5
  <2>7. g[Max(before(i))] = Line(text, Max(before(i)))
    BY <2>5, <2>6
  <2> QED
    BY <1>3, <2>4, <2>5, <2>7
<1>9. complete = Starts(text)
  BY <1>3, <1>8
<1> QED
  BY <1>5, <1>8, <1>9

\* How the validator takes a line without backslashes apart.
LEMMA SplitAt ==
  ASSUME NEW S, NEW s \in Seq(S), IsPlain(s), NEW e \in 1 .. Len(s),
         s[e] \in {"=", ":", Blank}, \A j \in 1 .. e - 1 : s[j] \notin {"=", ":", Blank}
  PROVE  SplitProperty(s) =
           LET rest == TrimLeft(SubSeq(s, e + 1, Len(s)))
               skip == s[e] = Blank /\ StartsWith(rest, {"=", ":"})
           IN  [key |-> SubSeq(s, 1, e - 1),
                val |-> IF skip THEN TrimLeft(Tail(rest)) ELSE rest]
<1> DEFINE seps == {j \in DOMAIN s : s[j] \in {"=", ":", Blank} /\ ~Escaped(s)[j]}
           Rest(i) == TrimLeft(SubSeq(s, i + 1, Len(s)))
           Skip(i) == s[i] = Blank /\ StartsWith(Rest(i), {"=", ":"})
<1>1. e \in seps /\ seps \in SUBSET Nat /\ \A j \in seps : e <= j
  BY NoneEscaped
<1>2. Min(seps) = e
  <2>1. Min(seps) \in seps /\ Min(seps) <= e
    BY <1>1, MinIs
  <2>2. Min(seps) \in Nat /\ e <= Min(seps)
    BY <1>1, <2>1
  <2> HIDE DEF seps
  <2> QED
    BY <2>1, <2>2
<1>3. seps # {}
  BY <1>1
<1>4. SplitProperty(s) =
        IF seps = {} THEN [key |-> s, val |-> <<>>]
        ELSE [key |-> SubSeq(s, 1, Min(seps) - 1),
              val |-> IF Skip(Min(seps)) THEN TrimLeft(Tail(Rest(Min(seps)))) ELSE Rest(Min(seps))]
  BY Zenon DEF SplitProperty
<1> HIDE DEF seps
<1>5. SplitProperty(s) = [key |-> SubSeq(s, 1, e - 1),
                          val |-> IF Skip(e) THEN TrimLeft(Tail(Rest(e))) ELSE Rest(e)]
  <2> HIDE DEF Skip, Rest
  <2> QED
    BY <1>2, <1>3, <1>4
<1> QED
  BY <1>5, Zenon

LEMMA SplitNone ==
  ASSUME NEW S, NEW s \in Seq(S), \A j \in 1 .. Len(s) : s[j] \notin {"=", ":", Blank}
  PROVE  SplitProperty(s) = [key |-> s, val |-> <<>>]
<1> DEFINE seps == {j \in DOMAIN s : s[j] \in {"=", ":", Blank} /\ ~Escaped(s)[j]}
<1>1. seps = {}
  OBVIOUS
<1> QED
  BY <1>1, Zenon DEF SplitProperty

\* The first of some characters in a text, or none.
LEMMA FirstOf ==
  ASSUME NEW S, NEW s \in Seq(S), NEW C
  PROVE  \/ \A j \in 1 .. Len(s) : s[j] \notin C
         \/ \E e \in 1 .. Len(s) : s[e] \in C /\ \A j \in 1 .. e - 1 : s[j] \notin C
<1> DEFINE seps == {j \in 1 .. Len(s) : s[j] \in C}
<1>1. CASE seps = {}
  BY <1>1
<1>2. CASE seps # {}
  <2>1. seps \in SUBSET Nat
    OBVIOUS
  <2>2. PICK e \in seps : \A j \in seps : e <= j
    BY <1>2, <2>1, LeastNumber
  <2> QED
    BY <2>2
<1> QED
  BY <1>1, <1>2

\* A part of a plain text is plain.
LEMMA SubPlain ==
  ASSUME NEW S, NEW s \in Seq(S), IsPlain(s),
         NEW x \in 1 .. Len(s) + 1, NEW y \in 0 .. Len(s)
  PROVE  SubSeq(s, x, y) \in Seq(S) /\ IsPlain(SubSeq(s, x, y))
<1> DEFINE t == SubSeq(s, x, y)
<1>1. t \in Seq(S) /\ \A j \in DOMAIN t : t[j] = s[x + j - 1] /\ x + j - 1 \in DOMAIN s
  OBVIOUS
<1>2. \A j \in DOMAIN t : \E m \in DOMAIN s : t[j] = s[m]
  BY <1>1
<1> HIDE DEF t
<1>3. t \in Seq(S) /\ IsPlain(t)
  BY <1>1, <1>2, PlainPart
<1> QED
  BY <1>3 DEF t

LEMMA TrimPlain ==
  ASSUME NEW S, NEW s \in Seq(S), IsPlain(s)
  PROVE  Trim(s) \in Seq(S) /\ IsPlain(Trim(s)) /\ TrimLeft(s) \in Seq(S) /\ IsPlain(TrimLeft(s))
<1>1. Trim(s) \in Seq(S) /\ TrimLeft(s) \in Seq(S)
      /\ \A i \in DOMAIN Trim(s) : \E j \in DOMAIN s : Trim(s)[i] = s[j]
  BY TrimText
<1>2. IsPlain(Trim(s))
  BY <1>1, PlainPart
<1>3. IsPlain(TrimLeft(s))
  <2>1. CASE Ink(s) = {}
    BY <2>1 DEF TrimLeft, IsPlain
  <2>2. CASE Ink(s) # {}
    <3>1. Ink(s) \in SUBSET Nat
      BY DEF Ink
    <3>2. Min(Ink(s)) \in Ink(s)
      BY <2>2, <3>1, MinIs
    <3>3. \A i \in Ink(s) : i \in 1 .. Len(s) + 1
      BY DEF Ink
    <3>4. PICK x \in 1 .. Len(s) + 1 : x = Min(Ink(s))
      BY <3>2, <3>3
    <3>5. PICK n \in 0 .. Len(s) : n = Len(s)
      OBVIOUS
    <3>6. IsPlain(SubSeq(s, x, n))
      BY SubPlain
    <3> QED
      BY <2>2, <3>4, <3>5, <3>6 DEF TrimLeft
  <2> QED
    BY <2>1, <2>2
<1> QED
  BY <1>1, <1>2, <1>3

\* A text of blanks, or a first other character.
LEMMA FirstInk ==
  ASSUME NEW S, NEW s \in Seq(S), NEW x \in 1 .. Len(s) + 1
  PROVE  \/ /\ \A i \in x .. Len(s) : s[i] = Blank
            /\ TrimLeft(SubSeq(s, x, Len(s))) = <<>>
         \/ \E p \in x .. Len(s) :
              /\ s[p] # Blank /\ \A i \in x .. p - 1 : s[i] = Blank
              /\ TrimLeft(SubSeq(s, x, Len(s))) = SubSeq(s, p, Len(s))
              /\ SubSeq(s, p, Len(s)) # <<>> /\ Head(SubSeq(s, p, Len(s))) = s[p]
              /\ Tail(SubSeq(s, p, Len(s))) = SubSeq(s, p + 1, Len(s))
<1>1. PICK n \in 0 .. Len(s) : n = Len(s)
  OBVIOUS
<1>2. CASE \A i \in x .. n : s[i] = Blank
  <2>1. TrimLeft(SubSeq(s, x, n)) = <<>>
    BY <1>2, TrimBlank
  <2> QED
    BY <1>1, <1>2, <2>1
<1>3. CASE ~ \A i \in x .. n : s[i] = Blank
  <2>1. PICK p \in x .. n : \E q \in p .. n :
              /\ s[p] # Blank /\ s[q] # Blank
              /\ \A i \in x .. p - 1 : s[i] = Blank
              /\ \A i \in q + 1 .. n : s[i] = Blank
    BY <1>3, InkBounds
  <2>2. s[p] # Blank /\ \A i \in x .. p - 1 : s[i] = Blank
    BY <2>1
  <2>3. TrimLeft(SubSeq(s, x, n)) = SubSeq(s, p, n)
    BY <2>2, TrimLeftInk
  <2>4. SubSeq(s, p, n) # <<>> /\ Head(SubSeq(s, p, n)) = s[p]
    <3>1. /\ SubSeq(s, p, n) \in Seq(S) /\ Len(SubSeq(s, p, n)) = n - p + 1
          /\ SubSeq(s, p, n)[1] = s[p]
      BY <1>1
    <3>2. Len(SubSeq(s, p, n)) # 0
      BY <3>1
    <3> QED
      BY <3>1, <3>2, HeadIs
  <2>5. Tail(SubSeq(s, p, n)) = SubSeq(s, p + 1, n)
    BY <1>1
  <2> QED
    BY <1>1, <2>2, <2>3, <2>4, <2>5
<1> QED
  BY <1>2, <1>3

\* A key and a value as the validator finds them in a plain line of content:
\* the key goes from the first character to the first sign that separates.
LineParts(line, p, i) ==
  /\ p \in 1 .. Len(line) /\ i \in p .. Len(line) + 1
  /\ line[p] # Blank /\ line[p] # "#" /\ \A j \in 1 .. p - 1 : line[j] = Blank
  /\ \A j \in p .. i - 1 : line[j] \notin {"=", ":", Blank}
  /\ i <= Len(line) => line[i] \in {"=", ":", Blank}

ValueOf(line, i, v) ==
  \/ i = Len(line) + 1 /\ v = <<>>
  \/ i <= Len(line) /\ line[i] \in {"=", ":"} /\ v = TrimLeft(SubSeq(line, i + 1, Len(line)))
  \/ /\ i <= Len(line) /\ line[i] = Blank /\ \A j \in i + 1 .. Len(line) : line[j] = Blank
     /\ v = <<>>
  \/ /\ i <= Len(line) /\ line[i] = Blank
     /\ \E r \in i + 1 .. Len(line) :
          /\ line[r] # Blank /\ \A j \in i + 1 .. r - 1 : line[j] = Blank
          /\ \/ line[r] \in {"=", ":"} /\ v = TrimLeft(SubSeq(line, r + 1, Len(line)))
             \/ line[r] \notin {"=", ":"} /\ v = SubSeq(line, r, Len(line))

LEMMA SplitLine ==
  ASSUME NEW S, NEW line \in Seq(S), IsPlain(line), IsContent(line)
  PROVE  \E p, i \in Nat :
           /\ LineParts(line, p, i)
           /\ SplitProperty(TrimLeft(line)).key = SubSeq(line, p, i - 1)
           /\ ValueOf(line, i, SplitProperty(TrimLeft(line)).val)
<1>1. PICK n \in Nat : n = Len(line)
  OBVIOUS
<1>2. PICK p \in 1 .. n :
           /\ line[p] # Blank /\ line[p] # "#" /\ \A j \in 1 .. p - 1 : line[j] = Blank
           /\ TrimLeft(line) = SubSeq(line, p, n)
  BY <1>1, ContentStart
<1> DEFINE t == SubSeq(line, p, n)
<1>3. /\ t \in Seq(S) /\ Len(t) = n - p + 1
      /\ \A j \in 1 .. n - p + 1 : t[j] = line[p + j - 1]
      /\ \A j \in p .. n : line[j] = t[j - p + 1] /\ j - p + 1 \in 1 .. n - p + 1
  BY <1>1
<1>4. IsPlain(t)
  <2>1. p \in 1 .. Len(line) + 1 /\ n \in 0 .. Len(line)
    BY <1>1
  <2> QED
    BY <2>1, SubPlain
<1> DEFINE C == {"=", ":", Blank}
<1>5. CASE \A j \in 1 .. Len(t) : t[j] \notin C
  <2>1. PICK i \in Nat : i = n + 1
    OBVIOUS
  <2>2. ASSUME NEW j \in p .. i - 1 PROVE line[j] \notin C
    <3>1. j \in p .. n
      BY <2>1
    <3>2. line[j] = t[j - p + 1] /\ j - p + 1 \in 1 .. Len(t)
      BY <1>3, <3>1
    <3> HIDE DEF t, C
    <3> QED
      BY <1>5, <3>2
  <2>3. SplitProperty(t) = [key |-> t, val |-> <<>>]
    <3> HIDE DEF t
    <3> QED
      BY <1>3, <1>5, SplitNone
  <2>4. LineParts(line, p, i)
    BY <1>1, <1>2, <2>1, <2>2 DEF LineParts
  <2>5. ValueOf(line, i, <<>>) /\ t = SubSeq(line, p, i - 1)
    BY <1>1, <2>1 DEF ValueOf
  <2> HIDE DEF t
  <2> QED
    BY <1>2, <2>3, <2>4, <2>5 DEF t
<1>6. ASSUME NEW e \in 1 .. Len(t), t[e] \in C, \A j \in 1 .. e - 1 : t[j] \notin C
      PROVE  \E q, i \in Nat :
               /\ LineParts(line, q, i)
               /\ SplitProperty(t).key = SubSeq(line, q, i - 1)
               /\ ValueOf(line, i, SplitProperty(t).val)
  <2>1. PICK i \in p .. n : i = p + e - 1
    BY <1>1, <1>3
  <2>2. line[i] \in C /\ \A j \in p .. i - 1 : line[j] \notin C
    <3>1. line[i] = t[e]
      BY <1>1, <1>3, <2>1
    <3>2. ASSUME NEW j \in p .. i - 1 PROVE line[j] \notin C
      <4>1. j - p + 1 \in 1 .. e - 1 /\ j \in p .. n
        BY <2>1
      <4> HIDE DEF t, C
      <4> QED
        BY <1>3, <1>6, <4>1
    <3> HIDE DEF t, C
    <3> QED
      BY <1>6, <3>1, <3>2
  <2>3. LineParts(line, p, i)
    BY <1>1, <1>2, <2>1, <2>2 DEF LineParts
  <2>4. SubSeq(t, 1, e - 1) = SubSeq(line, p, i - 1) /\ SubSeq(t, e + 1, Len(t)) = SubSeq(line, i + 1, n)
    BY <1>1, <2>1
  <2> DEFINE rest == TrimLeft(SubSeq(line, i + 1, n))
             skip == line[i] = Blank /\ StartsWith(rest, {"=", ":"})
             val  == IF skip THEN TrimLeft(Tail(rest)) ELSE rest
  <2>5. SplitProperty(t) = [key |-> SubSeq(line, p, i - 1), val |-> val]
    <3>1. t[e] = line[i]
      BY <1>1, <1>3, <2>1
    <3> HIDE DEF t
    <3>2. t[e] \in {"=", ":", Blank} /\ \A j \in 1 .. e - 1 : t[j] \notin {"=", ":", Blank}
      BY <1>6
    <3>3. SplitProperty(t) =
           LET rst == TrimLeft(SubSeq(t, e + 1, Len(t)))
               skp == t[e] = Blank /\ StartsWith(rst, {"=", ":"})
           IN  [key |-> SubSeq(t, 1, e - 1),
                val |-> IF skp THEN TrimLeft(Tail(rst)) ELSE rst]
      BY <1>3, <1>4, <3>2, SplitAt
    <3> QED
      BY <2>4, <3>1, <3>3, Zenon
  <2>6. PICK y \in 1 .. n + 1 : y = i + 1
    BY <2>1
  <2>7. ValueOf(line, i, val)
    <3>1. CASE line[i] # Blank
      <4>1. line[i] \in {"=", ":"} /\ val = TrimLeft(SubSeq(line, i + 1, n)) /\ i <= Len(line)
        BY <1>1, <2>1, <2>2, <3>1
      <4> HIDE DEF val
      <4> QED
        BY <1>1, <4>1 DEF ValueOf
    <3>2. CASE line[i] = Blank /\ rest = <<>> /\ \A j \in y .. n : line[j] = Blank
      <4>1. val = <<>> /\ i <= Len(line)
        BY <1>1, <2>1, <3>2 DEF StartsWith
      <4> HIDE DEF val
      <4> QED
        BY <1>1, <2>6, <3>2, <4>1 DEF ValueOf
    <3>3. ASSUME line[i] = Blank, NEW r \in y .. n,
                 line[r] # Blank, \A j \in y .. r - 1 : line[j] = Blank,
                 rest = SubSeq(line, r, n), SubSeq(line, r, n) # <<>>,
                 Head(SubSeq(line, r, n)) = line[r],
                 Tail(SubSeq(line, r, n)) = SubSeq(line, r + 1, n)
          PROVE  ValueOf(line, i, val)
      <4>1. skip <=> line[r] \in {"=", ":"}
        BY <3>3 DEF StartsWith
      <4>2. \/ line[r] \in {"=", ":"} /\ val = TrimLeft(SubSeq(line, r + 1, n))
            \/ line[r] \notin {"=", ":"} /\ val = SubSeq(line, r, n)
        <5> HIDE DEF skip, rest
        <5> QED
          BY <3>3, <4>1
      <4>3. i <= Len(line) /\ r \in i + 1 .. Len(line)
        BY <1>1, <2>1, <2>6
      <4> HIDE DEF val
      <4> QED
        BY <1>1, <2>6, <3>3, <4>2, <4>3 DEF ValueOf
    <3>4. y \in 1 .. Len(line) + 1
      BY <1>1
    <3>5. \/ /\ \A j \in y .. Len(line) : line[j] = Blank
             /\ TrimLeft(SubSeq(line, y, Len(line))) = <<>>
          \/ \E r \in y .. Len(line) :
              /\ line[r] # Blank /\ \A j \in y .. r - 1 : line[j] = Blank
              /\ TrimLeft(SubSeq(line, y, Len(line))) = SubSeq(line, r, Len(line))
              /\ SubSeq(line, r, Len(line)) # <<>> /\ Head(SubSeq(line, r, Len(line))) = line[r]
              /\ Tail(SubSeq(line, r, Len(line))) = SubSeq(line, r + 1, Len(line))
      BY <3>4, FirstInk
    <3> HIDE DEF val
    <3> QED
      BY <1>1, <2>6, <3>1, <3>2, <3>3, <3>5
  <2> HIDE DEF val, t
  <2> QED
    BY <2>1, <2>3, <2>5, <2>7
<1>7. \/ \A j \in 1 .. Len(t) : t[j] \notin C
      \/ \E q, i \in Nat :
           /\ LineParts(line, q, i)
           /\ SplitProperty(t).key = SubSeq(line, q, i - 1)
           /\ ValueOf(line, i, SplitProperty(t).val)
  <2> HIDE DEF t, C
  <2> QED
    BY <1>3, <1>6, FirstOf
<1> QED
  BY <1>2, <1>5, <1>7

\* What the validator takes from a plain line of content.
LEMMA EntryIs ==
  ASSUME NEW S, NEW line \in Seq(S), IsPlain(line), IsContent(line)
  PROVE  /\ Entry(line).val \in Seq(S) /\ IsPlain(Entry(line).val)
         /\ \E p, i \in Nat :
              /\ LineParts(line, p, i)
              /\ Entry(line).key = SubSeq(line, p, i - 1)
              /\ ValueOf(line, i, Entry(line).val)
<1>1. PICK n \in Nat : n = Len(line)
  OBVIOUS
<1> DEFINE kv == SplitProperty(TrimLeft(line))
<1>2. PICK p, i \in Nat :
           /\ LineParts(line, p, i)
           /\ kv.key = SubSeq(line, p, i - 1)
           /\ ValueOf(line, i, kv.val)
  BY SplitLine
<1>3. p \in 1 .. n /\ i \in p .. n + 1
  BY <1>1, <1>2 DEF LineParts
<1> DEFINE k == SubSeq(line, p, i - 1)
<1>4. k \in Seq(S) /\ IsPlain(k)
  <2>1. PICK y \in 0 .. Len(line) : y = i - 1
    BY <1>1, <1>3
  <2>2. p \in 1 .. Len(line) + 1
    BY <1>1, <1>3
  <2>3. SubSeq(line, p, y) \in Seq(S) /\ IsPlain(SubSeq(line, p, y))
    BY <2>2, SubPlain
  <2> QED
    BY <2>1, <2>3
<1>5. Trim(k) = k
  <2>1. \A j \in DOMAIN k : k[j] # Blank
    <3>1. \A j \in DOMAIN k : k[j] = line[p + j - 1] /\ p + j - 1 \in p .. i - 1
      BY <1>1, <1>3
    <3>2. \A j \in p .. i - 1 : line[j] # Blank
      BY <1>2 DEF LineParts
    <3> HIDE DEF k
    <3> QED
      BY <3>1, <3>2
  <2>2. Trimmed(k)
    <3> HIDE DEF k
    <3>1. k # <<>> => 1 \in DOMAIN k /\ Len(k) \in DOMAIN k
      BY <1>4
    <3> QED
      BY <2>1, <3>1 DEF Trimmed
  <2> HIDE DEF k
  <2> QED
    BY <1>4, <2>2, TrimText
<1>6. kv.val \in Seq(S) /\ IsPlain(kv.val)
  <2> DEFINE v == kv.val
  <2>1. \A y \in 1 .. n + 1 : /\ SubSeq(line, y, n) \in Seq(S) /\ IsPlain(SubSeq(line, y, n))
    <3>1. n \in 0 .. Len(line)
      BY <1>1
    <3> QED
      BY <1>1, <3>1, SubPlain
  <2>2. \A y \in 1 .. n + 1 : /\ TrimLeft(SubSeq(line, y, n)) \in Seq(S)
                              /\ IsPlain(TrimLeft(SubSeq(line, y, n)))
    BY <2>1, TrimPlain
  <2>3. \/ v = <<>>
        \/ \E y \in 1 .. n + 1 : v = TrimLeft(SubSeq(line, y, n)) \/ v = SubSeq(line, y, n)
    <3>1. ValueOf(line, i, v)
      BY <1>2
    <3> HIDE DEF v
    <3>2. i <= n => i + 1 \in 1 .. n + 1
      BY <1>3
    <3>3. \A r \in i + 1 .. n : r \in 1 .. n + 1 /\ r + 1 \in 1 .. n + 1
      BY <1>3
    <3>4. CASE i = n + 1 /\ v = <<>>
      BY <3>4
    <3>5. CASE i <= n /\ v = TrimLeft(SubSeq(line, i + 1, n))
      BY <3>2, <3>5
    <3>6. CASE \E r \in i + 1 .. n : v = TrimLeft(SubSeq(line, r + 1, n)) \/ v = SubSeq(line, r, n)
      BY <3>3, <3>6
    <3> QED
      BY <1>1, <3>1, <3>4, <3>5, <3>6 DEF ValueOf
  <2>4. <<>> \in Seq(S) /\ IsPlain(<<>>)
    BY DEF IsPlain
  <2> HIDE DEF v
  <2>5. v \in Seq(S) /\ IsPlain(v)
    BY <2>1, <2>2, <2>3, <2>4
  <2> QED
    BY <2>5 DEF v
<1>7. DecodeEscapes(k) = k /\ DecodeEscapes(kv.val) = kv.val
  <2> HIDE DEF k, kv
  <2> QED
    BY <1>4, <1>6, PlainEscapes
<1>8. Entry(line) = [key |-> DecodeEscapes(Trim(kv.key)), val |-> DecodeEscapes(kv.val)]
  BY Zenon DEF Entry
<1>9. kv.key = k
  BY <1>2
<1> HIDE DEF k, kv
<1>10. Entry(line).key = k /\ Entry(line).val = kv.val
  BY <1>5, <1>7, <1>8, <1>9
<1>11. kv.val \in Seq(S) /\ IsPlain(kv.val)
  BY <1>6
<1> QED
  BY <1>2, <1>10, <1>11 DEF k

\* The kernel's reader takes the same key when only blanks are between the key
\* and its first separator.
LEMMA DecodeParts ==
  ASSUME NEW S, NEW line \in Seq(S), NEW p, NEW i, LineParts(line, p, i),
         NEW e \in Nat, i <= e, e <= Len(line) + 1,
         \A j \in i .. e - 1 : line[j] = Blank,
         e <= Len(line) => line[e] \in {"=", ":"}
  PROVE  /\ DecodeLine(line).key = SubSeq(line, p, i - 1)
         /\ e = Len(line) + 1 => DecodeLine(line).val = <<>>
         /\ e <= Len(line) => DecodeLine(line).val = Trim(SubSeq(line, e + 1, Len(line)))
<1>1. PICK n \in Nat : n = Len(line)
  OBVIOUS
<1>2. /\ p \in 1 .. n /\ i \in p .. n + 1
      /\ line[p] # Blank /\ \A j \in 1 .. p - 1 : line[j] = Blank
      /\ \A j \in p .. i - 1 : line[j] \notin {"=", ":", Blank}
  BY <1>1 DEF LineParts
<1>3. \A j \in 1 .. e - 1 : line[j] \notin {"=", ":"}
  <2>1. ASSUME NEW j \in 1 .. e - 1
        PROVE  j \in 1 .. p - 1 \/ j \in p .. i - 1 \/ j \in i .. e - 1
    BY <1>2
  <2> QED
    BY <1>2, <2>1, BlankIsNone
<1>4. PICK y \in 0 .. n : y = e - 1
  BY <1>1, <1>2
<1>5. Trim(SubSeq(line, 1, y)) = SubSeq(line, p, i - 1)
  <2>1. 1 \in 1 .. Len(line) + 1 /\ y \in 0 .. Len(line)
    BY <1>1
  <2>2. CASE i = p
    <3>1. y < p
      <4>1. SUFFICES ASSUME y >= p PROVE FALSE
        BY <1>2
      <4>2. p \in i .. e - 1
        BY <1>2, <1>4, <2>2, <4>1
      <4> QED
        BY <1>2, <4>2
    <3>2. \A j \in 1 .. y : line[j] = Blank
      BY <1>2, <3>1
    <3>3. Trim(SubSeq(line, 1, y)) = <<>>
      BY <2>1, <3>2, TrimBlank
    <3>4. SubSeq(line, p, i - 1) = <<>>
      BY <1>1, <1>2, <2>2
    <3> QED
      BY <3>3, <3>4
  <2>3. CASE i # p
    <3>1. PICK q \in p .. y : q = i - 1
      BY <1>2, <1>4, <2>3
    <3>2. p \in 1 .. y
      BY <1>2, <3>1
    <3>3. line[q] # Blank
      BY <1>2, <3>1
    <3>4. \A j \in q + 1 .. y : line[j] = Blank
      BY <1>2, <1>4, <3>1
    <3>5. Trim(SubSeq(line, 1, y)) = SubSeq(line, p, q)
      BY <1>2, <2>1, <3>2, <3>3, <3>4, TrimInk
    <3> QED
      BY <3>1, <3>5
  <2> QED
    BY <2>2, <2>3
<1>6. CASE e = n + 1
  <2>1. SubSeq(line, 1, y) = line /\ \A j \in 1 .. Len(line) : line[j] \notin {"=", ":"}
    BY <1>1, <1>3, <1>4, <1>6
  <2>2. DecodeLine(line) = [key |-> Trim(line), val |-> <<>>]
    BY <2>1, DecodeIs
  <2>3. Trim(line) = SubSeq(line, p, i - 1)
    BY <1>5, <2>1
  <2>4. ~(e <= Len(line)) /\ e = Len(line) + 1
    BY <1>1, <1>6
  <2>5. DecodeLine(line).key = Trim(line)
    BY <2>2
  <2>6. DecodeLine(line).val = <<>>
    BY <2>2
  <2>7. DecodeLine(line).key = SubSeq(line, p, i - 1) /\ DecodeLine(line).val = <<>>
    BY <2>3, <2>5, <2>6, Zenon
  <2> QED
    BY <2>4, <2>7
<1>7. CASE e <= n
  <2>1. e \in 1 .. Len(line) /\ line[e] \in {"=", ":"}
    BY <1>1, <1>2, <1>7
  <2>2. DecodeLine(line) = [key |-> Trim(SubSeq(line, 1, e - 1)),
                            val |-> Trim(SubSeq(line, e + 1, Len(line)))]
    BY <1>3, <2>1, DecodeAt
  <2> QED
    BY <1>1, <1>4, <1>5, <1>7, <2>2
<1> QED
  BY <1>1, <1>6, <1>7

\* The first other character behind a place of a line.
LEMMA RestFrom ==
  ASSUME NEW S, NEW line \in Seq(S), NEW i \in 1 .. Len(line), NEW r \in i .. Len(line),
         line[r] # Blank, \A j \in i .. r - 1 : line[j] = Blank
  PROVE  /\ TrimLeft(SubSeq(line, i, Len(line))) = SubSeq(line, r, Len(line))
         /\ SubSeq(line, r, Len(line)) # <<>> /\ Head(SubSeq(line, r, Len(line))) = line[r]
<1>1. PICK n \in 0 .. Len(line) : n = Len(line)
  OBVIOUS
<1>2. r \in i .. n /\ i \in 1 .. Len(line) + 1
  BY <1>1
<1>3. TrimLeft(SubSeq(line, i, n)) = SubSeq(line, r, n)
  BY <1>2, TrimLeftInk
<1>4. SubSeq(line, r, n) # <<>> /\ Head(SubSeq(line, r, n)) = line[r]
  <2>1. /\ SubSeq(line, r, n) \in Seq(S) /\ Len(SubSeq(line, r, n)) = n - r + 1
        /\ SubSeq(line, r, n)[1] = line[r]
    BY <1>1, <1>2
  <2>2. Len(SubSeq(line, r, n)) # 0
    BY <1>2, <2>1
  <2> QED
    BY <2>1, <2>2, HeadIs
<1> QED
  BY <1>1, <1>3, <1>4

\* A line that is not apart at a blank is read alike.
LEMMA SameEntry ==
  ASSUME NEW S, NEW line \in Seq(S), IsPlain(line), IsContent(line), ~BlankSeparated(line)
  PROVE  /\ DecodeLine(line).key = Entry(line).key
         /\ DecodeLine(line).val = Trim(Entry(line).val)
<1>1. PICK n \in Nat : n = Len(line)
  OBVIOUS
<1>2. PICK p, i \in Nat :
           /\ LineParts(line, p, i)
           /\ Entry(line).key = SubSeq(line, p, i - 1)
           /\ ValueOf(line, i, Entry(line).val)
  BY EntryIs
<1> DEFINE v == Entry(line).val
<1>3. /\ p \in 1 .. n /\ i \in p .. n + 1
      /\ line[p] # Blank /\ \A j \in 1 .. p - 1 : line[j] = Blank
      /\ \A j \in p .. i - 1 : line[j] \notin {"=", ":", Blank}
  BY <1>1, <1>2 DEF LineParts
<1>4. Trim(<<>>) = <<>> /\ \A y \in 1 .. n + 1 :
         Trim(TrimLeft(SubSeq(line, y, n))) = Trim(SubSeq(line, y, n))
  <2>1. \A y \in 1 .. n + 1 : SubSeq(line, y, n) \in Seq(S)
    BY <1>1
  <2>2. Ink(<<>>) = {}
    BY DEF Ink
  <2> QED
    BY <2>1, <2>2, TrimText DEF Trim
<1> HIDE DEF v
<1>5. CASE i = n + 1 /\ v = <<>>
  <2>1. /\ i <= n + 1 /\ \A j \in i .. i - 1 : line[j] = Blank
        /\ i <= Len(line) => line[i] \in {"=", ":"}
    BY <1>1, <1>5
  <2>2. DecodeLine(line).key = SubSeq(line, p, i - 1) /\ DecodeLine(line).val = <<>>
    BY <1>1, <1>2, <1>5, <2>1, DecodeParts
  <2> QED
    BY <1>2, <1>4, <1>5, <2>2 DEF v
<1>6. CASE i <= n /\ line[i] \in {"=", ":"} /\ v = TrimLeft(SubSeq(line, i + 1, n))
  <2>1. /\ i <= i /\ i <= Len(line) + 1 /\ i <= Len(line)
        /\ \A j \in i .. i - 1 : line[j] = Blank
        /\ i <= Len(line) => line[i] \in {"=", ":"}
    BY <1>1, <1>6
  <2>2. /\ DecodeLine(line).key = SubSeq(line, p, i - 1)
        /\ DecodeLine(line).val = Trim(SubSeq(line, i + 1, Len(line)))
    BY <1>2, <2>1, DecodeParts
  <2>3. i + 1 \in 1 .. n + 1
    BY <1>3, <1>6
  <2>4. Trim(v) = Trim(SubSeq(line, i + 1, n))
    BY <1>4, <1>6, <2>3
  <2> QED
    BY <1>1, <1>2, <2>2, <2>4 DEF v
<1>7. CASE /\ i <= n /\ line[i] = Blank /\ \A j \in i + 1 .. n : line[j] = Blank
           /\ v = <<>>
  <2>1. PICK e \in Nat : e = n + 1
    OBVIOUS
  <2>2. /\ i <= e /\ e <= Len(line) + 1 /\ e = Len(line) + 1 /\ \A j \in i .. e - 1 : line[j] = Blank
        /\ e <= Len(line) => line[e] \in {"=", ":"}
    BY <1>1, <1>3, <1>7, <2>1
  <2>3. DecodeLine(line).key = SubSeq(line, p, i - 1) /\ DecodeLine(line).val = <<>>
    BY <1>2, <2>2, DecodeParts
  <2> QED
    BY <1>2, <1>4, <1>7, <2>3 DEF v
<1>8. ASSUME i <= n, line[i] = Blank, NEW r \in i + 1 .. n,
             line[r] # Blank, \A j \in i + 1 .. r - 1 : line[j] = Blank,
             line[r] \in {"=", ":"}, v = TrimLeft(SubSeq(line, r + 1, n))
      PROVE  /\ DecodeLine(line).key = Entry(line).key
             /\ DecodeLine(line).val = Trim(Entry(line).val)
  <2>1. /\ r \in Nat /\ i <= r /\ r <= Len(line) + 1 /\ r <= Len(line)
        /\ \A j \in i .. r - 1 : line[j] = Blank
        /\ r <= Len(line) => line[r] \in {"=", ":"}
    BY <1>1, <1>3, <1>8
  <2>2. /\ DecodeLine(line).key = SubSeq(line, p, i - 1)
        /\ DecodeLine(line).val = Trim(SubSeq(line, r + 1, n))
    BY <1>1, <1>2, <2>1, DecodeParts
  <2>3. r + 1 \in 1 .. n + 1
    BY <1>3, <1>8
  <2>4. Trim(v) = Trim(SubSeq(line, r + 1, n))
    BY <1>4, <1>8, <2>3
  <2> QED
    BY <1>2, <2>2, <2>4 DEF v
<1>9. ASSUME i <= n, line[i] = Blank, NEW r \in i + 1 .. n,
             line[r] # Blank, \A j \in i + 1 .. r - 1 : line[j] = Blank,
             line[r] \notin {"=", ":"}
      PROVE  FALSE
  <2>1. i \in DOMAIN line /\ i \in 1 .. Len(line) /\ r \in i .. Len(line)
    BY <1>1, <1>3, <1>9
  <2>2. \A j \in 1 .. i : line[j] \notin {"=", ":"}
    <3>1. \A j \in 1 .. i : j \in 1 .. p - 1 \/ j \in p .. i - 1 \/ j = i
      BY <1>3
    <3> QED
      BY <1>3, <1>9, <3>1, BlankIsNone
  <2>3. p \in 1 .. i /\ line[p] # Blank
    BY <1>3
  <2>4. \A j \in i .. r - 1 : line[j] = Blank
    BY <1>3, <1>9
  <2>5. /\ TrimLeft(SubSeq(line, i, Len(line))) # <<>>
        /\ Head(TrimLeft(SubSeq(line, i, Len(line)))) = line[r]
    BY <1>9, <2>1, <2>4, RestFrom
  <2>6. BlankSeparated(line)
    BY <1>9, <2>1, <2>2, <2>3, <2>5 DEF BlankSeparated
  <2> QED
    BY <2>6
<1>10. ValueOf(line, i, v)
  BY <1>2 DEF v
<1>11. \/ i = n + 1 /\ v = <<>>
       \/ i <= n /\ line[i] \in {"=", ":"} /\ v = TrimLeft(SubSeq(line, i + 1, n))
       \/ /\ i <= n /\ line[i] = Blank /\ \A j \in i + 1 .. n : line[j] = Blank
          /\ v = <<>>
       \/ /\ i <= n /\ line[i] = Blank
          /\ \E r \in i + 1 .. n :
               /\ line[r] # Blank /\ \A j \in i + 1 .. r - 1 : line[j] = Blank
               /\ \/ line[r] \in {"=", ":"} /\ v = TrimLeft(SubSeq(line, r + 1, n))
                  \/ line[r] \notin {"=", ":"} /\ v = SubSeq(line, r, n)
  BY <1>1, <1>10 DEF ValueOf
<1> QED
  BY <1>5, <1>6, <1>7, <1>8, <1>9, <1>11

\* Neither blanks nor separators nor backslashes are in the key that the
\* validator takes.
LEMMA EntryKey ==
  ASSUME NEW S, NEW line \in Seq(S), IsPlain(line), IsContent(line)
  PROVE  /\ \A j \in DOMAIN Entry(line).key : Entry(line).key[j] \notin {"=", ":", Blank}
         /\ Entry(line).key \in Seq(S) /\ IsPlain(Entry(line).key)
<1>1. PICK p, i \in Nat :
           /\ LineParts(line, p, i)
           /\ Entry(line).key = SubSeq(line, p, i - 1)
  BY EntryIs
<1>2. /\ p \in 1 .. Len(line) /\ i \in p .. Len(line) + 1
      /\ \A j \in p .. i - 1 : line[j] \notin {"=", ":", Blank}
  BY <1>1 DEF LineParts
<1> DEFINE k == SubSeq(line, p, i - 1)
<1>3. \A j \in DOMAIN k : k[j] = line[p + j - 1] /\ p + j - 1 \in p .. i - 1
  BY <1>2
<1>4. PICK y \in 0 .. Len(line) : y = i - 1
  BY <1>2
<1>5. p \in 1 .. Len(line) + 1
  BY <1>2
<1>6. SubSeq(line, p, y) \in Seq(S) /\ IsPlain(SubSeq(line, p, y))
  BY <1>5, SubPlain
<1>7. k \in Seq(S) /\ IsPlain(k)
  BY <1>4, <1>6
<1> HIDE DEF k
<1>8. \A j \in DOMAIN k : k[j] \notin {"=", ":", Blank}
  BY <1>2, <1>3
<1> QED
  BY <1>1, <1>7, <1>8 DEF k

\* The kernel's reader takes the blank of a line apart at one into the key.
LEMMA BlankApart ==
  ASSUME NEW S, NEW line \in Seq(S), BlankSeparated(line)
  PROVE  \E j \in DOMAIN DecodeLine(line).key : DecodeLine(line).key[j] = Blank
<1>1. PICK n \in Nat : n = Len(line) /\ DOMAIN line = 1 .. n
  OBVIOUS
<1>2. PICK i \in DOMAIN line :
    /\ \A j \in 1 .. i : line[j] \notin {"=", ":"}
    /\ line[i] = Blank /\ \E j \in 1 .. i : line[j] # Blank
    /\ LET rest == TrimLeft(SubSeq(line, i, Len(line)))
       IN  rest # <<>> /\ Head(rest) \notin {"=", ":"}
  BY DEF BlankSeparated
<1>3. i \in 1 .. Len(line) + 1 /\ i \in 1 .. n
  BY <1>1, <1>2
<1>4. PICK r \in i .. n : /\ line[r] # Blank /\ \A j \in i .. r - 1 : line[j] = Blank
                          /\ line[r] \notin {"=", ":"}
  <2>1. TrimLeft(SubSeq(line, i, Len(line))) # <<>>
        /\ Head(TrimLeft(SubSeq(line, i, Len(line)))) \notin {"=", ":"}
    BY <1>2
  <2>2. \E q \in i .. Len(line) :
              /\ line[q] # Blank /\ \A j \in i .. q - 1 : line[j] = Blank
              /\ TrimLeft(SubSeq(line, i, Len(line))) = SubSeq(line, q, Len(line))
              /\ Head(SubSeq(line, q, Len(line))) = line[q]
    BY <1>3, <2>1, FirstInk
  <2> QED
    BY <1>1, <2>1, <2>2
<1>5. PICK f \in 1 .. i : line[f] # Blank
  BY <1>2
<1>6. f < i /\ i < r
  <2>1. f # i /\ i # r
    BY <1>2, <1>4, <1>5
  <2> QED
    BY <1>3, <1>4, <1>5, <2>1
<1>7. ASSUME NEW y \in r .. n
      PROVE  \E j \in DOMAIN Trim(SubSeq(line, 1, y)) : Trim(SubSeq(line, 1, y))[j] = Blank
  <2>1. 1 \in 1 .. Len(line) + 1 /\ y \in 0 .. Len(line) /\ y \in Nat
    BY <1>1, <1>3, <1>4
  <2>2. ~ \A j \in 1 .. y : line[j] = Blank
    BY <1>3, <1>4, <1>6
  <2>3. PICK a \in 1 .. y : \E b \in a .. y :
              /\ line[a] # Blank /\ line[b] # Blank
              /\ \A j \in 1 .. a - 1 : line[j] = Blank
              /\ \A j \in b + 1 .. y : line[j] = Blank
    BY <2>1, <2>2, InkBounds
  <2>4. PICK b \in a .. y :
              /\ line[a] # Blank /\ line[b] # Blank
              /\ \A j \in 1 .. a - 1 : line[j] = Blank
              /\ \A j \in b + 1 .. y : line[j] = Blank
    BY <2>3
  <2>5. Trim(SubSeq(line, 1, y)) = SubSeq(line, a, b)
    BY <2>1, <2>4, TrimInk
  <2>6. ~(f < a) /\ ~(b < r)
    BY <1>3, <1>4, <1>5, <2>1, <2>4
  <2>7. i - a + 1 \in DOMAIN SubSeq(line, a, b) /\ SubSeq(line, a, b)[i - a + 1] = line[i]
    BY <1>1, <1>3, <1>4, <1>5, <1>6, <2>1, <2>4, <2>6
  <2> QED
    BY <1>2, <2>5, <2>7
<1>8. CASE DecodeLine(line) = [key |-> Trim(line), val |-> <<>>]
  <2>1. n \in r .. n /\ SubSeq(line, 1, n) = line
    BY <1>1, <1>4
  <2>2. \E j \in DOMAIN Trim(line) : Trim(line)[j] = Blank
    BY <1>7, <2>1
  <2> QED
    BY <1>8, <2>2
<1>9. ASSUME NEW e \in 1 .. n, line[e] \in {"=", ":"},
             DecodeLine(line) = [key |-> Trim(SubSeq(line, 1, e - 1)),
                                 val |-> Trim(SubSeq(line, e + 1, n))]
      PROVE  \E j \in DOMAIN DecodeLine(line).key : DecodeLine(line).key[j] = Blank
  <2>1. ~(e <= i) /\ ~(e \in i .. r - 1) /\ e # r
    <3>1. e <= i => e \in 1 .. i
      BY <1>3
    <3> QED
      BY <1>2, <1>4, <1>9, <3>1, BlankIsNone
  <2>2. PICK y \in r .. n : y = e - 1
    BY <1>3, <1>4, <2>1
  <2>3. \E j \in DOMAIN Trim(SubSeq(line, 1, y)) : Trim(SubSeq(line, 1, y))[j] = Blank
    BY <1>7
  <2> QED
    BY <1>9, <2>2, <2>3
<1>10. \/ DecodeLine(line) = [key |-> Trim(line), val |-> <<>>]
       \/ \E e \in 1 .. n : /\ line[e] \in {"=", ":"}
                            /\ DecodeLine(line) = [key |-> Trim(SubSeq(line, 1, e - 1)),
                                                   val |-> Trim(SubSeq(line, e + 1, n))]
  BY <1>1, DecodeIs
<1> QED
  BY <1>8, <1>9, <1>10

\* The lines of a text with an entry.
Content(text) == {i \in Starts(text) : IsContent(Line(text, i))}

LEMMA PlainEntries ==
  ASSUME NEW S, NEW text \in Seq(S), IsPlain(text)
  PROVE  Entries(text) = [i \in Content(text) |-> Entry(Line(text, i))]
<1> DEFINE lines == LogicalLines(text)
<1>1. lines = [i \in Starts(text) |-> Line(text, i)]
  BY PlainLogical
<1>2. Entries(text) = [i \in {j \in DOMAIN lines : IsContent(lines[j])} |-> Entry(lines[i])]
  BY Zenon DEF Entries
<1> HIDE DEF lines
<1>3. DOMAIN lines = Starts(text) /\ \A i \in Starts(text) : lines[i] = Line(text, i)
  BY <1>1
<1>4. {j \in DOMAIN lines : IsContent(lines[j])} = Content(text)
  BY <1>3 DEF Content
<1>5. \A i \in Content(text) : lines[i] = Line(text, i)
  BY <1>3 DEF Content
<1> QED
  BY <1>2, <1>4, <1>5

\* Every key of an accepted plain text is that of one line.
LEMMA ParseIs ==
  ASSUME NEW S, NEW text \in Seq(S), IsPlain(text), Accepts(text)
  PROVE  /\ \A i \in Content(text) : Entry(Line(text, i)).key # <<>>
         /\ \A i, j \in Content(text) :
              Entry(Line(text, i)).key = Entry(Line(text, j)).key => i = j
         /\ ParseProperties(text) = [k \in DOMAIN ParseProperties(text) |-> ParseProperties(text)[k]]
         /\ \A k : k \in DOMAIN ParseProperties(text)
                     <=> \E i \in Content(text) : k = Entry(Line(text, i)).key
         /\ \A i \in Content(text) :
              ParseProperties(text)[Entry(Line(text, i)).key] = Entry(Line(text, i)).val
<1> DEFINE en == Entries(text)
           keys == {en[n].key : n \in DOMAIN en}
           P == ParseProperties(text)
<1>1. en = [i \in Content(text) |-> Entry(Line(text, i))]
  BY PlainEntries
<1>2. /\ \A n \in DOMAIN en : en[n].key # <<>>
      /\ \A m, n \in DOMAIN en : m # n => en[m].key # en[n].key
  BY Zenon DEF Accepts
<1>3. P = [k \in keys |-> en[CHOOSE n \in DOMAIN en : en[n].key = k].val]
  BY Zenon DEF ParseProperties
<1> HIDE DEF en, P
<1>4. DOMAIN en = Content(text) /\ \A i \in Content(text) : en[i] = Entry(Line(text, i))
  BY <1>1
<1>5. DOMAIN P = keys
  BY <1>3
<1>6. ASSUME NEW i \in Content(text) PROVE P[en[i].key] = en[i].val
  <2> DEFINE c == CHOOSE n \in DOMAIN en : en[n].key = en[i].key
  <2>1. c \in DOMAIN en /\ en[c].key = en[i].key
    BY <1>4
  <2>2. P[en[i].key] = en[c].val
    BY <1>3, <1>4
  <2> HIDE DEF c
  <2>3. c = i
    BY <1>2, <1>4, <2>1
  <2> QED
    BY <2>2, <2>3
<1>7. P = [k \in DOMAIN P |-> P[k]]
  BY <1>3, <1>5
<1>8. \A k : k \in keys <=> \E i \in Content(text) : k = Entry(Line(text, i)).key
  BY <1>4
<1>9. /\ \A i \in Content(text) : Entry(Line(text, i)).key # <<>>
      /\ \A i, j \in Content(text) :
              Entry(Line(text, i)).key = Entry(Line(text, j)).key => i = j
  BY <1>2, <1>4
<1>10. \A i \in Content(text) : P[Entry(Line(text, i)).key] = Entry(Line(text, i)).val
  BY <1>4, <1>6
<1> HIDE DEF keys
<1> QED
  BY <1>5, <1>7, <1>8, <1>9, <1>10 DEF P

LEMMA ContentLine ==
  ASSUME NEW S, NEW text \in Seq(S), IsPlain(text), NEW i \in Content(text)
  PROVE  /\ i \in Starts(text) /\ i \in Nat /\ IsContent(Line(text, i))
         /\ Line(text, i) \in Seq(S) /\ IsPlain(Line(text, i))
  BY StartsFinite, PlainLine DEF Content

\* What the kernel's reader takes, when every key is that of one line.
LEMMA DecodeIsOf ==
  ASSUME NEW text,
         Content(text) \in SUBSET Nat,
         \A i, j \in Content(text) :
           DecodeLine(Line(text, i)).key = DecodeLine(Line(text, j)).key => i = j
  PROVE  /\ DecodeProperties(text) = [k \in DOMAIN DecodeProperties(text) |-> DecodeProperties(text)[k]]
         /\ \A k : k \in DOMAIN DecodeProperties(text)
                     <=> \E i \in Content(text) : k = DecodeLine(Line(text, i)).key
         /\ \A i \in Content(text) :
              DecodeProperties(text)[DecodeLine(Line(text, i)).key] = DecodeLine(Line(text, i)).val
<1> DEFINE content == {i \in Starts(text) : IsContent(Line(text, i))}
           entry(i) == DecodeLine(Line(text, i))
           of(k) == {i \in content : entry(i).key = k}
           keys == {entry(i).key : i \in content}
           D == DecodeProperties(text)
<1>1. D = [k \in keys |-> entry(Max(of(k))).val]
  BY DEF DecodeProperties
<1>2. content = Content(text)
  BY DEF Content
<1> HIDE DEF content, D
<1>3. DOMAIN D = keys /\ D = [k \in DOMAIN D |-> D[k]]
  BY <1>1
<1>4. ASSUME NEW i \in content PROVE D[entry(i).key] = entry(i).val
  <2>1. of(entry(i).key) = {i}
    BY <1>2
  <2>2. Max({i}) = i
    BY <1>2, MaxOfOne
  <2>3. entry(i).key \in keys
    OBVIOUS
  <2> HIDE DEF entry, keys, of
  <2> QED
    BY <1>1, <2>1, <2>2, <2>3
<1>5. \A k : k \in keys <=> \E i \in Content(text) : k = entry(i).key
  BY <1>2
<1> HIDE DEF keys
<1> QED
  BY <1>2, <1>3, <1>4, <1>5 DEF D

\* The two readers agree on a plain text exactly if no line is apart at a blank.
LEMMA AlikeIff ==
  ASSUME NEW S, NEW text \in Seq(S), IsPlain(text), Accepts(text)
  PROVE  ReadAlike(text) <=> ~HasBlankSeparator(text)
<1> DEFINE P == ParseProperties(text)
           D == DecodeProperties(text)
           C == Content(text)
<1>1. /\ P = [k \in DOMAIN P |-> P[k]]
      /\ \A i, j \in C : Entry(Line(text, i)).key = Entry(Line(text, j)).key => i = j
      /\ \A k : k \in DOMAIN P <=> \E i \in C : k = Entry(Line(text, i)).key
      /\ \A i \in C : P[Entry(Line(text, i)).key] = Entry(Line(text, i)).val
  BY ParseIs
<1>2. ReadAlike(text) <=> D = [k \in DOMAIN P |-> Trim(P[k])]
  BY Zenon DEF ReadAlike
<1>3. HasBlankSeparator(text) <=> \E i \in C : BlankSeparated(Line(text, i))
  BY DEF HasBlankSeparator, Content
<1>4. ASSUME ~HasBlankSeparator(text) PROVE D = [k \in DOMAIN P |-> Trim(P[k])]
  <2>1. ASSUME NEW i \in C
        PROVE  /\ DecodeLine(Line(text, i)).key = Entry(Line(text, i)).key
               /\ DecodeLine(Line(text, i)).val = Trim(Entry(Line(text, i)).val)
    <3>1. /\ Line(text, i) \in Seq(S) /\ IsPlain(Line(text, i)) /\ IsContent(Line(text, i))
          /\ ~BlankSeparated(Line(text, i))
      BY <1>3, <1>4, ContentLine
    <3> QED
      BY <3>1, SameEntry
  <2>2. C \in SUBSET Nat
    BY ContentLine
  <2>3. \A i, j \in C : DecodeLine(Line(text, i)).key = DecodeLine(Line(text, j)).key => i = j
    <3> HIDE DEF C
    <3> QED
      BY <1>1, <2>1
  <2>4. /\ D = [k \in DOMAIN D |-> D[k]]
        /\ \A k : k \in DOMAIN D <=> \E i \in C : k = DecodeLine(Line(text, i)).key
        /\ \A i \in C : D[DecodeLine(Line(text, i)).key] = DecodeLine(Line(text, i)).val
    BY <2>2, <2>3, DecodeIsOf
  <2> HIDE DEF C, D, P
  <2>5. DOMAIN D = DOMAIN P
    BY <1>1, <2>1, <2>4
  <2>6. ASSUME NEW k \in DOMAIN P PROVE D[k] = Trim(P[k])
    <3>1. PICK i \in C : k = Entry(Line(text, i)).key
      BY <1>1
    <3>2. D[k] = DecodeLine(Line(text, i)).val /\ P[k] = Entry(Line(text, i)).val
      BY <1>1, <2>1, <2>4, <3>1
    <3> QED
      BY <2>1, <3>2
  <2> QED
    BY <2>4, <2>5, <2>6
<1>5. ASSUME HasBlankSeparator(text), D = [k \in DOMAIN P |-> Trim(P[k])] PROVE FALSE
  <2>1. PICK i \in C : BlankSeparated(Line(text, i))
    BY <1>3, <1>5
  <2>2. Line(text, i) \in Seq(S)
    BY ContentLine
  <2>3. \E j \in DOMAIN DecodeLine(Line(text, i)).key : DecodeLine(Line(text, i)).key[j] = Blank
    BY <2>1, <2>2, BlankApart
  <2> DEFINE k == DecodeLine(Line(text, i)).key
  <2>4. k \in DOMAIN D
    <3> DEFINE entry(m) == DecodeLine(Line(text, m))
    <3>1. \E val : D = [x \in {entry(m).key : m \in C} |-> val[x]]
      <4> DEFINE of(x) == {m \in C : entry(m).key = x}
                 val == [x \in {entry(m).key : m \in C} |-> entry(Max(of(x))).val]
      <4>1. D = val
        BY DEF DecodeProperties, Content
      <4>2. D = [x \in {entry(m).key : m \in C} |-> D[x]]
        <5> HIDE DEF D
        <5> QED
          BY <4>1
      <4> QED
        BY <4>2
    <3>2. DOMAIN D = {entry(m).key : m \in C}
      <4> HIDE DEF D, C
      <4> QED
        BY <3>1
    <3> QED
      BY <3>2
  <2>5. k \in DOMAIN P
    <3> HIDE DEF D, P, k
    <3> QED
      BY <1>5, <2>4
  <2>6. PICK m \in C : k = Entry(Line(text, m)).key
    <3> HIDE DEF P, k, C
    <3> QED
      BY <1>1, <2>5
  <2>7. Line(text, m) \in Seq(S) /\ IsPlain(Line(text, m)) /\ IsContent(Line(text, m))
    BY ContentLine
  <2>8. \A j \in DOMAIN Entry(Line(text, m)).key : Entry(Line(text, m)).key[j] \notin {"=", ":", Blank}
    BY <2>7, EntryKey
  <2> QED
    BY <2>3, <2>6, <2>8
<1> QED
  BY <1>2, <1>4, <1>5

\* Every character but the newlines is on a line.
LEMMA CharInLine ==
  ASSUME NEW S, NEW text \in Seq(S), NEW m \in 1 .. Len(text), text[m] # "\n"
  PROVE  \E i \in Starts(text) : \E j \in DOMAIN Line(text, i) : Line(text, i)[j] = text[m]
<1> DEFINE before == {i \in Starts(text) : i <= m}
<1>1. before \in SUBSET Nat /\ 1 \in before /\ m \in Nat /\ \A i \in before : i <= m
  BY DEF Starts
<1>2. PICK i \in before : \A j \in before : j <= i
  <2>1. Max(before) \in before /\ \A x \in before : x <= Max(before)
    <3> HIDE DEF before
    <3> QED
      BY <1>1, MaxIs
  <2> QED
    BY <2>1
<1>3. PICK e \in i - 1 .. Len(text) :
        /\ Line(text, i) = SubSeq(text, i, e)
        /\ \A j \in i .. e : text[j] # "\n"
        /\ e < Len(text) => text[e + 1] = "\n"
  BY <1>2, LineIs
<1>4. m <= e
  <2> SUFFICES ASSUME e < m PROVE FALSE
    BY <1>1, <1>2, <1>3
  <2>1. e < Len(text) /\ e + 1 # m /\ e + 1 \in DOMAIN text
    BY <1>1, <1>2, <1>3
  <2>2. e + 2 \in Starts(text) /\ e + 2 <= m
    <3>1. PICK d \in DOMAIN text : d = e + 1
      BY <2>1
    <3>2. text[d] = "\n" /\ d + 1 = e + 2 /\ d < m
      BY <1>1, <1>2, <1>3, <2>1, <3>1
    <3>3. d + 1 \in Starts(text)
      BY <3>2 DEF Starts
    <3> QED
      BY <3>2, <3>3
  <2> QED
    BY <1>1, <1>2, <1>3, <2>2
<1>5. m - i + 1 \in DOMAIN SubSeq(text, i, e) /\ SubSeq(text, i, e)[m - i + 1] = text[m]
  BY <1>1, <1>2, <1>3, <1>4
<1> QED
  BY <1>2, <1>3, <1>5

\* A key and a value that the validator reads as they are.
PlainKey(k) == /\ k # <<>> /\ IsPlain(k) /\ \A i \in DOMAIN k : k[i] \notin {"=", ":", Blank}

LEMMA EntryWritten ==
  ASSUME NEW k, NEW v, WrittenKey(k), WrittenVal(v), PlainKey(k), IsPlain(v)
  PROVE  LET line == k \o <<"=">> \o v
         IN  /\ line \in Seq(Chars) /\ IsPlain(line) /\ IsContent(line)
             /\ Entry(line).key = k /\ Entry(line).val = v
             /\ \E j \in DOMAIN line : line[j] \notin {Blank, "\n"}
<1> DEFINE line == k \o <<"=">> \o v
<1>1. IsContent(line)
  BY LineWritten
<1>2. line = k \o <<"=">> \o v
  OBVIOUS
<1> HIDE DEF line
<1>3. k \in Seq(Chars) /\ v \in Seq(Chars)
  BY DEF WrittenKey, WrittenVal
<1>4. PICK m, n \in Nat : Places(line, k, v, m, n)
  BY <1>2, <1>3, LinePlaces
<1>5. /\ m = Len(k) /\ n = m + 1 + Len(v)
      /\ line \in Seq(Chars) /\ Len(line) = n /\ DOMAIN line = 1 .. n /\ m + 1 \in 1 .. n
      /\ \A i \in 1 .. m : line[i] = k[i]
      /\ line[m + 1] = "="
      /\ \A i \in m + 2 .. n : line[i] = v[i - m - 1]
      /\ SubSeq(line, 1, m) = k /\ SubSeq(line, m + 2, n) = v
  BY <1>4 DEF Places
<1>6. 1 \in 1 .. m /\ m # 0
  BY <1>3, <1>5 DEF PlainKey
<1>7. \A i \in 1 .. m : line[i] \notin {"=", ":", Blank, "\\", "\n"}
  <2>1. \A i \in 1 .. m : k[i] \notin {"=", ":", Blank} /\ k[i] # "\\" /\ k[i] # "\n"
    BY <1>3, <1>5, PlainIs DEF PlainKey, WrittenKey
  <2> QED
    BY <1>5, <2>1
<1>8. IsPlain(line)
  <2>1. \A i \in m + 2 .. n : line[i] # "\\"
    <3>1. \A i \in m + 2 .. n : i - m - 1 \in 1 .. Len(v)
      BY <1>3, <1>5
    <3>2. \A i \in 1 .. Len(v) : v[i] # "\\"
      BY <1>3, PlainIs
    <3> QED
      BY <1>5, <3>1, <3>2
  <2>2. ASSUME NEW i \in 1 .. n PROVE i \in 1 .. m \/ i = m + 1 \/ i \in m + 2 .. n
    OBVIOUS
  <2>3. \A i \in 1 .. Len(line) : line[i] # "\\"
    BY <1>5, <1>7, <2>1, <2>2
  <2> QED
    BY <1>5, <2>3, PlainIs
<1>9. PICK p, i \in Nat :
        /\ LineParts(line, p, i)
        /\ Entry(line).key = SubSeq(line, p, i - 1)
        /\ ValueOf(line, i, Entry(line).val)
  BY <1>5, <1>1, <1>8, EntryIs
<1>10. p = 1 /\ i = m + 1
  <2>1. /\ p \in 1 .. n /\ i \in p .. n + 1
        /\ \A j \in 1 .. p - 1 : line[j] = Blank
        /\ \A j \in p .. i - 1 : line[j] \notin {"=", ":", Blank}
        /\ i <= n => line[i] \in {"=", ":", Blank}
    BY <1>5, <1>9 DEF LineParts
  <2>2. p = 1
    <3>1. p # 1 => 1 \in 1 .. p - 1
      BY <2>1
    <3> QED
      BY <1>6, <1>7, <2>1, <3>1
  <2>3. ~(i < m + 1)
    <3>1. i < m + 1 => i \in 1 .. m /\ i <= n
      BY <1>5, <2>1
    <3> QED
      BY <1>7, <2>1, <3>1
  <2>4. ~(i > m + 1)
    <3>1. i > m + 1 => m + 1 \in p .. i - 1
      BY <2>1, <2>2
    <3> QED
      BY <1>5, <2>1, <3>1
  <2> QED
    BY <2>1, <2>2, <2>3, <2>4
<1>11. Entry(line).key = k
  <2>1. SubSeq(line, p, i - 1) = SubSeq(line, 1, m)
    BY <1>10
  <2> QED
    BY <1>5, <1>9, <2>1
<1>12. Entry(line).val = v
  <2> DEFINE ev == Entry(line).val
  <2>1. ValueOf(line, i, ev)
    BY <1>9
  <2>2. i <= Len(line) /\ line[i] = "=" /\ line[i] # Blank /\ i # Len(line) + 1
    BY <1>5, <1>10, BlankIsNone
  <2> HIDE DEF ev
  <2>3. ev = TrimLeft(SubSeq(line, i + 1, Len(line)))
    BY <2>1, <2>2 DEF ValueOf
  <2>4. SubSeq(line, i + 1, Len(line)) = v
    <3>1. i + 1 = m + 2
      BY <1>10
    <3> QED
      BY <1>5, <3>1
  <2>5. TrimLeft(v) = v
    BY <1>3, TrimText DEF WrittenVal
  <2> QED
    BY <2>3, <2>4, <2>5 DEF ev
<1>13. \E j \in DOMAIN line : line[j] \notin {Blank, "\n"}
  BY <1>5, <1>6, <1>7
<1> QED
  BY <1>5, <1>1, <1>8, <1>11, <1>12, <1>13 DEF line

\* What the kernel writes of such keys and values, the validator accepts, and
\* reads as it was.
PlainMap(map) ==
  WrittenMap(map) /\ \A k \in DOMAIN map : PlainKey(k) /\ IsPlain(map[k])

LEMMA PlainReadsBack ==
  ASSUME NEW map, PlainMap(map), DOMAIN map # {}
  PROVE  Accepts(EncodeProperties(map)) /\ ParseProperties(EncodeProperties(map)) = map
<1>1. WrittenMap(map)
  BY DEF PlainMap
<1>2. PICK N \in Nat : \E ks \in [1 .. N -> DOMAIN map] :
           /\ \A i, j \in 1 .. N : ks[i] = ks[j] => i = j
           /\ \A k \in DOMAIN map : \E i \in 1 .. N : ks[i] = k
           /\ Written(map, ks, N, EncodeProperties(map))
  BY <1>1, EncodedLines
<1>3. PICK ks \in [1 .. N -> DOMAIN map] :
           /\ \A i, j \in 1 .. N : ks[i] = ks[j] => i = j
           /\ \A k \in DOMAIN map : \E i \in 1 .. N : ks[i] = k
           /\ Written(map, ks, N, EncodeProperties(map))
  BY <1>2
<1> DEFINE t == EncodeProperties(map)
<1>4. t \in Seq(Chars) /\ Ended(t)
  BY <1>3 DEF Written
<1>5. PICK place \in [1 .. N -> Nat] :
       /\ Starts(t) = {place[j] : j \in 1 .. N} \union {Len(t) + 1}
       /\ \A j \in 1 .. N : place[j] <= Len(t) /\ Line(t, place[j]) = LineOf(map, ks[j])
  BY <1>3 DEF Written
<1> HIDE DEF t
<1>6. ASSUME NEW j \in 1 .. N
      PROVE  /\ place[j] \in Starts(t) /\ IsContent(Line(t, place[j]))
             /\ Entry(Line(t, place[j])).key = ks[j]
             /\ Entry(Line(t, place[j])).val = map[ks[j]]
             /\ Line(t, place[j]) \in Seq(Chars) /\ IsPlain(Line(t, place[j]))
             /\ \E i \in DOMAIN Line(t, place[j]) : Line(t, place[j])[i] \notin {Blank, "\n"}
             /\ ks[j] # <<>>
  <2>1. WrittenKey(ks[j]) /\ WrittenVal(map[ks[j]]) /\ PlainKey(ks[j]) /\ IsPlain(map[ks[j]])
    BY DEF PlainMap, WrittenMap
  <2> DEFINE line == LineOf(map, ks[j])
  <2>2. /\ line \in Seq(Chars) /\ IsPlain(line) /\ IsContent(line)
        /\ Entry(line).key = ks[j] /\ Entry(line).val = map[ks[j]]
        /\ \E i \in DOMAIN line : line[i] \notin {Blank, "\n"}
    BY <2>1, EntryWritten DEF LineOf
  <2>3. Line(t, place[j]) = line
    BY <1>5
  <2>4. place[j] \in Starts(t)
    BY <1>5
  <2>5. ks[j] # <<>>
    BY <2>1 DEF PlainKey
  <2> HIDE DEF line
  <2> QED
    BY <2>2, <2>3, <2>4, <2>5
<1>7. Line(t, Len(t) + 1) = <<>>
  BY <1>4, LastIsEmpty
<1>8. Content(t) = {place[j] : j \in 1 .. N}
  BY <1>5, <1>6, <1>7, EmptyIsNoContent DEF Content
<1>9. IsPlain(t)
  <2>1. SUFFICES ASSUME NEW m \in 1 .. Len(t), t[m] = "\\" PROVE FALSE
    BY <1>4, PlainIs
  <2>2. t[m] # "\n"
    BY <2>1
  <2>3. PICK i \in Starts(t) : \E j \in DOMAIN Line(t, i) : Line(t, i)[j] = t[m]
    BY <1>4, <2>2, CharInLine
  <2>4. CASE i = Len(t) + 1
    BY <1>7, <2>3, <2>4
  <2>5. ASSUME NEW j \in 1 .. N, i = place[j] PROVE FALSE
    <3>1. Line(t, i) \in Seq(Chars) /\ IsPlain(Line(t, i))
      BY <1>6, <2>5
    <3>2. \A x \in DOMAIN Line(t, i) : Line(t, i)[x] # "\\"
      BY <3>1, PlainIs
    <3> QED
      BY <2>1, <2>3, <3>2
  <2> QED
    BY <1>5, <2>4, <2>5
<1>10. ~IsBlank(t)
  <2>1. 1 \in 1 .. N
    <3>1. PICK k \in DOMAIN map : TRUE
      OBVIOUS
    <3>2. PICK i \in 1 .. N : ks[i] = k
      BY <1>3
    <3> QED
      BY <3>2
  <2>2. PICK j \in DOMAIN Line(t, place[1]) : Line(t, place[1])[j] \notin {Blank, "\n"}
    BY <1>6, <2>1
  <2>3. \E m \in DOMAIN t : Line(t, place[1])[j] = t[m]
    BY <1>4, <1>6, <2>1, LineChars
  <2> QED
    BY <2>2, <2>3 DEF IsBlank
<1> DEFINE en == Entries(t)
<1>11. en = [i \in Content(t) |-> Entry(Line(t, i))]
  BY <1>4, <1>9, PlainEntries
<1>12. Accepts(t)
  <2> HIDE DEF en
  <2>1. ASSUME NEW n \in DOMAIN en PROVE \E j \in 1 .. N : n = place[j] /\ en[n].key = ks[j]
    <3>1. n \in Content(t) /\ en[n] = Entry(Line(t, n))
      BY <1>11
    <3>2. PICK j \in 1 .. N : n = place[j]
      BY <1>8, <3>1
    <3> QED
      BY <1>6, <3>1, <3>2
  <2>2. \A n \in DOMAIN en : en[n].key # <<>>
    BY <1>6, <2>1
  <2>3. \A m, n \in DOMAIN en : m # n => en[m].key # en[n].key
    BY <1>3, <2>1
  <2> QED
    BY <1>10, <2>2, <2>3, Zenon DEF Accepts, en
<1> DEFINE P == ParseProperties(t)
<1>13. /\ P = [k \in DOMAIN P |-> P[k]]
       /\ \A k : k \in DOMAIN P <=> \E i \in Content(t) : k = Entry(Line(t, i)).key
       /\ \A i \in Content(t) : P[Entry(Line(t, i)).key] = Entry(Line(t, i)).val
  BY <1>4, <1>9, <1>12, ParseIs
<1> HIDE DEF P
<1>14. ASSUME NEW k \in DOMAIN map PROVE k \in DOMAIN P /\ P[k] = map[k]
  <2>1. PICK j \in 1 .. N : ks[j] = k
    BY <1>3
  <2>2. place[j] \in Content(t)
    BY <1>8
  <2>3. Entry(Line(t, place[j])).key = k /\ Entry(Line(t, place[j])).val = map[k]
    BY <1>6, <2>1
  <2> QED
    BY <1>13, <2>2, <2>3
<1>15. ASSUME NEW k \in DOMAIN P PROVE k \in DOMAIN map
  <2>1. PICK i \in Content(t) : k = Entry(Line(t, i)).key
    BY <1>13
  <2>2. PICK j \in 1 .. N : i = place[j]
    BY <1>8
  <2>3. k = ks[j]
    BY <1>6, <2>1, <2>2
  <2> QED
    BY <2>3
<1>16. DOMAIN P = DOMAIN map
  BY <1>14, <1>15
<1>17. map = [k \in DOMAIN map |-> map[k]]
  BY <1>1 DEF WrittenMap
<1>18. P = map
  BY <1>13, <1>14, <1>16, <1>17
<1> QED
  BY <1>12, <1>18 DEF P, t

\* A plain text that both readers read alike gives such keys and values.
LEMMA AlikeIsPlain ==
  ASSUME NEW text \in Seq(Chars), IsPlain(text), Accepts(text), ReadAlike(text)
  PROVE  PlainMap(DecodeProperties(text))
<1> DEFINE P == ParseProperties(text)
           D == DecodeProperties(text)
<1>1. /\ \A i \in Content(text) : Entry(Line(text, i)).key # <<>>
      /\ \A k : k \in DOMAIN P <=> \E i \in Content(text) : k = Entry(Line(text, i)).key
      /\ \A i \in Content(text) : P[Entry(Line(text, i)).key] = Entry(Line(text, i)).val
  BY ParseIs
<1>2. D = [k \in DOMAIN P |-> Trim(P[k])]
  BY Zenon DEF ReadAlike
<1>3. WrittenMap(D)
  BY DecodeWritten
<1> HIDE DEF P, D
<1>4. ASSUME NEW k \in DOMAIN D PROVE PlainKey(k) /\ IsPlain(D[k])
  <2>1. k \in DOMAIN P /\ D[k] = Trim(P[k])
    BY <1>2
  <2>2. PICK i \in Content(text) : k = Entry(Line(text, i)).key
    BY <1>1, <2>1
  <2>3. Line(text, i) \in Seq(Chars) /\ IsPlain(Line(text, i)) /\ IsContent(Line(text, i))
    BY ContentLine
  <2>4. /\ \A j \in DOMAIN k : k[j] \notin {"=", ":", Blank}
        /\ IsPlain(k)
    BY <2>2, <2>3, EntryKey
  <2>5. k # <<>>
    BY <1>1, <2>2
  <2>6. P[k] \in Seq(Chars) /\ IsPlain(P[k])
    <3>1. Entry(Line(text, i)).val \in Seq(Chars) /\ IsPlain(Entry(Line(text, i)).val)
      BY <2>3, EntryIs
    <3> QED
      BY <1>1, <2>2, <3>1
  <2>7. IsPlain(Trim(P[k]))
    BY <2>6, TrimPlain
  <2> QED
    BY <2>1, <2>4, <2>5, <2>7 DEF PlainKey
<1>5. PlainMap(D)
  BY <1>3, <1>4 DEF PlainMap
<1> QED
  BY <1>5 DEF D

-----------------------------------------------------------------------------
\* The inductive invariant of properties texts: what is merged of them is a map
\* the writer can write, and one the validator reads when it reads the layers
\* as the kernel does.
AllAlike == \A l \in DOMAIN texts : IsPlain(texts[l]) /\ ReadAlike(texts[l])

LayerMap(l) == DecodeProperties(texts[l])

TextsInv ==
  /\ pc = "idle" => texts = Nothing
  /\ \A l \in DOMAIN texts : texts[l] \in Seq(Chars) /\ Accepts(texts[l])
  /\ texts # Nothing =>
       /\ target = "keyOverride"
       /\ \A l \in Present : l \in DOMAIN texts /\ inputs[l] = Decoded(l, texts[l])
       /\ WrittenMap(RootMap)
       /\ AllAlike => PlainMap(RootMap)
       /\ pc = "return" => rendered = EncodeProperties(RootMap)

LEMMA MapsOver ==
  ASSUME NEW a, NEW b, WrittenMap(a), WrittenMap(b)
  PROVE  /\ WrittenMap(Put(a, b))
         /\ PlainMap(a) /\ PlainMap(b) => PlainMap(Put(a, b))
<1> DEFINE c == Put(a, b)
<1>1. /\ DOMAIN c = DOMAIN a \union DOMAIN b /\ c = [k \in DOMAIN c |-> c[k]]
      /\ \A k \in DOMAIN c : c[k] = IF k \in DOMAIN b THEN b[k] ELSE a[k]
  BY DEF Put
<1> HIDE DEF c
<1>2. IsFiniteSet(DOMAIN c)
  <2>1. IsFiniteSet(DOMAIN a) /\ IsFiniteSet(DOMAIN b)
    BY DEF WrittenMap
  <2>2. IsFiniteSet(DOMAIN a \union DOMAIN b)
    BY <2>1, FS_Union
  <2> QED
    BY <1>1, <2>2
<1>3. \A k \in DOMAIN c : WrittenKey(k) /\ WrittenVal(c[k])
  BY <1>1 DEF WrittenMap
<1>4. WrittenMap(c)
  BY <1>1, <1>2, <1>3 DEF WrittenMap
<1>5. PlainMap(a) /\ PlainMap(b) => \A k \in DOMAIN c : PlainKey(k) /\ IsPlain(c[k])
  BY <1>1 DEF PlainMap
<1> QED
  BY <1>4, <1>5 DEF PlainMap, c

LEMMA EmptyMap ==
  ASSUME NEW map, DOMAIN map = {}, map = [k \in DOMAIN map |-> map[k]]
  PROVE  WrittenMap(map) /\ PlainMap(map) /\ map = Nothing
<1>1. IsFiniteSet({})
  BY FS_EmptySet
<1>2. WrittenMap(map)
  BY <1>1 DEF WrittenMap
<1> QED
  BY <1>2 DEF PlainMap, Nothing

\* A layer merged over the root is its map put over the root's.
LEMMA RootMapMoves ==
  ASSUME NEW l \in todo, MergeLayer(l), target = "keyOverride", inputs[l] = Decoded(l, texts[l])
  PROVE  RootMap' = Put(RootMap, LayerMap(l))
<1> DEFINE map == LayerMap(l)
           doc == [k \in DOMAIN map |-> TextLeaf(l, map[k])]
<1>1. root' = Put(root, inputs[l].fields)
  BY DEF MergeLayer, Overlay, KeyOverride
<1>2. inputs[l].fields = doc
  BY DEF Decoded, Object, LayerMap
<1> HIDE DEF map
<1>3. \A k \in DOMAIN map : doc[k].text = map[k]
  BY DEF TextLeaf
<1>4. DOMAIN doc = DOMAIN map
  OBVIOUS
<1> HIDE DEF doc
<1>5. /\ DOMAIN (root') = DOMAIN root \union DOMAIN map
      /\ \A k \in DOMAIN (root') : root'[k] = IF k \in DOMAIN map THEN doc[k] ELSE root[k]
  BY <1>1, <1>2, <1>4 DEF Put
<1>6. RootMap' = [k \in DOMAIN (root') |-> root'[k].text]
  BY DEF RootMap
<1>7. DOMAIN RootMap = DOMAIN root /\ \A k \in DOMAIN root : RootMap[k] = root[k].text
  BY DEF RootMap
<1>8. Put(RootMap, map) = [k \in DOMAIN root \union DOMAIN map |->
                              IF k \in DOMAIN map THEN map[k] ELSE RootMap[k]]
  BY <1>7 DEF Put
<1>9. \A k \in DOMAIN root \union DOMAIN map :
        root'[k].text = IF k \in DOMAIN map THEN map[k] ELSE RootMap[k]
  BY <1>3, <1>5, <1>7
<1>10. RootMap' = Put(RootMap, map)
  BY <1>5, <1>6, <1>8, <1>9
<1> QED
  BY <1>10 DEF map

LEMMA TextsInit == Init => TextsInv
<1> SUFFICES ASSUME Init PROVE TextsInv
  OBVIOUS
<1>1. DOMAIN texts = {} /\ texts = Nothing
  BY DEF Init, Nothing
<1> QED
  BY <1>1 DEF TextsInv

LEMMA TextsAccepted ==
  ASSUME KernelInv, pc = "idle", NEW ts, MergeTexts(ts),
         \A l \in DOMAIN ts : ts[l] \in Seq(Chars)
  PROVE  TextsInv'
<1> DEFINE ls == [l \in Layers |-> IF l \in DOMAIN ts THEN Decoded(l, ts[l]) ELSE Absent]
<1>1. /\ pc' = "merge" /\ target' = "keyOverride" /\ inputs' = ls /\ root' = Nothing
      /\ texts' = ts /\ \A l \in DOMAIN ts : Accepts(ts[l])
  BY DEF MergeTexts, Merge, KernelInv
<1>2. ASSUME NEW l \in Present' PROVE l \in DOMAIN texts' /\ inputs'[l] = Decoded(l, texts'[l])
  <2>1. l \in Layers /\ ls[l] # Absent
    BY <1>1 DEF Present
  <2>2. l \in DOMAIN ts /\ ls[l] = Decoded(l, ts[l])
    BY <2>1
  <2> HIDE DEF ls
  <2> QED
    BY <1>1, <2>2
<1> HIDE DEF ls
<1>3. RootMap' = [k \in DOMAIN Nothing |-> Nothing[k].text] /\ DOMAIN Nothing = {}
  BY <1>1 DEF RootMap, Nothing
<1>4. DOMAIN (RootMap') = {} /\ RootMap' = [k \in DOMAIN (RootMap') |-> RootMap'[k]]
  BY <1>3
<1>5. WrittenMap(RootMap') /\ PlainMap(RootMap')
  <2>1. PICK m : m = RootMap'
    OBVIOUS
  <2>2. WrittenMap(m) /\ PlainMap(m)
    BY <1>4, <2>1, EmptyMap
  <2> QED
    BY <2>1, <2>2
<1> QED
  BY <1>1, <1>2, <1>5 DEF TextsInv, WrittenMap, PlainMap

LEMMA TextsMerge ==
  ASSUME KernelInv, TextsInv, NEW l \in todo, MergeLayer(l)
  PROVE  TextsInv'
<1>1. /\ pc = "merge" /\ pc' = "merge" /\ target' = target /\ inputs' = inputs
      /\ texts' = texts /\ Present' = Present /\ l \in Present
  BY DEF MergeLayer, KernelInv, Present
<1>2. CASE texts = Nothing
  BY <1>1, <1>2 DEF TextsInv
<1>3. CASE texts # Nothing
  <2>1. /\ target = "keyOverride" /\ l \in DOMAIN texts /\ inputs[l] = Decoded(l, texts[l])
        /\ WrittenMap(RootMap) /\ texts[l] \in Seq(Chars) /\ Accepts(texts[l])
    BY <1>1, <1>3 DEF TextsInv
  <2>2. PICK a, b, c : a = RootMap /\ b = LayerMap(l) /\ c = RootMap'
    OBVIOUS
  <2>3. c = Put(a, b)
    BY <2>1, <2>2, RootMapMoves
  <2>4. WrittenMap(b)
    BY <2>1, <2>2, DecodeWritten DEF LayerMap
  <2>5. AllAlike => PlainMap(a) /\ PlainMap(b)
    <3>1. AllAlike => PlainMap(RootMap)
      BY <1>3 DEF TextsInv
    <3>2. AllAlike => IsPlain(texts[l]) /\ ReadAlike(texts[l])
      BY <2>1 DEF AllAlike
    <3>3. AllAlike => PlainMap(DecodeProperties(texts[l]))
      BY <2>1, <3>2, AlikeIsPlain
    <3> QED
      BY <2>2, <3>1, <3>3 DEF LayerMap
  <2>6. WrittenMap(c) /\ (AllAlike => PlainMap(c))
    BY <2>1, <2>2, <2>3, <2>4, <2>5, MapsOver
  <2>7. AllAlike' <=> AllAlike
    BY <1>1 DEF AllAlike
  <2>8. /\ pc' = "idle" => texts' = Nothing
        /\ \A x \in DOMAIN texts' : texts'[x] \in Seq(Chars) /\ Accepts(texts'[x])
        /\ target' = "keyOverride"
        /\ \A x \in Present' : x \in DOMAIN texts' /\ inputs'[x] = Decoded(x, texts'[x])
    BY <1>1, <1>3 DEF TextsInv
  <2>9. WrittenMap(RootMap)' /\ (AllAlike' => PlainMap(RootMap)')
    BY <2>2, <2>6, <2>7 DEF WrittenMap, PlainMap
  <2> QED
    BY <1>1, <2>8, <2>9 DEF TextsInv
<1> QED
  BY <1>2, <1>3

LEMMA TextsNext == KernelInv /\ TextsInv /\ [Next]_vars => TextsInv'
<1> SUFFICES ASSUME KernelInv, TextsInv, [Next]_vars PROVE TextsInv'
  OBVIOUS
<1>1. CASE \E t \in Targets, p \in Inputs("public"), n \in Inputs("namespace"), g \in Inputs("group") :
             pc = "idle" /\ MergeDocs(t, [public |-> p, namespace |-> n, group |-> g])
  <2>1. texts' = Nothing /\ pc' = "merge"
    BY <1>1 DEF TextsInv, MergeDocs, Merge
  <2>2. DOMAIN Nothing = {}
    BY DEF Nothing
  <2> QED
    BY <2>1, <2>2 DEF TextsInv
<1>2. CASE pc = "idle" /\ \E text \in LoneTexts : MergeTexts([l \in {"namespace"} |-> text])
  <2>1. PICK text \in LoneTexts : MergeTexts([l \in {"namespace"} |-> text])
    BY <1>2
  <2> DEFINE ts == [l \in {"namespace"} |-> text]
  <2>2. \A l \in DOMAIN ts : ts[l] \in Seq(Chars)
    BY TextsAssumption
  <2>3. MergeTexts(ts)
    BY <2>1
  <2> HIDE DEF ts
  <2> QED
    BY <1>2, <2>2, <2>3, TextsAccepted
<1>3. CASE pc = "idle" /\ \E weak \in WeakTexts, strong \in StrongTexts :
             MergeTexts([l \in {"public", "group"} |-> IF l = "public" THEN weak ELSE strong])
  <2>1. PICK weak \in WeakTexts, strong \in StrongTexts :
             MergeTexts([l \in {"public", "group"} |-> IF l = "public" THEN weak ELSE strong])
    BY <1>3
  <2> DEFINE ts == [l \in {"public", "group"} |-> IF l = "public" THEN weak ELSE strong]
  <2>2. \A l \in DOMAIN ts : ts[l] \in Seq(Chars)
    BY TextsAssumption
  <2>3. MergeTexts(ts)
    BY <2>1
  <2> HIDE DEF ts
  <2> QED
    BY <1>3, <2>2, <2>3, TextsAccepted
<1>4. CASE \E l \in todo : MergeLayer(l)
  BY <1>4, TextsMerge
<1>5. CASE Return
  <2>1. /\ pc' = "return" /\ texts' = texts /\ target' = target /\ inputs' = inputs /\ root' = root
        /\ texts # Nothing => rendered' = EncodeProperties(RootMap)
    BY <1>5 DEF Return
  <2>2. Present' = Present /\ RootMap' = RootMap /\ (AllAlike' <=> AllAlike)
    BY <2>1 DEF Present, RootMap, AllAlike
  <2>3. WrittenMap(RootMap)' <=> WrittenMap(RootMap)
    BY <2>2 DEF WrittenMap
  <2>4. PlainMap(RootMap)' <=> PlainMap(RootMap)
    BY <2>2, <2>3 DEF PlainMap
  <2>5. texts # Nothing => rendered' = EncodeProperties(RootMap)'
    BY <2>1, <2>2
  <2> QED
    BY <2>1, <2>2, <2>3, <2>4, <2>5 DEF TextsInv
<1>6. CASE TakeAnswer
  <2>1. texts' = Nothing
    BY <1>6 DEF TakeAnswer
  <2>2. DOMAIN Nothing = {}
    BY DEF Nothing
  <2> QED
    BY <2>1, <2>2 DEF TextsInv
<1>7. CASE UNCHANGED vars
  <2>1. /\ pc' = pc /\ texts' = texts /\ target' = target /\ inputs' = inputs /\ root' = root
        /\ rendered' = rendered
    BY <1>7 DEF vars
  <2>2. Present' = Present /\ RootMap' = RootMap /\ (AllAlike' <=> AllAlike)
    BY <2>1 DEF Present, RootMap, AllAlike
  <2>3. WrittenMap(RootMap)' <=> WrittenMap(RootMap)
    BY <2>2 DEF WrittenMap
  <2>4. PlainMap(RootMap)' <=> PlainMap(RootMap)
    BY <2>2, <2>3 DEF PlainMap
  <2>5. EncodeProperties(RootMap)' = EncodeProperties(RootMap)
    BY <2>2
  <2> QED
    BY <2>1, <2>2, <2>3, <2>4, <2>5 DEF TextsInv
<1> QED
  BY <1>1, <1>2, <1>3, <1>4, <1>5, <1>6, <1>7 DEF Next

\* For texts of any characters: without backslashes, the validator and the
\* kernel read the same exactly if no line is apart at a blank.
THEOREM ReadersAgreeOnTexts == Spec => []ReadersAgree
<1>1. TextsInv => ReadersAgree
  <2> SUFFICES ASSUME TextsInv, NEW l \in DOMAIN texts, IsPlain(texts[l])
               PROVE  ReadAlike(texts[l]) <=> ~HasBlankSeparator(texts[l])
    BY DEF ReadersAgree
  <2>1. PICK text \in Seq(Chars) : text = texts[l] /\ Accepts(text) /\ IsPlain(text)
    BY DEF TextsInv
  <2>2. ReadAlike(text) <=> ~HasBlankSeparator(text)
    BY <2>1, AlikeIff
  <2> QED
    BY <2>1, <2>2
<1> QED
  BY <1>1, TextsInit, TextsNext, KernelAlways, PTL DEF Spec

\* Whatever is merged of texts, what is rendered is read back as it was, by the
\* kernel always, and by the validator when it reads the layers alike.
THEOREM RenderedIsReadBack == Spec => []RenderReadsBack
<1>1. TextsInv => RenderReadsBack
  <2> SUFFICES ASSUME TextsInv, pc = "return", texts # Nothing
               PROVE  /\ DecodeProperties(rendered) = RootMap
                      /\ AllAlike => \/ RootMap = Nothing
                                     \/ Accepts(rendered) /\ ParseProperties(rendered) = RootMap
    BY DEF RenderReadsBack, AllAlike
  <2>1. PICK map : map = RootMap
    OBVIOUS
  <2>2. WrittenMap(map) /\ (AllAlike => PlainMap(map)) /\ rendered = EncodeProperties(map)
    BY <2>1 DEF TextsInv
  <2>3. DecodeProperties(rendered) = map
    BY <2>2, ReadsBack
  <2>4. ASSUME AllAlike, DOMAIN map # {}
        PROVE  Accepts(rendered) /\ ParseProperties(rendered) = map
    BY <2>2, <2>4, PlainReadsBack
  <2>5. DOMAIN map = {} => map = Nothing
    BY <2>2, EmptyMap DEF WrittenMap
  <2> QED
    BY <2>1, <2>3, <2>4, <2>5
<1> QED
  BY <1>1, TextsInit, TextsNext, KernelAlways, PTL DEF Spec
=============================================================================
