---------------------------- MODULE MergeKernel -----------------------------
(***************************************************************************)
(* The merge of one key's layers into one document with the source of every *)
(* leaf (merge/merge.go, Merge), and the source of the whole key            *)
(* (service/effective.go, groupSnapshot).                                   *)
(*                                                                         *)
(* A document is a function from keys, which are texts, to values; a value  *)
(* is a leaf or an object, which is a document again.  All that is kept of  *)
(* a leaf's content is the layer that wrote it.  For three of the four      *)
(* formats parsing and rendering are libraries' and left out: what reaches  *)
(* the merge was validated when it was committed, so it parses to an        *)
(* object.  Properties are read and written by the module PropertiesFormat. *)
(* Sources are recorded under flat paths, the keys of a path joined by      *)
(* dots; a key may hold a dot itself.  The value Merge returns beside each  *)
(* source (KeyResult.Value, read by leafAt) has no reader in the program    *)
(* and is left out.                                                         *)
(***************************************************************************)
EXTENDS Naturals, Sequences, PropertiesFormat

CONSTANTS
  Keys,          \* field names, texts
  Depth,         \* how deep objects nest at most
  Documents,     \* Documents[l][n]: layer l's documents that nest at most n deep
  Chars,         \* characters of properties texts
  LoneTexts,     \* properties texts of a key that one layer holds
  WeakTexts,     \* and of a key that two layers hold, the weaker
  StrongTexts    \* and the stronger one

Layers == {"public", "namespace", "group"}

LayerPriority == [l \in Layers |-> CASE l = "public" -> 0
                                     [] l = "namespace" -> 1
                                     [] l = "group" -> 2]

\* JSON and YAML are merged deeply, properties and TOML by top-level key.
Targets == {"deep", "keyOverride"}

NoLayer == "none"

VARIABLES
  target,      \* the kind of the output format
  inputs,      \* inputs[l]: layer l's document, or Absent
  todo,        \* the layers not merged yet
  root,        \* the merged document
  sources,     \* the layer recorded for each flat path
  texts,       \* texts[l]: layer l's properties text, when that is its format
  rendered,    \* the merged document as a properties text
  pc           \* "idle", "merge" or "return"

vars == <<target, inputs, todo, root, sources, texts, rendered, pc>>

Leaf(l)     == [kind |-> "leaf", of |-> l]
TextLeaf(l, v) == [kind |-> "leaf", of |-> l, text |-> v]
Object(doc) == [kind |-> "object", fields |-> doc]
Absent      == [kind |-> "absent"]
IsObject(v) == v.kind = "object"

\* A layer's document has leaves of that layer only, at every level.
ASSUME KernelAssumption ==
  /\ Depth \in Nat
  /\ \A l \in Layers : \A n \in 0..Depth : \A doc \in Documents[l][n] :
       /\ doc = [key \in DOMAIN doc |-> doc[key]] /\ DOMAIN doc \subseteq Keys
       /\ \A key \in DOMAIN doc :
            \/ doc[key] = Leaf(l)
            \/ n > 0 /\ \E sub \in Documents[l][n - 1] : doc[key] = Object(sub)

\* Texts are made of characters, among them those the writer adds.
ASSUME TextsAssumption ==
  /\ {"=", "\n"} \subseteq Chars
  /\ LoneTexts \union WeakTexts \union StrongTexts \subseteq Seq(Chars)

Inputs(l) == {Absent} \union {Object(doc) : doc \in Documents[l][Depth]}

-----------------------------------------------------------------------------
\* The value at a path of a document: down from field to field, nothing once a
\* value is no object or lacks the field.
At(doc, path) ==
  LET cur[n \in 0..Len(path)] ==
        IF n = 0 THEN Object(doc)
        ELSE IF IsObject(cur[n - 1]) /\ path[n] \in DOMAIN cur[n - 1].fields
               THEN cur[n - 1].fields[path[n]]
               ELSE Absent
  IN  cur[Len(path)]

\* The paths of all the values of a document, and of its leaves.
Nodes(doc) ==
  LET paths == UNION {[1..n -> Keys \union DOMAIN doc] : n \in 1..Depth + 1}
  IN  {p \in paths : At(doc, p) # Absent}
LeafPaths(doc) == {p \in Nodes(doc) : ~IsObject(At(doc, p))}

\* The prefixes at which two documents both have an object.
BothObjects(dst, src) ==
  {p \in {<<>>} \union Nodes(src) : IsObject(At(dst, p)) /\ IsObject(At(src, p))}

\* A stronger document over a weaker one: objects are merged field by field,
\* every other value is replaced as a whole.
DeepMerge(dst, src) ==
  LET merged[prefix \in BothObjects(dst, src)] ==
        LET d == At(dst, prefix).fields
            s == At(src, prefix).fields
        IN  [key \in DOMAIN d \union DOMAIN s |->
               IF key \notin DOMAIN s THEN d[key]
               ELSE IF key \in DOMAIN d /\ IsObject(d[key]) /\ IsObject(s[key])
                      THEN Object(merged[Append(prefix, key)])
                      ELSE s[key]]
  IN  merged[<<>>]

\* A map with the entries of another put into it.
Put(f, g) == [x \in DOMAIN f \union DOMAIN g |-> IF x \in DOMAIN g THEN g[x] ELSE f[x]]

KeyOverride(dst, src) == Put(dst, src)

\* wrong: an object of the stronger layer replaces the weaker one's
OverlayShallow(dst, src) == KeyOverride(dst, src)

Overlay(dst, src) == IF target = "deep" THEN DeepMerge(dst, src) ELSE KeyOverride(dst, src)

\* wrong: the leaves of an inserted object are not marked
MarkedTopOnly(doc) == {<<key>> : key \in DOMAIN doc}

\* A path as one text, the keys joined by dots; nothing is put before a key when
\* what precedes it is the empty text.
JoinPath(prefix, key) == IF prefix = <<>> THEN key ELSE prefix \o <<".">> \o key
FlatPath(path) == FoldLeft(JoinPath, <<>>, path)

\* The paths whose source a document becomes: its leaves, whether deepMerge
\* reaches them or markLeaves does, or its keys.
Marked(doc) ==
  IF target = "deep" THEN LeafPaths(doc) ELSE {<<key>> : key \in DOMAIN doc}

\* wrong: the layers are taken strongest first
IsNextStrongest(l) == \A x \in todo : LayerPriority[x] <= LayerPriority[l]

\* The layers are sorted by priority.
IsNext(l) == \A x \in todo : LayerPriority[l] <= LayerPriority[x]

Nothing == [key \in {} |-> NoLayer]
NoInputs == [l \in Layers |-> Absent]

Init ==
  /\ target = "deep" /\ inputs = NoInputs /\ todo = {}
  /\ root = Nothing /\ sources = Nothing
  /\ texts = Nothing /\ rendered = <<>>
  /\ pc = "idle"

Merge(t, ls) ==
  /\ pc' = "merge"
  /\ target' = t /\ inputs' = ls
  /\ todo' = {l \in Layers : ls[l] # Absent}
  /\ UNCHANGED <<root, sources, rendered>>

\* A layer's properties text as the document the merge works on.
Decoded(l, text) ==
  LET map == DecodeProperties(text)
  IN  Object([k \in DOMAIN map |-> TextLeaf(l, map[k])])

\* Merge of documents of one of the other formats.
MergeDocs(t, ls) == Merge(t, ls) /\ UNCHANGED texts

\* Merge of properties texts, which the validator accepted when they were
\* committed.
MergeTexts(ts) ==
  /\ \A l \in DOMAIN ts : Accepts(ts[l])
  /\ texts' = ts
  /\ Merge("keyOverride",
           [l \in Layers |-> IF l \in DOMAIN ts THEN Decoded(l, ts[l]) ELSE Absent])

MergeLayer(l) ==
  /\ pc = "merge" /\ IsNext(l)
  /\ LET parsed == inputs[l].fields
     IN  /\ root' = Overlay(root, parsed)
         /\ sources' = Put(sources, [f \in {FlatPath(p) : p \in Marked(parsed)} |-> l])
  /\ todo' = todo \ {l}
  /\ UNCHANGED <<target, inputs, texts, rendered, pc>>

\* The values of a merged properties document.
RootMap == [k \in DOMAIN root |-> root[k].text]

\* The answer, rendered in the target format.
Return ==
  /\ pc = "merge" /\ todo = {}
  /\ pc' = "return"
  /\ rendered' = IF texts = Nothing THEN <<>> ELSE EncodeProperties(RootMap)
  /\ UNCHANGED <<target, inputs, todo, root, sources, texts>>

\* The caller takes the answer and the call's variables are gone.
TakeAnswer ==
  /\ pc = "return" /\ pc' = "idle"
  /\ target' = "deep" /\ inputs' = NoInputs /\ root' = Nothing /\ sources' = Nothing
  /\ texts' = Nothing /\ rendered' = <<>>
  /\ UNCHANGED todo

Next ==
  \/ /\ pc = "idle"
     /\ \E t \in Targets, p \in Inputs("public"), n \in Inputs("namespace"), g \in Inputs("group") :
          MergeDocs(t, [public |-> p, namespace |-> n, group |-> g])
  \/ /\ pc = "idle"
     /\ \E text \in LoneTexts : MergeTexts([l \in {"namespace"} |-> text])
  \/ /\ pc = "idle"
     /\ \E weak \in WeakTexts, strong \in StrongTexts :
          MergeTexts([l \in {"public", "group"} |-> IF l = "public" THEN weak ELSE strong])
  \/ \E l \in todo : MergeLayer(l)
  \/ Return \/ TakeAnswer

Spec == Init /\ [][Next]_vars

\* groupSnapshot: the source of the whole key is the strongest layer among the
\* sources of its fields.
EntrySource ==
  LET found == {sources[p] : p \in DOMAIN sources}
  IN  IF found = {} THEN NoLayer
      ELSE CHOOSE l \in found : \A x \in found : LayerPriority[x] <= LayerPriority[l]

-----------------------------------------------------------------------------
Present == {l \in Layers : inputs[l] # Absent}
Stronger(l) == {x \in Present : LayerPriority[x] > LayerPriority[l]}
PathPrefixes(path) == {SubSeq(path, 1, n) : n \in 1..Len(path)}

\* Reference definition, by path and without merging: layer l's leaf at path p
\* is hidden when a stronger layer has a value at p, or a leaf above it; when
\* keys are overridden, when a stronger layer has its top-level key.
Hidden(l, p) ==
  \E x \in Stronger(l) :
    LET doc == inputs[x].fields
    IN  IF target = "deep"
        THEN p \in Nodes(doc) \/ \E q \in PathPrefixes(p) : q \in LeafPaths(doc)
        ELSE p[1] \in DOMAIN doc

Surviving ==
  UNION {{<<p, l>> : p \in {q \in LeafPaths(inputs[l].fields) : ~Hidden(l, q)}} : l \in Present}

\* "A lower (stronger) layer overrides an upper (weaker) one ... deep-merged
\* object by object; Properties and TOML documents are overridden at the
\* top-level key" (merge.go:9-11): the merged document has exactly the leaves
\* no stronger layer hides, whatever objects and leaves replace each other on
\* the way from the weakest layer to the strongest.
RootIsOverlay ==
  pc = "return" => {<<p, At(root, p).of>> : p \in LeafPaths(root)} = Surviving

\* "Every surviving leaf key keeps a reference to the layer it came from"
\* (merge.go:11-12): the map of sources, filled beside the document, names the
\* owner of a leaf of the result, or of its top-level key, unless a stronger
\* layer has a leaf at another path that reads the same with dots between the
\* keys (joinPath, merge.go:174): {"a.b":1} under {"a":{"b":2}}.  That is the
\* only way a leaf loses its owner, and then it always does.
LeavesKeepTheirSource ==
  pc = "return" =>
    \A owned \in Surviving :
      LET path == IF target = "deep" THEN owned[1] ELSE <<owned[1][1]>>
          covered == \E x \in Stronger(owned[2]) : \E q \in Marked(inputs[x].fields) :
                       q # path /\ FlatPath(q) = FlatPath(path)
      IN  /\ FlatPath(path) \in DOMAIN sources
          /\ sources[FlatPath(path)] = owned[2] <=> ~covered

\* Sources also keep paths that are no longer leaves: a value was replaced by
\* an object or the reverse (merge.go:134-140 remove nothing).  Such an entry
\* is never the strongest of its document and so never decides the source of
\* the whole key ("strongest layer among surviving leaves", effective.go:220),
\* as long as no layer holds an empty object, which replaces and is no leaf.
EntrySourceSurvives ==
  pc = "return" /\ (\A l \in Present : \A p \in Nodes(inputs[l].fields) :
                       At(inputs[l].fields, p) # Object(Nothing))
    => LET owners == {e[2] : e \in Surviving}
       IN  IF owners = {} THEN EntrySource = NoLayer
           ELSE /\ EntrySource \in owners
                /\ \A l \in owners : LayerPriority[l] <= LayerPriority[EntrySource]

\* A text without backslashes has a line apart at a blank when the validator
\* splits it there and at no "=" or ":".
IsPlain(text) == "\\" \notin {text[i] : i \in DOMAIN text}
BlankSeparated(line) ==
  \E i \in DOMAIN line :
    /\ \A j \in 1..i : line[j] \notin {"=", ":"}
    /\ line[i] = Blank /\ \E j \in 1..i : line[j] # Blank
    /\ LET rest == TrimLeft(SubSeq(line, i, Len(line)))
       IN  rest # <<>> /\ Head(rest) \notin {"=", ":"}
HasBlankSeparator(text) ==
  \E i \in Starts(text) :
    LET line == Line(text, i) IN IsContent(line) /\ BlankSeparated(line)

\* What one reader takes from a text is what the other takes, up to the
\* blanks at the end of a value.
ReadAlike(text) ==
  LET map == ParseProperties(text)
  IN  DecodeProperties(text) = [k \in DOMAIN map |-> Trim(map[k])]

\* What was validated is what is merged: a text the validator accepts has, for
\* decodeProperties (merge.go:233), the keys and values parseProperties
\* (validator.go:137) found - without backslashes, exactly if no line uses the
\* blank as its separator, which only one of the two grammars knows.
ReadersAgree ==
  \A l \in DOMAIN texts :
    IsPlain(texts[l]) => (ReadAlike(texts[l]) <=> ~HasBlankSeparator(texts[l]))

\* The merged text says what was merged: read again by the kernel it is the
\* root, backslashes and odd keys included; of layers both readers read
\* alike it is a text that the validator would accept and read so too.
RenderReadsBack ==
  pc = "return" /\ texts # Nothing =>
    /\ DecodeProperties(rendered) = RootMap
    /\ (\A l \in DOMAIN texts : IsPlain(texts[l]) /\ ReadAlike(texts[l]))
         => \/ RootMap = Nothing
            \/ Accepts(rendered) /\ ParseProperties(rendered) = RootMap
=============================================================================
