---------------------------- MODULE MCMergeKernel ---------------------------
(***************************************************************************)
(* The TLC instance of MergeKernel: every triple of documents that have at  *)
(* the top "a" and "a.b" and in an object "a" and "b", every properties     *)
(* text of up to six characters, and every pair of two and three            *)
(* characters.                                                              *)
(***************************************************************************)
EXTENDS MergeKernel

TopKeys   == {<<"a">>, <<"a", ".", "b">>}
FieldKeys == {<<"a">>, <<"b">>}
MCKeys    == TopKeys \union FieldKeys

\* Documents whose objects nest once.
FlatDocs(l, keys) == UNION {[ks -> {Leaf(l)}] : ks \in SUBSET keys}
NestedDocs(l) ==
  UNION {[ks -> {Leaf(l)} \union {Object(doc) : doc \in FlatDocs(l, FieldKeys)}] :
         ks \in SUBSET TopKeys}
MCDocuments == [l \in Layers |-> [n \in 0..1 |-> IF n = 0 THEN FlatDocs(l, FieldKeys) ELSE NestedDocs(l)]]

MCChars == {"a", "b", "=", ":", " ", "#", "\\", "\n"}
TextsUpTo(n) == {text \in BoundedSeq(MCChars, n) : Accepts(text)}

MCLoneTexts   == TextsUpTo(6)
MCWeakTexts   == TextsUpTo(2)
MCStrongTexts == TextsUpTo(3)
=============================================================================
