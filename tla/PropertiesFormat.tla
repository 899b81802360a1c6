-------------------------- MODULE PropertiesFormat --------------------------
(***************************************************************************)
(* The two readers and the writer of the properties format.  A commit is    *)
(* accepted when the validator's parseProperties reads it                   *)
(* (validator/validator.go); what instances are given is what the merge     *)
(* kernel's decodeProperties reads of it and encodeProperties writes        *)
(* (merge/merge.go).  The two readers are separate code, line by line over  *)
(* characters, so texts are sequences of characters here.                   *)
(***************************************************************************)
EXTENDS Naturals, Sequences, SequencesExt

\* Blanks and tabs are one character.
Blank == " "

\* A text's lines, each known by the place where it begins:
\* strings.Split(text, "\n").
Starts(text) == {1} \union {i + 1 : i \in {j \in DOMAIN text : text[j] = "\n"}}
Line(text, i) ==
  LET ends == {j \in i..Len(text) : text[j] = "\n"}
  IN  SubSeq(text, i, IF ends = {} THEN Len(text) ELSE Min(ends) - 1)

Ink(s)      == {i \in DOMAIN s : s[i] # Blank}
TrimLeft(s) == IF Ink(s) = {} THEN <<>> ELSE SubSeq(s, Min(Ink(s)), Len(s))
Trim(s)     == IF Ink(s) = {} THEN <<>> ELSE SubSeq(s, Min(Ink(s)), Max(Ink(s)))

StartsWith(s, chs) == s # <<>> /\ Head(s) \in chs
EndsWith(s, ch)    == s # <<>> /\ Last(s) = ch

\* Blank lines and comments ("#", and "!" which is treated alike).
IsContent(line) == Trim(line) # <<>> /\ ~StartsWith(TrimLeft(line), {"#"})

IsBlank(text) == \A i \in DOMAIN text : text[i] \in {Blank, "\n"}

-----------------------------------------------------------------------------
\* The validator joins a line that ends in a backslash with the next one,
\* less its indentation, for as long as there is a next one.  joined[i] is what
\* it holds after the line that begins at i.
LogicalLines(text) ==
  LET joined[i \in Starts(text)] ==
        LET before == {j \in Starts(text) : j < i}
        IN  IF before # {} /\ EndsWith(joined[Max(before)], "\\")
            THEN Front(joined[Max(before)]) \o TrimLeft(Line(text, i))
            ELSE Line(text, i)
      complete == {i \in Starts(text) : i = Max(Starts(text)) \/ ~EndsWith(joined[i], "\\")}
  IN  [i \in complete |-> joined[i]]

\* Escaped(s)[i]: character i follows a backslash that is not itself escaped.
Escaped(s) ==
  LET esc[i \in 1..Len(s)] == i > 1 /\ s[i - 1] = "\\" /\ ~esc[i - 1] IN esc

\* wrong: ":" separates nothing
SplitPropertyAtEquals(line) ==
  LET seps == {j \in DOMAIN line : line[j] \in {"=", Blank}}
  IN  IF seps = {} THEN [key |-> line, val |-> <<>>]
      ELSE [key |-> SubSeq(line, 1, Min(seps) - 1),
            val |-> TrimLeft(SubSeq(line, Min(seps) + 1, Len(line)))]

\* A key and a value, apart at the first unescaped "=", ":" or blank; after a
\* blank, "=" and ":" are part of the separator.  A line without is a key.
SplitProperty(line) ==
  LET seps == {j \in DOMAIN line : line[j] \in {"=", ":", Blank} /\ ~Escaped(line)[j]}
  IN  IF seps = {} THEN [key |-> line, val |-> <<>>]
      ELSE LET i    == Min(seps)
               rest == TrimLeft(SubSeq(line, i + 1, Len(line)))
               skip == line[i] = Blank /\ StartsWith(rest, {"=", ":"})
           IN  [key |-> SubSeq(line, 1, i - 1),
                val |-> IF skip THEN TrimLeft(Tail(rest)) ELSE rest]

\* The escaping backslashes go; a last one stays.  (The escapes that stand for
\* other characters, \n, \t, \r and \u, are not in the alphabet.)
DecodeEscapes(s) ==
  LET escapes(i) == s[i] = "\\" /\ ~Escaped(s)[i] /\ i # Len(s)
      out[i \in 0..Len(s)] == IF i = 0 THEN <<>>
                              ELSE IF escapes(i) THEN out[i - 1] ELSE Append(out[i - 1], s[i])
  IN  out[Len(s)]

\* The entry of every line of a text that has one, as the validator reads it.
Entry(line) ==
  LET kv == SplitProperty(TrimLeft(line))
  IN  [key |-> DecodeEscapes(Trim(kv.key)), val |-> DecodeEscapes(kv.val)]
Entries(text) ==
  LET lines == LogicalLines(text)
  IN  [i \in {j \in DOMAIN lines : IsContent(lines[j])} |-> Entry(lines[i])]

\* parseRoot finds no error: there is content, no key is blank or repeated.
Accepts(text) ==
  LET entries == Entries(text)
  IN  /\ ~IsBlank(text)
      /\ \A n \in DOMAIN entries : entries[n].key # <<>>
      /\ \A m, n \in DOMAIN entries : m # n => entries[m].key # entries[n].key

\* parseProperties: the map of an accepted text.
ParseProperties(text) ==
  LET entries == Entries(text)
      keys    == {entries[n].key : n \in DOMAIN entries}
  IN  [k \in keys |-> entries[CHOOSE n \in DOMAIN entries : entries[n].key = k].val]

-----------------------------------------------------------------------------
\* decodeProperties: every line by itself, apart at its first "=" or ":";
\* the last of several lines with one key stands.
DecodeLine(line) ==
  LET seps == {j \in DOMAIN line : line[j] \in {"=", ":"}}
  IN  IF seps = {} THEN [key |-> Trim(line), val |-> <<>>]
      ELSE [key |-> Trim(SubSeq(line, 1, Min(seps) - 1)),
            val |-> Trim(SubSeq(line, Min(seps) + 1, Len(line)))]
DecodeProperties(text) ==
  LET content == {i \in Starts(text) : IsContent(Line(text, i))}
      entry(i) == DecodeLine(Line(text, i))
      of(k) == {i \in content : entry(i).key = k}
  IN  [k \in {entry(i).key : i \in content} |-> entry(Max(of(k))).val]

\* wrong: a key without value is written as a lone key
EncodePropertiesLone(map) ==
  LET keys == SetToSeq(DOMAIN map)
      buf[n \in 0..Len(keys)] ==
        IF n = 0 THEN <<>>
        ELSE buf[n - 1] \o keys[n] \o (IF map[keys[n]] = <<>> THEN <<>> ELSE <<"=">>)
             \o map[keys[n]] \o <<"\n">>
  IN  buf[Len(keys)]

\* encodeProperties: one line a key (in order of the keys, which no reader
\* looks at).
EncodeProperties(map) ==
  LET keys == SetToSeq(DOMAIN map)
      buf[n \in 0..Len(keys)] ==
        IF n = 0 THEN <<>>
        ELSE buf[n - 1] \o keys[n] \o <<"=">> \o map[keys[n]] \o <<"\n">>
  IN  buf[Len(keys)]
=============================================================================
