----------------------------- MODULE MCRecords -----------------------------
(***************************************************************************)
(* Writing down the records of small source files.                         *)
(***************************************************************************)
EXTENDS EntryFields

\* A record without its depth.
R(kind, name, list, value) ==
  [kind |-> kind, name |-> name, attributes |-> list, value |-> value]
S(name, list) == R("start", name, list, Absent)
E(name) == R("end", name, <<>>, Absent)
M(name, list) == R("empty", name, list, Absent)
T(value) == R("text", "", <<>>, value)
A(name, value) == [name |-> name, value |-> value]
Padded(text) == [text |-> text, padded |-> TRUE]

\* An element with that body, and one with a text.
In(name, body) == <<S(name, <<>>)>> \o body \o <<E(name)>>
TextIn(name, value) == In(name, <<T(value)>>)

\* krdict's fields are attributes of feat elements.
Feat(field, value) == M("feat", <<A("att", Plain(field)), A("val", value)>>)

\* The depth of a record is the number of elements around it.
WithDepth(s) ==
  LET Count(k, i) == Cardinality({n \in 1..i : s[n].kind = k})
      Opened(i) == Count("start", i) - Count("end", i)
      Depth(i) == IF s[i].kind \in {"start", "text"} THEN Opened(i) - 1 ELSE Opened(i)
  IN <<>> \o [i \in DOMAIN s |->
        [kind |-> s[i].kind, name |-> s[i].name, attributes |-> s[i].attributes,
         value |-> s[i].value, depth |-> Depth(i)]]

InRoot(body) == WithDepth(In("root", body))
=============================================================================
