---------------------------- MODULE MCCharacters ----------------------------
(* Sources of a name, a value and a text with at most MaxUnits characters. *)
EXTENDS Characters

CONSTANT MaxUnits

\* Characters as they stand in a source; the last is cut short.
Units ==
  {<<x>> : x \in {"b", "08"} \cup DOMAIN RefersTo}
    \cup {UE000, UE018, UE100, UE128, <<"EE", "80">>}

Contents(n) == {FlattenSeq(s) : s \in UNION {[1..k -> Units] : k \in 0..n}}

MCSources ==
  UNION {[name : {<<"a">>}, value : {<<"b">> \o v : v \in Contents(n)},
          text : Contents(MaxUnits - n)] : n \in 0..MaxUnits}
    \cup [name : {<<"a">> \o u : u \in Units \ {<<x>> : x \in DOMAIN RefersTo}},
          value : {<<"b">>}, text : {<<>>}]
=============================================================================
