---------------------------- MODULE EntryFields ----------------------------
(***************************************************************************)
(* How both readers of entries take fields from records: the import of     *)
(* src/web_import.rs and the source audit of src/web_source_audit.rs, each *)
(* with its own copy of these functions. A name is a local name. A string  *)
(* is its trimmed text and whether white space surrounds it.               *)
(***************************************************************************)
EXTENDS Integers, Sequences, FiniteSets

Plain(text) == [text |-> text, padded |-> FALSE]
Absent == Plain("absent")

\* What stands for None is not a string of the source.
Optional == [text : STRING, padded : BOOLEAN]
Values == Optional \ {Absent}
Attributes == [name : STRING, value : Values]

\* SourceRecord, with the fields a kind does not have left empty.
SourceRecords ==
  [kind : {"start", "empty", "text", "tail", "end"}, depth : Nat, name : STRING,
   value : Optional, attributes : Seq(Attributes)]

\* normalized_optional: the empty text stands for None.
Normalized(value) == IF value = Absent THEN "" ELSE value.text

\* Dictionary::entry_element
EntryElement(d) == IF d = "krdict" THEN "LexicalEntry" ELSE "item"

\* attribute: the value of the first attribute of that name.
Attribute(list, name) ==
  LET named == {i \in DOMAIN list : list[i].name = name}
  IN IF named = {} THEN Absent
     ELSE list[CHOOSE i \in named : \A j \in named : i <= j].value

\* lmf_identifier
LmfIdentifier(list) ==
  IF Attribute(list, "att") = Plain("id") THEN Attribute(list, "val")
  ELSE Attribute(list, "id")

\* set_once
SetOnce(slot, value) == IF slot = Absent THEN value ELSE slot

\* The elements of kind k among the records from i to j.
Between(s, k, i, j) == Cardinality({n \in i..j : s[n].kind = k})

\* The elements open after i records.
Level(s, i) == Between(s, "start", 1, i) - Between(s, "end", 1, i)

\* What SourceRecordReader gives of a source it reads to its end: balanced
\* elements, records with the depth of their place, the text of an element
\* directly behind its start.
Documents ==
  {s \in Seq(SourceRecords) :
     /\ \A i \in DOMAIN s :
          /\ s[i].depth = Level(s, i - 1) - IF s[i].kind \in {"text", "end"} THEN 1 ELSE 0
          /\ s[i].kind = "text" => i > 1 /\ s[i - 1].kind = "start"
          /\ s[i].kind \in {"text", "tail"} => s[i].value # Absent
          /\ s[i].kind \notin {"start", "empty"} => s[i].attributes = <<>>
     /\ Level(s, Len(s)) = 0}

\* The record that closes the element started by record i: the first one that
\* leaves as many ends as starts behind it.
Closing(s, i) ==
  CHOOSE j \in i..Len(s) :
    /\ Between(s, "start", i, j) = Between(s, "end", i, j)
    /\ \A k \in i..(j - 1) : Between(s, "start", i, k) # Between(s, "end", i, k)
=============================================================================
