---------------------------- MODULE AuditEntries ----------------------------
(***************************************************************************)
(* What the source audit takes from the records of one file: parse_volume  *)
(* and EntryBuilder in src/web_source_audit.rs. An entry is an entity and  *)
(* has nested ones; each is known by its locator, the ordinals of the      *)
(* elements it stands in. A relation belongs to the entity that was open   *)
(* when its container began.                                               *)
(***************************************************************************)
EXTENDS EntryFields

NestedKinds == {"part_of_speech", "common_pattern", "sense"}
Kinds == {"entry"} \cup NestedKinds

\* CompactLocator: for each kind of element the ordinal within the entry, 0 for None.
EntryLocator(file, ordinal) ==
  [file |-> file, entry |-> ordinal, at |-> [kind \in NestedKinds |-> 0]]

NoFields == [type |-> <<>>, key |-> <<>>, word |-> <<>>, homonym |-> <<>>, unit |-> <<>>,
             url |-> <<>>]

\* EntryBuilder::new. A locator in "current", a relation in "open", or <<>> for None.
NewBuilder(d, locator, r) ==
  LET key == IF d = "krdict" THEN LmfIdentifier(r.attributes)
             ELSE Attribute(r.attributes, "target_code")
  IN [depth |-> r.depth, name |-> r.name, path |-> <<r.name>>, locator |-> locator,
      headword |-> Absent, homonym |-> Absent,
      entities |-> <<[kind |-> "entry", locator |-> locator, key |-> key]>>,
      relations |-> <<>>,
      count |-> [kind \in NestedKinds |-> 0],
      current |-> [kind \in NestedKinds |-> <<>>],
      containers |-> 0, open |-> <<>>]

(***************************************************************************)
(* Elements that mean something.                                           *)
(***************************************************************************)

\* The kind of nested entity an element is, "" for none.
EntityElement(d, name) ==
  CASE <<d, name>> \in {<<"krdict", "Sense">>, <<"stdict", "sense_info">>,
                        <<"opendict", "senseInfo">>} -> "sense"
    [] <<d, name>> = <<"stdict", "pos_info">> -> "part_of_speech"
    [] <<d, name>> = <<"stdict", "comm_pattern_info">> -> "common_pattern"
    [] OTHER -> ""

\* The kind of nested entity whose key an element's text is.
KeyElement(d, name) ==
  CASE <<d, name>> \in {<<"stdict", "sense_code">>, <<"opendict", "sense_no">>} -> "sense"
    [] <<d, name>> = <<"stdict", "pos_code">> -> "part_of_speech"
    [] <<d, name>> = <<"stdict", "comm_pattern_code">> -> "common_pattern"
    [] OTHER -> ""

\* is_relation_container
IsContainer(d, name) ==
  <<d, name>> \in {<<"krdict", "SenseRelation">>, <<"stdict", "lexical_info">>,
                   <<"opendict", "relation_info">>}

\* The field of a relation an element's text, or in krdict a feature, is.
TextField(name) ==
  CASE name = "type" -> "type" [] name = "link_target_code" -> "key" [] name = "word" -> "word"
    [] name = "unit" -> "unit" [] name = "link" -> "url" [] OTHER -> ""
FeatureField(name) ==
  CASE name = "type" -> "type" [] name = "id" -> "key" [] name = "lemma" -> "word"
    [] name = "homonymNumber" -> "homonym" [] OTHER -> ""

Innermost(b) == b.path[Len(b.path)]
Inside(b, name) == \E i \in DOMAIN b.path : b.path[i] = name

(***************************************************************************)
(* The methods of EntryBuilder.                                            *)
(***************************************************************************)

\* The kinds whose open element a nested locator records besides its own.
Outer(kind) ==
  CASE kind = "sense" -> {"part_of_speech", "common_pattern"}
    [] kind = "common_pattern" -> {"part_of_speech"}
    [] OTHER -> {}

\* CompactLocator::with_kind and what EntryBuilder::start adds to it.
NestedLocator(b, kind) ==
  [b.locator EXCEPT !.at =
     [k \in NestedKinds |->
        IF k = kind THEN b.count[k] + 1
        ELSE IF k \in Outer(kind) /\ b.current[k] # <<>> THEN b.current[k][1].at[k]
        ELSE 0]]

OpenEntity(b, d, r, kind) ==
  LET locator == NestedLocator(b, kind)
      key == IF d = "krdict" THEN LmfIdentifier(r.attributes) ELSE Absent
  IN [b EXCEPT !.count[kind] = @ + 1,
               !.current[kind] = <<locator>>,
               !.entities = Append(@, [kind |-> kind, locator |-> locator, key |-> key])]

\* nearest_entity_locator
Nearest(b) ==
  CASE b.current["sense"] # <<>> -> b.current["sense"][1]
    [] b.current["sense"] = <<>> /\ b.current["common_pattern"] # <<>> ->
         b.current["common_pattern"][1]
    [] b.current["sense"] = <<>> /\ b.current["common_pattern"] = <<>>
         /\ b.current["part_of_speech"] # <<>> -> b.current["part_of_speech"][1]
    [] OTHER -> b.locator

\* A container inside of another one takes its place.
OpenRelation(b) ==
  [b EXCEPT !.containers = @ + 1,
            !.open = <<[source |-> Nearest(b), ordinal |-> b.containers + 1,
                        fields |-> NoFields]>>]

\* EntryBuilder::start
Enter(b, d, r, kind) == IF kind = "" THEN b ELSE OpenEntity(b, d, r, kind)
Contain(b, d, r) == IF IsContainer(d, r.name) THEN OpenRelation(b) ELSE b
BuilderStart(b, d, r) ==
  Contain(Enter([b EXCEPT !.path = Append(@, r.name)], d, r, EntityElement(d, r.name)), d, r)

AddField(b, field, value) ==
  IF field = "" THEN b ELSE [b EXCEPT !.open[1].fields[field] = Append(@, value)]

\* EntryBuilder::empty
BuilderEmpty(b, d, r) ==
  LET field == Attribute(r.attributes, "att")
      given == Attribute(r.attributes, "val")
      value == IF given = Absent THEN Plain("") ELSE given
  IN CASE d # "krdict" \/ r.name # "feat" \/ field = Absent -> b
       [] b.open # <<>> /\ Innermost(b) = "SenseRelation" ->
            AddField(b, IF field.padded THEN "" ELSE FeatureField(field.text), value)
       [] field = Plain("writtenForm") /\ Inside(b, "Lemma") ->
            [b EXCEPT !.headword = SetOnce(@, value)]
       [] field = Plain("homonym_number") /\ Len(b.path) = 1 ->
            [b EXCEPT !.homonym = SetOnce(@, value)]
       [] OTHER -> b

\* set_entity_key
SetEntityKey(b, locator, value) ==
  LET i == CHOOSE i \in DOMAIN b.entities : b.entities[i].locator = locator
  IN [b EXCEPT !.entities[i].key = SetOnce(@, value)]

\* EntryBuilder::text
BuilderText(b, d, value) ==
  LET name == Innermost(b)
      kind == KeyElement(d, name)
  IN CASE b.open # <<>> -> AddField(b, TextField(name), value)
       [] b.open = <<>> /\ d = "krdict" -> b
       [] b.open = <<>> /\ name = "target_code" /\ Len(b.path) = 2 ->
            SetEntityKey(b, b.locator, value)
       [] b.open = <<>> /\ kind # "" ->
            IF b.current[kind] = <<>> THEN b ELSE SetEntityKey(b, b.current[kind][1], value)
       [] b.open = <<>> /\ name = "word"
            /\ Inside(b, IF d = "stdict" THEN "word_info" ELSE "wordInfo") ->
            [b EXCEPT !.headword = SetOnce(@, value)]
       [] b.open = <<>> /\ name = "group_order" /\ Len(b.path) = 2 /\ d = "opendict" ->
            [b EXCEPT !.homonym = SetOnce(@, value)]
       [] OTHER -> b

\* Mutant of Closed: the entity stays current after its element.
NeverClosed(b, kind) == b

Closed(b, kind) == IF kind = "" THEN b ELSE [b EXCEPT !.current[kind] = <<>>]

\* EntryBuilder::end
BuilderEnd(b, d, name) ==
  LET taken == IF IsContainer(d, name) /\ b.open # <<>>
                 THEN [b EXCEPT !.relations = @ \o b.open, !.open = <<>>] ELSE b
  IN [Closed(taken, EntityElement(d, name)) EXCEPT !.path = SubSeq(@, 1, Len(@) - 1)]

(***************************************************************************)
(* parse_volume.                                                           *)
(***************************************************************************)

\* EntryBuilder::finish
Finished(b) ==
  [locator |-> b.locator, headword |-> b.headword, homonym |-> b.homonym,
   entities |-> b.entities, relations |-> b.relations]

\* The state of the record loop: entries finished and counted, the one being built.
NothingParsed == [entries |-> <<>>, count |-> 0, builder |-> <<>>]

\* One turn of the loop.
BeginBuilder(d, file, p, r) ==
  [p EXCEPT !.count = @ + 1,
            !.builder = <<NewBuilder(d, EntryLocator(file, p.count + 1), r)>>]
Builds(p, b) == [p EXCEPT !.builder = <<b>>]
ParseRecord(d, file, p, r) ==
  LET b == p.builder[1]
  IN CASE p.builder = <<>> ->
            IF r.kind = "start" /\ r.name = EntryElement(d) THEN BeginBuilder(d, file, p, r)
            ELSE p
       [] p.builder # <<>> /\ r.kind = "start" -> Builds(p, BuilderStart(b, d, r))
       [] p.builder # <<>> /\ r.kind = "empty" -> Builds(p, BuilderEmpty(b, d, r))
       [] p.builder # <<>> /\ r.kind = "text" -> Builds(p, BuilderText(b, d, r.value))
       [] p.builder # <<>> /\ r.kind = "tail" -> p
       [] p.builder # <<>> /\ r.kind = "end" ->
            IF r.depth = b.depth /\ r.name = b.name
              THEN [p EXCEPT !.entries = Append(@, Finished(b)), !.builder = <<>>]
              ELSE Builds(p, BuilderEnd(b, d, r.name))

\* The loop.
ParseVolume(d, file, records) ==
  LET After[n \in 0..Len(records)] ==
        IF n = 0 THEN NothingParsed ELSE ParseRecord(d, file, After[n - 1], records[n])
  IN After[Len(records)]
=============================================================================
