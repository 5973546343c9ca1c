--------------------------- MODULE MCSourceAudit ---------------------------
(***************************************************************************)
(* Small corpora for SourceAudit, each with the relations of its           *)
(* dictionary in every way they can be resolved or not.                    *)
(***************************************************************************)
EXTENDS SourceAudit, MCRecords, TLC

Fe(field, value) == Feat(field, Plain(value))
File(d, body) == [dictionary |-> d, records |-> InRoot(body)]

\* krdict: an entry with a lemma, and relations inside of a sense.
KRel(list) == In("SenseRelation", list)
KTo(key) == KRel(<<Fe("type", "syn"), Fe("id", key)>>)
KEntry(list, lemma, homonym, body) ==
  <<S("LexicalEntry", list), Fe("homonym_number", homonym)>>
  \o In("Lemma", <<Fe("writtenForm", lemma)>>) \o body \o <<E("LexicalEntry")>>
KId(key) == <<A("att", Plain("id")), A("val", Plain(key))>>
KSense(key, body) == <<S("Sense", KId(key))>> \o body \o <<E("Sense")>>

Plain2 == KEntry(KId("2"), "b", "", KSense("1", KTo("1")))

\* Relations that resolve, that are the entry's own, that contradict their target,
\* that have too little or too much.
Mixed == <<
  File("krdict",
       KEntry(KId("1"), "a", "1",
              KSense("1", KRel(<<Fe("type", "syn"), Fe("id", "2"), Fe("lemma", "b")>>)
                          \o KTo("1") \o KTo("9"))
              \o KTo("3")
              \o KSense("1", KRel(<<Fe("type", "syn"), Fe("id", "2"), Fe("lemma", "b01")>>)))
       \o Plain2),
  File("krdict",
       KEntry(<<A("id", Padded("3"))>>, "b", "2",
              KRel(<<Fe("type", "syn"), Fe("id", "1"), Fe("lemma", "a"), Fe("homonymNumber", "1")>>)
              \o KRel(<<Fe("type", "syn"), Fe("id", "1"), Fe("homonymNumber", "2")>>)
              \o KRel(<<Fe("type", "syn"), Fe("id", "2"), Fe("lemma", "a")>>)
              \o KRel(<<Fe("id", "2")>>)
              \o KRel(<<Fe("type", "syn")>>)
              \o KRel(<<Fe("type", "syn"), Fe("id", "1"), Fe("id", "2")>>)
              \o KTo(""))) >>

\* The same with the key of the second entry twice.
Doubled == <<Mixed[1], File("krdict", KEntry(KId("2"), "b", "1", <<>>)
                                      \o KEntry(KId("2"), "c", "", <<>>))>>

\* Keys that repeat within a file and across files, one that is missing and one
\* that is called so.
Repeated == <<
  File("krdict",
       KEntry(KId("1"), "a", "1", KTo("1"))
       \o KEntry(KId("1"), "b", "2", KTo("2"))
       \o KEntry(<<>>, "c", "", KTo("missing"))),
  File("krdict",
       KEntry(KId("1"), "b", "1", KSense("s", <<>>) \o KSense("s", <<>>))
       \o KEntry(KId("missing"), "c", "", KTo(""))
       \o KEntry(KId("2"), "d", "",
                 KRel(<<Fe("type", "ant"), Fe("id", "1"), Fe("lemma", "b"), Fe("homonymNumber", "2")>>)
                 \o KRel(<<Fe("type", "ant"), Fe("id", "1"), Fe("lemma", "b")>>)
                 \o KRel(<<Fe("type", "ant"), Fe("id", "1"), Fe("lemma", "d")>>))) >>

\* Two cycles that a way leads between, and ways into and out of them.
Simple(key, targets) ==
  KEntry(KId(key), "x", "", Concat([i \in DOMAIN targets |-> KTo(targets[i])]))
Cyclic == <<
  File("krdict", Simple("1", <<"2">>) \o Simple("2", <<"3", "2">>) \o Simple("3", <<"1", "4">>)),
  File("krdict", Simple("4", <<"5">>) \o Simple("5", <<"4", "6", "4">>) \o Simple("6", <<>>)
                 \o Simple("7", <<"1", "4">>)) >>

\* stdict: entities of every kind, relations after and inside of each.
Code(name, key) == TextIn(name, Plain(key))
SRel(key, unit, more) ==
  In("lexical_info", Code("type", "syn") \o Code("link_target_code", key) \o Code("unit", unit) \o more)
Link(url) == Code("link", url)
SItem(key, word, body) ==
  In("item", Code("target_code", key) \o In("word_info", Code("word", word) \o body))
SSense(key, body) == In("sense_info", Code("sense_code", key) \o body)
Pattern(key, body) == In("comm_pattern_info", Code("comm_pattern_code", key) \o body)
Pos(key, body) == In("pos_info", Code("pos_code", key) \o body)

Standard == <<
  File("stdict",
       SItem("1", "a",
             Pos("1", Pattern("1", SSense("1", SRel("2", "vocabulary", Link("s2")))
                                   \o SRel("1", "meaning", Link("s1"))
                                   \o SSense("2", <<>>))
                      \o SRel("1", "common_pattern", <<>>))
             \o SRel("1", "part_of_speech", Link("s2"))
             \o SSense("3", SRel("2", "other", Code("word", "b01"))))),
  File("stdict",
       SItem("2", "b",
             Pos("2", SSense("1", SRel("1", "meaning", Link("s9"))) \o SSense("1", <<>>)
                      \o SRel("3", "meaning", Link("s1") \o Code("word", "a"))
                      \o SRel("3", "meaning", Link("none"))
                      \o SRel("3", "meaning", Link("o1"))
                      \o In("lexical_info", Code("type", "syn") \o Code("link_target_code", "3"))))) >>

\* The same where a sense of the first entry is said to be the second's.
Moved == <<
  File("stdict", SItem("1", "a", Pos("1", SSense("3", SRel("2", "vocabulary", <<>>))))),
  Standard[2] >>

\* opendict
ORel(key, url) == In("relation_info", Code("type", "syn") \o Code("link_target_code", key) \o Link(url))
OItem(key, word, order, body) ==
  In("item", Code("target_code", key) \o Code("group_order", order)
             \o In("wordInfo", Code("word", word)) \o body)
Open == <<
  File("opendict",
       OItem("1", "a", "1", In("senseInfo", Code("sense_no", "1") \o ORel("2", "o2") \o ORel("1", "o1"))
                            \o ORel("2", "o1") \o ORel("2", "none") \o ORel("2", "s2"))
       \o OItem("2", "b", "1", In("senseInfo", Code("sense_no", "1"))
                               \o ORel("1", "o1"))) >>

MCCorpora == [mixed |-> Mixed, doubled |-> Doubled, repeated |-> Repeated, cyclic |-> Cyclic,
              standard |-> Standard, moved |-> Moved, open |-> Open]
MCLater == [mixed |-> {"doubled"}, doubled |-> {}, repeated |-> {}, cyclic |-> {},
            standard |-> {"moved"}, moved |-> {}, open |-> {}]

MCLabels == "b01" :> [stem |-> "b", digits |-> 2]
MCUrls ==
  "s1" :> [host |-> "stdict", query |-> <<<<"word_no", "1">>>>]
  @@ "s2" :> [host |-> "stdict", query |-> <<<<"word_no", "1">>, <<"word_no", "2">>>>]
  @@ "s9" :> [host |-> "stdict", query |-> <<<<"word_no", "9">>>>]
  @@ "o1" :> [host |-> "opendict", query |-> <<<<"sense_no", "1">>>>]
  @@ "o2" :> [host |-> "opendict", query |-> <<<<"q", "">>, <<"sense_no", "2">>>>]
=============================================================================
