--------------------------- MODULE MCEntryImport ---------------------------
(***************************************************************************)
(* Source files for EntryImport: one or two entries inside of a root       *)
(* element, of every shape the record loop tells apart.                    *)
(***************************************************************************)
EXTENDS EntryImport, MCRecords, TLC

CONSTANTS k1, k2, s1, o1

Lemma(form) == In("Lemma", <<Feat("writtenForm", Plain(form))>>)
Key(key) == <<A("att", Plain("id")), A("val", key)>>
Lexical(list, body) == <<S("LexicalEntry", list)>> \o body \o <<E("LexicalEntry")>>

Complete == {
  Lexical(Key(Plain("1")), Lemma("a")),
  Lexical(<<A("id", Padded("1"))>>,
          <<Feat("homonym_number", Plain("1")), Feat("writtenForm", Plain("b"))>>
          \o In("Lemma", <<Feat("writtenForm", Plain("a")), Feat("writtenForm", Plain("b"))>>)),
  Lexical(Key(Plain("2")), TextIn("Sense", Plain("x"))
                           \o <<R("tail", "", <<>>, Plain("y"))>> \o Lemma("b")) }
KrdictItems == Complete \cup {
  Lexical(<<>>, Lemma("a")),
  Lexical(Key(Plain("2")),
          In("Lemma", <<Feat("writtenForm", Plain("")), Feat("writtenForm", Plain("a"))>>)),
  Lexical(Key(Plain("2")), Lemma("a") \o Lexical(Key(Plain("1")), Lemma("b"))),
  <<M("LexicalEntry", Key(Plain("1")))>>,
  In("Note", <<M("br", <<>>)>>) }

Code(key) == TextIn("target_code", key)
Word(form) == TextIn("word", Plain(form))
Item(list, body) == <<S("item", list)>> \o body \o <<E("item")>>

\* The element around the word is word_info in stdict, wordInfo in opendict.
Items(info) == {
  Item(<<>>, Code(Plain("1")) \o In(info, Word("a"))),
  Item(<<A("target_code", Plain("1"))>>, Code(Plain("2")) \o In(info, Word("a") \o Word("b"))),
  Item(<<>>, Word("b") \o In(info, Word("a") \o Code(Plain("1"))) \o Code(Padded("2"))),
  Item(<<>>, In(info, Word("a") \o Code(Plain("1")))),
  Item(<<>>, Code(Padded("1")) \o In(info, TextIn("group_order", Plain("1")))
             \o TextIn("group_order", Plain("2"))) }

MCFiles == {k1, k2, s1, o1}
MCDictionaryOf == k1 :> "krdict" @@ k2 :> "krdict" @@ s1 :> "stdict" @@ o1 :> "opendict"
MCSources ==
  "krdict" :> ({InRoot(a) : a \in KrdictItems} \cup {InRoot(a \o b) : a, b \in Complete})
  @@ "stdict" :> {InRoot(a) : a \in Items("word_info")}
  @@ "opendict" :> {InRoot(a) : a \in Items("wordInfo")}
=============================================================================
