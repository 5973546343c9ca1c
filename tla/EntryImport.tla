---------------------------- MODULE EntryImport ----------------------------
(***************************************************************************)
(* The import of source files into rows: import_source_reader in           *)
(* src/web_import.rs inside of its file transaction. Each record is        *)
(* inserted before it is interpreted; an entry is recognised on its start  *)
(* element, collects its key, headword and homonym number on the way, and  *)
(* at its end element gets an entity row, a projection row and, by UPDATE, *)
(* its records. At the end of the file the rows are read back and digested *)
(* (src/web_db.rs) before the transaction commits. Files of one corpus are *)
(* imported in any order, fail anywhere, and are tried again.              *)
(* A digest is the sequence of records it is computed from.                *)
(***************************************************************************)
EXTENDS Integers, Sequences, FiniteSets, EntryFields

CONSTANTS
  Files,         \* source files of the catalogue
  DictionaryOf,  \* the dictionary of each
  Sources        \* for each dictionary, the record sequences a file may have

ASSUME DictionariesAssumption ==
  DictionaryOf \in [Files -> {"krdict", "stdict", "opendict"}]

\* A source that fails is read up to its error (ReadFails).
ASSUME SourcesAssumption ==
  \A f \in Files : \A s \in Sources[DictionaryOf[f]] : s \in Documents

VARIABLES
  db,          \* committed: entity rows, and the files with what they held
  file,        \* the file whose transaction is open, <<>> if there is none
  source,      \* its records
  records,     \* its source_record rows
  attributes,  \* its source_attribute rows
  entities,    \* its entity rows, joined with entry_projection
  entry,       \* the EntryImportState, <<>> outside of entries
  keys,        \* native_keys
  outcome      \* how the transaction before ended

vars == <<db, file, source, records, attributes, entities, entry, keys, outcome>>

Init ==
  /\ db = [files |-> <<>>, entities |-> {}]
  /\ file = <<>>
  /\ source = <<>>
  /\ records = {}
  /\ attributes = {}
  /\ entities = {}
  /\ entry = <<>>
  /\ keys = {}
  /\ outcome = "none"

\* Mutant of BeginFile: the session remembers the keys it has seen.
BeginFileKnowing(f, records_of_file) ==
  /\ file = <<>>
  /\ f \notin DOMAIN db.files
  /\ file' = <<f>>
  /\ source' = records_of_file
  /\ outcome' = "none"
  /\ UNCHANGED <<db, records, attributes, entities, entry, keys>>

\* with_file_transaction for a file that has no row yet. The sets native_keys
\* and entry belong to the call of import_source_reader.
BeginFile(f, records_of_file) ==
  /\ file = <<>>
  /\ f \notin DOMAIN db.files
  /\ file' = <<f>>
  /\ source' = records_of_file
  /\ keys' = {}
  /\ outcome' = "none"
  /\ UNCHANGED <<db, records, attributes, entities, entry>>

\* An error anywhere drops the transaction.
RollBack(reason) ==
  /\ file' = <<>>
  /\ source' = <<>>
  /\ records' = {}
  /\ attributes' = {}
  /\ entities' = {}
  /\ entry' = <<>>
  /\ outcome' = reason
  /\ UNCHANGED <<db, keys>>

(***************************************************************************)
(* What the records say about an entry.                                    *)
(***************************************************************************)

Dictionary == DictionaryOf[file[1]]
IsEntry(r) == r.name = EntryElement(Dictionary)

\* EntryImportState::new
NewEntry(r, n) ==
  [depth |-> r.depth, name |-> r.name, start |-> n,
   ordinal |-> Cardinality(entities) + 1, path |-> <<r.name>>,
   key |-> IF Dictionary = "krdict" THEN LmfIdentifier(r.attributes)
           ELSE Attribute(r.attributes, "target_code"),
   headword |-> Absent, homonym |-> Absent, at |-> -1]

\* Mutant of WithHeadword: the ordinal follows every written form.
WithHeadwordLast(e, value, n) ==
  [e EXCEPT !.headword = SetOnce(@, value), !.at = n]

WithHeadword(e, value, n) ==
  [e EXCEPT !.headword = SetOnce(@, value), !.at = IF @ = -1 THEN n ELSE @]

Inside(e, name) == \E i \in DOMAIN e.path : e.path[i] = name

\* EntryImportState::empty, with val defaulting to the empty text.
AfterEmpty(e, r, n) ==
  LET field == Attribute(r.attributes, "att")
      given == Attribute(r.attributes, "val")
      value == IF given = Absent THEN Plain("") ELSE given
  IN IF Dictionary # "krdict" \/ r.name # "feat" THEN e
     ELSE IF field = Plain("writtenForm") /\ Inside(e, "Lemma") THEN WithHeadword(e, value, n)
     ELSE IF field = Plain("homonym_number") /\ Len(e.path) = 1
            THEN [e EXCEPT !.homonym = SetOnce(@, value)]
     ELSE e

\* EntryImportState::text
AfterText(e, r, n) ==
  LET name == e.path[Len(e.path)]
      info == IF Dictionary = "stdict" THEN "word_info" ELSE "wordInfo"
  IN IF Dictionary = "krdict" THEN e
     ELSE IF name = "target_code" /\ Len(e.path) = 2
            THEN [e EXCEPT !.key = SetOnce(@, r.value)]
     ELSE IF name = "word" /\ Inside(e, info) THEN WithHeadword(e, r.value, n)
     ELSE IF name = "group_order" /\ Len(e.path) = 2 /\ Dictionary = "opendict"
            THEN [e EXCEPT !.homonym = SetOnce(@, r.value)]
     ELSE e

(***************************************************************************)
(* The record loop.                                                        *)
(***************************************************************************)

Count == Cardinality(records)   \* record_count
Current == source[Count + 1]
Reading(kind) == file # <<>> /\ Count < Len(source) /\ Current.kind = kind

Row(r, n) == [ordinal |-> n, entry |-> <<>>, kind |-> r.kind, depth |-> r.depth,
              name |-> r.name, value |-> r.value]

\* insert_source_record: the row of the record and those of its attributes.
Insert ==
  /\ records' = records \cup {Row(Current, Count)}
  /\ attributes' = attributes \cup
       {[record |-> Count, ordinal |-> i - 1, name |-> Current.attributes[i].name,
         value |-> Current.attributes[i].value] : i \in DOMAIN Current.attributes}

Kept == UNCHANGED <<db, file, source, entities, keys, outcome>>

StartEntry ==
  /\ Reading("start") /\ IsEntry(Current) /\ entry = <<>>
  /\ Insert
  /\ entry' = <<NewEntry(Current, Count)>>
  /\ Kept

NestedEntry ==
  /\ Reading("start") /\ IsEntry(Current) /\ entry # <<>>
  /\ RollBack("nested")

StartElement ==
  /\ Reading("start") /\ ~IsEntry(Current)
  /\ Insert
  /\ entry' = IF entry = <<>> THEN entry
              ELSE [entry EXCEPT ![1].path = Append(@, Current.name)]
  /\ Kept

EmptyEntry ==
  /\ Reading("empty") /\ IsEntry(Current)
  /\ RollBack("empty_entry")

EmptyElement ==
  /\ Reading("empty") /\ ~IsEntry(Current)
  /\ Insert
  /\ entry' = IF entry = <<>> THEN entry ELSE <<AfterEmpty(entry[1], Current, Count)>>
  /\ Kept

ElementText ==
  /\ Reading("text")
  /\ Insert
  /\ entry' = IF entry = <<>> THEN entry ELSE <<AfterText(entry[1], Current, Count)>>
  /\ Kept

TailText ==
  /\ Reading("tail")
  /\ Insert
  /\ UNCHANGED entry
  /\ Kept

FinishesEntry ==
  /\ entry # <<>>
  /\ Current.depth = entry[1].depth
  /\ Current.name = entry[1].name

EndElement ==
  /\ Reading("end") /\ ~FinishesEntry
  /\ IF entry # <<>> /\ Current.name # entry[1].path[Len(entry[1].path)]
       THEN RollBack("stack")
       ELSE /\ Insert
            /\ entry' = IF entry = <<>> THEN entry
                        ELSE [entry EXCEPT ![1].path = SubSeq(@, 1, Len(@) - 1)]
            /\ Kept

\* Mutant of CanonicalId: the key alone.
CanonicalIdOfKey(d, key) == <<key>>

\* canonical_id of an entry, whose namespace_occurrences are always 1 here: no
\* source locator is appended. Percent-encoding keeps different keys different.
CanonicalId(d, key) == <<d, key>>

\* The query of finish_entry, which sees what this transaction has written too.
Taken(key) ==
  \E e \in db.entities \cup entities :
    e.key = key /\ DictionaryOf[e.file] = Dictionary

\* What is wrong with an entry that is complete.
Fault(e) ==
  LET key == Normalized(e.key)
  IN CASE key = "" -> "no_key"
       [] key # "" /\ Normalized(e.headword) = "" -> "no_headword"
       [] key # "" /\ Normalized(e.headword) # "" /\ (key \in keys \/ Taken(key)) -> "duplicate"
       [] OTHER -> ""

\* Mutant of Owned: the records up to the last text.
OwnedButEnd(e, n) == e.start..(n - 1)

\* The ordinals the UPDATE of source_record selects.
Owned(e, n) == e.start..n

EntityRow(e, n) ==
  [id |-> CanonicalId(Dictionary, Normalized(e.key)), file |-> file[1],
   key |-> Normalized(e.key), ordinal |-> e.ordinal, start |-> e.start, end |-> n,
   headword |-> Normalized(e.headword), homonym |-> Normalized(e.homonym), at |-> e.at]

\* finish_entry
FinishEntry ==
  /\ Reading("end") /\ FinishesEntry
  /\ LET e == entry[1]
         row == EntityRow(e, Count)
     IN IF Fault(e) # "" THEN RollBack(Fault(e))
        ELSE /\ keys' = keys \cup {row.key}
             /\ entities' = entities \cup {row}
             /\ records' = {[r EXCEPT !.entry = IF r.ordinal \in Owned(e, Count)
                                                  THEN row.id ELSE @] :
                              r \in records \cup {Row(Current, Count)}}
             /\ entry' = <<>>
             /\ UNCHANGED <<db, file, source, attributes, outcome>>

\* The reader fails, or the process dies.
ReadFails ==
  /\ file # <<>>
  /\ RollBack("source")

(***************************************************************************)
(* Completion.                                                             *)
(***************************************************************************)

\* Mutant of Contiguous: gaps are passed over.
AnyOrdinals(ordinals) == TRUE

Contiguous(ordinals) == ordinals = 0..(Cardinality(ordinals) - 1)

AttributesOf(list, n) == {a \in list : a.record = n}
Ordinals(rows) == {r.ordinal : r \in rows}

\* The rows can be read back: source_record_digest finds no gap, and
\* update_source_digest no attribute on a record that has none.
Readable(rows, list) ==
  /\ Contiguous(Ordinals(rows))
  /\ \A r \in rows :
       /\ Contiguous(Ordinals(AttributesOf(list, r.ordinal)))
       /\ r.kind \in {"text", "tail", "end"} => AttributesOf(list, r.ordinal) = {}

\* Rows in the order of their ordinals.
Ordered(rows) ==
  [i \in 1..Cardinality(rows) |->
     CHOOSE r \in rows : Cardinality({q \in rows : q.ordinal < r.ordinal}) = i - 1]

\* The records the rows stand for.
ReadBack(rows, list) ==
  LET ordered == Ordered(rows)
      Listed(r) == Ordered(AttributesOf(list, r.ordinal))
  IN [i \in DOMAIN ordered |->
        LET r == ordered[i] IN
        [kind |-> r.kind, depth |-> r.depth, name |-> r.name, value |-> r.value,
         attributes |-> [j \in DOMAIN Listed(r) |->
                           [name |-> Listed(r)[j].name, value |-> Listed(r)[j].value]]]]

EntriesStarted ==
  Cardinality({n \in DOMAIN source : source[n].kind = "start" /\ IsEntry(source[n])})

\* validate_source_file_completion, for the completion of the records read.
Validates(rows, list) ==
  /\ Cardinality(rows) = Len(source)
  /\ Cardinality(entities) = EntriesStarted
  /\ Readable(rows, list)
  /\ ReadBack(rows, list) = source

Exhausted == file # <<>> /\ Count = Len(source)

\* The end of import_source_reader and of with_file_transaction.
EndOfSource ==
  /\ Exhausted
  /\ IF entry # <<>> THEN RollBack("inside")
     ELSE IF ~Validates(records, attributes) THEN RollBack("invalid")
     ELSE /\ db' = [files |-> [g \in DOMAIN db.files \cup {file[1]} |->
                                 IF g = file[1] THEN source ELSE db.files[g]],
                    entities |-> db.entities \cup entities]
          /\ file' = <<>>
          /\ source' = <<>>
          /\ records' = {}
          /\ attributes' = {}
          /\ entities' = {}
          /\ outcome' = "committed"
          /\ UNCHANGED <<entry, keys>>

Next ==
  \/ \E f \in Files : \E s \in Sources[DictionaryOf[f]] : BeginFile(f, s)
  \/ StartEntry \/ NestedEntry \/ StartElement \/ EmptyEntry \/ EmptyElement
  \/ ElementText \/ TailText \/ FinishEntry \/ EndElement
  \/ EndOfSource \/ ReadFails

Spec == Init /\ [][Next]_vars

-----------------------------------------------------------------------------
(***************************************************************************)
(* Properties.                                                             *)
(***************************************************************************)

\* The entries of a file, by its records: where they start and end, as ordinals.
EntriesIn(s, d) ==
  {<<i - 1, Closing(s, i) - 1>> :
     i \in {n \in DOMAIN s : s[n].kind = "start" /\ s[n].name = EntryElement(d)}}

\* A record row belongs to the entity of the entry it stands in, and to none
\* outside of entries, as soon as that entry is complete: what finish_entry's
\* one UPDATE by ordinals claims is what the nesting of the elements says.
EntryOwnsItsRecords ==
  \A r \in records :
    LET enclosing == {e \in EntriesIn(source, Dictionary) :
                        r.ordinal \in e[1]..e[2] /\ e[2] < Count}
    IN r.entry = IF enclosing = {} THEN <<>>
                 ELSE (CHOOSE e \in entities :
                         <<e.start, e.end>> = CHOOSE s \in enclosing : TRUE).id

\* After any failures and retries the committed corpus has exactly one entity for
\* every entry of its files, numbered in their order, and no two of them share a
\* canonical id, whatever white space their keys came with.
CorpusAccountsForEntries ==
  file = <<>> =>
  /\ \A f \in DOMAIN db.files :
       LET rows == {e \in db.entities : e.file = f}
           spans == EntriesIn(db.files[f], DictionaryOf[f])
       IN /\ {<<e.start, e.end>> : e \in rows} = spans
          /\ Cardinality(rows) = Cardinality(spans)
          /\ \A e \in rows : e.ordinal = Cardinality({s \in spans : s[1] <= e.start})
  /\ \A e \in db.entities : e.file \in DOMAIN db.files
  /\ \A a, b \in db.entities : a.id = b.id => a = b

\* Record n stands inside of an element of that name, itself inside of the element
\* that record i starts.
Under(s, name, i, n) ==
  \E j \in (i + 1)..(n - 1) : s[j].kind = "start" /\ s[j].name = name /\ Closing(s, j) > n

\* Record n gives the headword of the entry that record i starts.
GivesHeadword(s, d, i, n) ==
  LET r == s[n] IN
  IF d = "krdict"
    THEN /\ r.kind = "empty" /\ r.name = "feat" /\ Under(s, "Lemma", i, n)
         /\ Attribute(r.attributes, "att") = Plain("writtenForm")
    ELSE /\ r.kind = "text" /\ s[n - 1].name = "word"
         /\ Under(s, IF d = "stdict" THEN "word_info" ELSE "wordInfo", i, n)

\* The headword of an entry comes from one record inside of it, the first that
\* gives one, and headword_record_ordinal is that record's.
HeadwordFromFirst ==
  file = <<>> => \A e \in db.entities :
    LET s == db.files[e.file]
        d == DictionaryOf[e.file]
        giving == {n \in (e.start + 1)..(e.end + 1) : GivesHeadword(s, d, e.start + 1, n)}
    IN /\ e.at + 1 \in giving
       /\ \A n \in giving : e.at + 1 <= n
       /\ e.headword = Normalized(IF d = "krdict" THEN Attribute(s[e.at + 1].attributes, "val")
                                  ELSE s[e.at + 1].value)

\* A file is refused for a duplicate key only because another entry of the same
\* dictionary, committed or earlier in the same file, has it: what an attempt that
\* was rolled back had seen does not stand in the way of the next.
RefusedForCause ==
  [][file # <<>> /\ outcome' = "duplicate" =>
       \E e \in db.entities \cup entities :
         /\ DictionaryOf[e.file] = Dictionary
         /\ e.key = Normalized(entry[1].key)]_vars

\* Tables of records and attributes that differ in one row: it is gone, has another
\* ordinal that is free, or says something else.
Disturbed(rows) ==
  {rows \ {r} : r \in rows}
    \cup {(rows \ {r}) \cup {[r EXCEPT !.ordinal = Cardinality(rows)]} : r \in rows}
    \cup {(rows \ {r}) \cup {[r EXCEPT !.value = Plain("changed")]} : r \in rows}

\* When a file is complete its rows validate, and no table that differs from them
\* in a row does.
OnlyTrueRowsValidate ==
  Exhausted /\ entry = <<>> =>
    /\ Validates(records, attributes)
    /\ \A rows \in Disturbed(records) : Validates(rows, attributes) => rows = records
    /\ \A list \in Disturbed(attributes) : Validates(records, list) => list = attributes
=============================================================================
