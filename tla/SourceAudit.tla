---------------------------- MODULE SourceAudit ----------------------------
(***************************************************************************)
(* The audit of the web corpus' sources: run_audit in                      *)
(* src/web_source_audit.rs. It reads every file twice, first to count keys *)
(* and to collect relations, then to collect the entities those relations  *)
(* may mean; it resolves the relations, marks cycles and writes two        *)
(* reports, JSON and Markdown, each atomically. Audits run side by side,   *)
(* fail or are killed anywhere, and the working tree changes under them.   *)
(*                                                                         *)
(* What a text means beyond its equality is a constant: the word a label   *)
(* ends in digits of, and what a URL is made of.                           *)
(***************************************************************************)
EXTENDS AuditEntries, Cycles

CONSTANTS
  Audits,     \* run_audit calls on one source and one output directory
  Corpora,    \* by name, a corpus: for each file its dictionary and its records
  Later,      \* for each name the corpora that changes of the working tree may lead to
  Labels,     \* words that end in digits: [stem, digits], the number of them
  Urls        \* URLs: [host, query], the query a sequence of names and values

\* A corpus is a list of files, each with the records of a source that can be read to
\* its end; an audit of one that cannot fails. Changes follow each other, and the list
\* of files, which discover makes once, stays as long as it was.
ASSUME CorporaAssumption ==
  \A c \in DOMAIN Corpora :
    /\ Len(Corpora[c]) \in Nat /\ DOMAIN Corpora[c] = 1..Len(Corpora[c])
    /\ \A n \in DOMAIN Corpora[c] :
         /\ Corpora[c][n].dictionary \in {"krdict", "stdict", "opendict"}
         /\ Corpora[c][n].records \in Documents
ASSUME LaterAssumption ==
  \A c \in DOMAIN Later :
    /\ c \in DOMAIN Corpora /\ Later[c] \subseteq DOMAIN Later
    /\ \A later \in Later[c] :
         Later[later] \subseteq Later[c] /\ DOMAIN Corpora[later] = DOMAIN Corpora[c]

VARIABLES
  head,       \* the corpus of the commit that is checked out
  tree,       \* the corpus in the working tree
  reports,    \* the two files of the output directory, by what they were made of,
              \* <<>> where there is none
  audit       \* the audits

vars == <<head, tree, reports, audit>>

\* What an audit has in memory is a function of what it has read: "read" and "again"
\* name, for each file the first and the second pass have come to, the corpus the
\* file was of.
Idle == [phase |-> "idle", overwrite |-> FALSE, commit |-> "", read |-> <<>>, again |-> <<>>,
         overlapped |-> FALSE]

Init ==
  /\ tree \in DOMAIN Later
  /\ head = tree
  /\ reports = [json |-> <<>>, markdown |-> <<>>]
  /\ audit = [a \in Audits |-> Idle]

\* Somebody edits the working tree, with or without a commit.
Change ==
  \E corpus \in Later[tree] :
    /\ tree' = corpus
    /\ head' \in {head, corpus}
    /\ UNCHANGED <<reports, audit>>

(***************************************************************************)
(* The first pass.                                                         *)
(***************************************************************************)

Concat(lists) ==
  LET Joined[n \in 0..Len(lists)] == IF n = 0 THEN <<>> ELSE Joined[n - 1] \o lists[n]
  IN Joined[Len(lists)]

\* The function f, all of it evaluated where it stands: TLC would otherwise evaluate
\* it anew at each application.
Table(f) == CHOOSE g \in {f} : g = f

\* What parse_volume makes of each file.
Parsed ==
  Table([c \in DOMAIN Corpora |->
           Table([n \in DOMAIN Corpora[c] |->
                    ParseVolume(Corpora[c][n].dictionary, n, Corpora[c][n].records)])])

\* The entries of files, each entity with its dictionary.
WithDictionary(d, e) ==
  [dictionary |-> d, locator |-> e.locator, headword |-> e.headword, homonym |-> e.homonym,
   relations |-> e.relations,
   entities |-> [i \in DOMAIN e.entities |->
                   [dictionary |-> d, kind |-> e.entities[i].kind,
                    key |-> Normalized(e.entities[i].key), locator |-> e.entities[i].locator]]]
AllWithDictionary(d, entries) == [i \in DOMAIN entries |-> WithDictionary(d, entries[i])]
Entries(read) ==
  Concat([n \in DOMAIN read |->
            AllWithDictionary(Corpora[read[n]][n].dictionary, Parsed[read[n]][n].entries)])

OwnEntity(e) == e.entities[1]
EntitiesOf(e) == {e.entities[i] : i \in DOMAIN e.entities}

\* observe_entry: the relations of an entry, with the entities they are from.
SourceEntity(e, locator) ==
  e.entities[CHOOSE i \in DOMAIN e.entities : e.entities[i].locator = locator]
RawRelation(e, relation) ==
  [entry |-> e, entity |-> SourceEntity(e, relation.source),
   ordinal |-> relation.ordinal, fields |-> relation.fields]

\* single
One(list) == Len(list) = 1

UnitKinds == [vocabulary |-> "entry", part_of_speech |-> "part_of_speech",
              common_pattern |-> "common_pattern", meaning |-> "sense"]

\* target_kinds; vocabulary and meaning stand for the Korean names.
TargetKinds(d, units) ==
  CASE d # "stdict" -> {"entry"}
    [] d = "stdict" /\ One(units) /\ units[1].text \in DOMAIN UnitKinds ->
         {UnitKinds[units[1].text]}
    [] OTHER -> Kinds

\* requested_namespaces, of one relation
Requested(r) ==
  {<<r.entry.dictionary, kind, key>> :
     kind \in TargetKinds(r.entry.dictionary, r.fields.unit),
     key \in {Normalized(r.fields.key[i]) : i \in DOMAIN r.fields.key} \ {""}}

\* first_pass: what the trackers were given, the relations, what they may refer to.
RelationsOf(e) == [i \in DOMAIN e.relations |-> RawRelation(e, e.relations[i])]
Observed(entries, relations) ==
  [entries |-> entries,
   tracked |-> UNION {EntitiesOf(entries[n]) : n \in DOMAIN entries},
   relations |-> relations,
   requested |-> UNION {Requested(relations[n]) : n \in DOMAIN relations}]
ObserveAll(entries) ==
  Observed(entries, Concat([n \in DOMAIN entries |-> RelationsOf(entries[n])]))
FirstPass(read) == ObserveAll(Entries(read))

(***************************************************************************)
(* Canonical ids, and the second pass.                                     *)
(***************************************************************************)

\* KeyTracker::count, and within_entry_counts: those of an entity's kind with its
\* key. A key that is missing counts as one that does not occur.
Count(entities, x) ==
  IF x.key = "" THEN 0
  ELSE Cardinality({y \in entities : <<y.dictionary, y.kind, y.key>> = <<x.dictionary, x.kind, x.key>>})

\* Mutant of Disambiguator: a key that occurs needs nothing more.
NoDisambiguator(occurrences, locator) == <<>>

\* append_disambiguator
Disambiguator(occurrences, locator) == IF occurrences = 1 THEN <<>> ELSE <<locator>>

\* A segment of canonical_id. Percent-encoding keeps segments apart.
Segment(x, occurrences) ==
  [dictionary |-> x.dictionary, kind |-> x.kind,
   key |-> IF x.key = "" THEN "missing" ELSE x.key, at |-> Disambiguator(occurrences, x.locator)]

EntryId(first, e) == <<Segment(OwnEntity(e), Count(first.tracked, OwnEntity(e)))>>

EntityId(first, e, x) ==
  IF x.kind = "entry" THEN EntryId(first, e)
  ELSE Append(EntryId(first, e), Segment(x, Count(EntitiesOf(e), x)))

\* collect_candidates, for one entry of the second pass
Candidate(first, e, x) ==
  [dictionary |-> e.dictionary, kind |-> x.kind, key |-> x.key,
   id |-> EntityId(first, e, x), entry_id |-> EntryId(first, e),
   entry_key |-> OwnEntity(e).key, headword |-> e.headword, homonym |-> e.homonym]
Wanted(first, x) == x.key # "" /\ <<x.dictionary, x.kind, x.key>> \in first.requested
CandidatesOf(first, e) ==
  Concat([i \in DOMAIN e.entities |->
            IF Wanted(first, e.entities[i]) THEN <<Candidate(first, e, e.entities[i])>> ELSE <<>>])

\* second_pass
Collected(first, entries) == Concat([n \in DOMAIN entries |-> CandidatesOf(first, entries[n])])
SecondPass(first, again) == Collected(first, Entries(again))

(***************************************************************************)
(* Relations.                                                              *)
(***************************************************************************)

\* The target key, "" for none.
TargetKey(r) == IF One(r.fields.key) THEN Normalized(r.fields.key[1]) ELSE ""

\* The candidates it selects, without those whose id came before.
Keyed(candidates, r) ==
  LET selected == {i \in DOMAIN candidates :
                     /\ TargetKey(r) # "" /\ candidates[i].key = TargetKey(r)
                     /\ candidates[i].dictionary = r.entry.dictionary
                     /\ candidates[i].kind \in TargetKinds(r.entry.dictionary, r.fields.unit)}
  IN {candidates[i] : i \in {i \in selected :
        \A j \in selected : j < i => candidates[j].id # candidates[i].id}}

\* labels_compatible: the same, or the headword and a homonym number of 2 or 3 digits.
LabelsCompatible(word, headword) ==
  \/ word = headword
  \/ /\ word \in DOMAIN Labels
     /\ Labels[word].digits \in {2, 3}
     /\ Labels[word].stem = headword

\* ParsedUrl::parse: the host, and what the query last gives a name, <<>> for nothing.
Host(url) == IF url \in DOMAIN Urls THEN Urls[url].host ELSE ""
Query(url, name) ==
  LET pairs == IF url \in DOMAIN Urls THEN Urls[url].query ELSE <<>>
      named == {i \in DOMAIN pairs : pairs[i][1] = name}
  IN IF named = {} THEN <<>> ELSE <<pairs[CHOOSE i \in named : \A j \in named : i >= j][2]>>

\* What contradicts itself in the fields, or in the URL and the key.
FieldConflict(d, fields) ==
  \/ Len(fields.type) # 1
  \/ Len(fields.key) > 1
  \/ d = "stdict" /\ Len(fields.unit) # 1
  \/ Len(fields.url) > 1
  \/ Len(fields.word) > 1
  \/ Len(fields.homonym) > 1
UrlConflict(d, fields) ==
  /\ One(fields.url)
  /\ LET url == fields.url[1].text
         key == IF One(fields.key) THEN Normalized(fields.key[1]) ELSE ""
     IN \/ Host(url) # d
        \/ d = "stdict" /\ Query(url, "word_no") = <<>>
        \/ d = "opendict" /\ Query(url, "sense_no") = <<>>
        \/ d = "opendict" /\ key # "" /\ Query(url, "sense_no") # <<key>>

\* What a candidate must match, in the order in which it is asked.
OwnerMatches(d, fields, c) ==
  d = "stdict" /\ One(fields.url) /\ Query(fields.url[1].text, "word_no") # <<>>
    => c.entry_key # "" /\ <<c.entry_key>> = Query(fields.url[1].text, "word_no")
WordMatches(d, fields, c) ==
  One(fields.word) =>
    c.headword # Absent /\ LabelsCompatible(fields.word[1].text, c.headword.text)
HomonymMatches(d, fields, c) ==
  d = "krdict" /\ One(fields.homonym) =>
    c.homonym # Absent /\ c.homonym.text = fields.homonym[1].text

\* A discriminator narrows what is eligible; if it leaves nothing it conflicts.
Narrowed(eligible, matching) ==
  [eligible |-> IF matching = {} THEN eligible.eligible ELSE matching,
   conflict |-> eligible.conflict \/ (matching = {} /\ eligible.eligible # {})]

Owned(d, fields, e) == Narrowed(e, {c \in e.eligible : OwnerMatches(d, fields, c)})
Named(d, fields, e) == Narrowed(e, {c \in e.eligible : WordMatches(d, fields, c)})
Numbered(d, fields, e) == Narrowed(e, {c \in e.eligible : HomonymMatches(d, fields, c)})
Eligible(keyed, d, fields) ==
  Numbered(d, fields,
    Named(d, fields,
      Owned(d, fields, [eligible |-> keyed, conflict |-> FALSE])))

Status(r, found, source) ==
  LET d == r.entry.dictionary IN
  CASE FieldConflict(d, r.fields) \/ UrlConflict(d, r.fields) \/ found.conflict -> "ambiguous"
    [] OTHER ->
       CASE found.eligible = {} -> "unresolved"
         [] Cardinality(found.eligible) > 1 -> "ambiguous"
         [] OTHER -> IF \E c \in found.eligible : c.entry_id = source THEN "self_reference"
                     ELSE "resolved"

\* The result of resolve_relation, once it has its status.
Resolution(first, r, source, keyed, found, status) ==
  LET target == IF status \in {"resolved", "self_reference"}
                  THEN CHOOSE c \in found.eligible : TRUE
                  ELSE [id |-> <<>>, entry_id |-> <<>>]
  IN [source_entity |-> EntityId(first, r.entry, r.entity), source |-> source,
      locator |-> r.entry.locator, ordinal |-> r.ordinal, fields |-> r.fields,
      candidates |-> {c.id : c \in keyed}, status |-> status,
      resolved |-> status = "resolved", target_id |-> target.id, target |-> target.entry_id]

\* resolve_relation
Judged(first, r, source, keyed, found) ==
  Resolution(first, r, source, keyed, found, Status(r, found, source))
Matched(first, r, keyed) ==
  Judged(first, r, EntryId(first, r.entry), keyed,
         Eligible(keyed, r.entry.dictionary, r.fields))
Resolve(first, candidates, r) == Matched(first, r, Keyed(candidates, r))

(***************************************************************************)
(* The report.                                                             *)
(***************************************************************************)

\* Mutant of FileScopes: what the files before have is counted again.
FilesUpTo(first, d, files) ==
  [n \in files |-> {x \in first.tracked : x.dictionary = d /\ x.locator.file <= n}]

\* The entities of each file of a dictionary, and those of each entry, are scopes.
FileScopes(first, d, files) ==
  [n \in files |-> {x \in first.tracked : x.dictionary = d /\ x.locator.file = n}]
EntryScopes(first, d) ==
  LET own == {n \in DOMAIN first.entries : first.entries[n].dictionary = d}
  IN [n \in own |-> EntitiesOf(first.entries[n])]

\* ScopeAggregate::observe, over all scopes: what occurs in one more than once, and
\* the values of it.
Aggregate(scopes, kind) ==
  LET Own(n) == {x \in scopes[n] : x.kind = kind}
      Repeated(n) == {x \in Own(n) : Count(Own(n), x) > 1}
      repeated == UNION {{<<n, x>> : x \in Repeated(n)} : n \in DOMAIN scopes}
      values == {<<p[1], p[2].key>> : p \in repeated}
  IN [scopes |-> Cardinality(DOMAIN scopes),
      with_duplicates |-> Cardinality({p[1] : p \in repeated}),
      values |-> Cardinality(values),
      occurrences |-> Cardinality(repeated) - Cardinality(values)]

\* build_namespace_reports
Namespace(first, d, files, kind) ==
  LET tracked == {x \in first.tracked : x.dictionary = d /\ x.kind = kind}
      missing == Cardinality({x \in tracked : x.key = ""})
      all == Aggregate(<<tracked>>, kind)
  IN [total |-> Cardinality(tracked), missing |-> missing,
      distinct |-> Cardinality({x.key : x \in tracked} \ {""}),
      unique |-> missing = 0 /\ all.values = 0,
      values |-> all.values, occurrences |-> all.occurrences,
      within_file |-> Aggregate(FileScopes(first, d, files), kind),
      within_entry |-> Aggregate(EntryScopes(first, d), kind)]

Statuses == {"resolved", "self_reference", "unresolved", "ambiguous"}

\* What a run can have read: each file of the corpus it began with, or of a later one.
Readings(c) == [DOMAIN Corpora[c] -> {c} \cup Later[c]]
Inputs == UNION {Readings(c) \X Readings(c) : c \in DOMAIN Later}

\* The first pass and the resolved relations for every input, each computed once.
FirstPasses ==
  Table([read \in UNION {Readings(c) : c \in DOMAIN Later} |-> FirstPass(read)])
Relations(first, candidates) ==
  Table([n \in DOMAIN first.relations |-> Resolve(first, candidates, first.relations[n])])
Rereading(first, again) == Relations(first, SecondPass(first, again))
Resolutions == Table([input \in Inputs |-> Rereading(FirstPasses[input[1]], input[2])])

\* The report of run_audit.
Summary(read, first, relations, cycles) ==
  LET Of(n) == Corpora[read[n]][n].dictionary
      Files(d) == {n \in DOMAIN read : Of(n) = d}
      With(status) == Cardinality({n \in DOMAIN relations : relations[n].status = status})
  IN [relations |-> relations,
      in_cycle |-> cycles.inCycle, groups |-> cycles.groups,
      status_counts |-> Table([s \in Statuses |-> With(s)]),
      namespaces |-> Table([d \in {Of(n) : n \in DOMAIN read} |->
                              Table([kind \in Kinds |-> Namespace(first, d, Files(d), kind)])])]
Report(read, first, relations) == Summary(read, first, relations, MarkCycles(relations))
Reports ==
  Table([input \in Inputs |->
           Report(input[1], FirstPasses[input[1]], Resolutions[input])])

(***************************************************************************)
(* run_audit, one step for each thing it asks of the world.                *)
(***************************************************************************)

At(a, phase) == audit[a].phase = phase
Set(a, next) == audit' = [audit EXCEPT ![a] = next]
Keeps == UNCHANGED <<head, tree, reports>>
Failed == [Idle EXCEPT !.phase = "failed"]

\* An error, or the process dies; what it had was in memory only.
Fail(a) ==
  /\ audit[a].phase \in {"clean", "first", "second", "prepared"}
  /\ Set(a, Failed)
  /\ Keeps

\* ensure_source_xml_clean
CheckClean(a, overwrite) ==
  /\ At(a, "idle")
  /\ Set(a, IF tree = head THEN [Idle EXCEPT !.phase = "clean", !.overwrite = overwrite]
            ELSE Failed)
  /\ Keeps

\* discover and git_revision, then the look for existing reports.
Identify(a) ==
  /\ At(a, "clean")
  /\ Set(a, IF ~audit[a].overwrite /\ (reports.json # <<>> \/ reports.markdown # <<>>) THEN Failed
            ELSE [audit[a] EXCEPT !.phase = "first", !.commit = head])
  /\ Keeps

FilesLeft(a, list) == Len(list) < Len(Corpora[audit[a].commit])

\* parse_volume fails on a source that ends inside of an entry.
Whole(n) == Parsed[tree][n].builder = <<>>

\* first_pass, one file, as it is when the audit comes to it.
ReadFirst(a) ==
  /\ At(a, "first")
  /\ FilesLeft(a, audit[a].read)
  /\ Set(a, IF Whole(Len(audit[a].read) + 1) THEN [audit[a] EXCEPT !.read = Append(@, tree)]
            ELSE Failed)
  /\ Keeps

EndFirst(a) ==
  /\ At(a, "first")
  /\ ~FilesLeft(a, audit[a].read)
  /\ Set(a, [audit[a] EXCEPT !.phase = "second"])
  /\ Keeps

\* second_pass, one file.
ReadSecond(a) ==
  /\ At(a, "second")
  /\ FilesLeft(a, audit[a].again)
  /\ Set(a, IF Whole(Len(audit[a].again) + 1) THEN [audit[a] EXCEPT !.again = Append(@, tree)]
            ELSE Failed)
  /\ Keeps

\* From resolve_relations to write_reports, which has both reports in temporary
\* files before it commits the first.
Prepare(a) ==
  /\ At(a, "second")
  /\ ~FilesLeft(a, audit[a].again)
  /\ Set(a, [audit[a] EXCEPT !.phase = "prepared"])
  /\ Keeps

Input(a) == <<audit[a].read, audit[a].again>>

CommitJson(a) ==
  /\ At(a, "prepared")
  /\ reports' = [reports EXCEPT !.json = Input(a)]
  /\ LET others == {b \in Audits \ {a} : At(b, "between")}
     IN audit' = [b \in Audits |->
                    IF b = a THEN [audit[a] EXCEPT !.phase = "between", !.overlapped = others # {}]
                    ELSE IF b \in others THEN [audit[b] EXCEPT !.overlapped = TRUE]
                    ELSE audit[b]]
  /\ UNCHANGED <<head, tree>>

\* An audit that is over, and whether its commits overlapped with another's.
Over(a, phase) == [Idle EXCEPT !.phase = phase, !.overlapped = audit[a].overlapped]

CommitMarkdown(a) ==
  /\ At(a, "between")
  /\ reports' = [reports EXCEPT !.markdown = Input(a)]
  /\ Set(a, Over(a, "done"))
  /\ UNCHANGED <<head, tree>>

\* Mutant of CommitFails: the failure is not reported.
CommitFailsSilently(a) ==
  /\ At(a, "between")
  /\ Set(a, Over(a, "done"))
  /\ Keeps

\* The second commit fails, or the process dies before it.
CommitFails(a) ==
  /\ At(a, "between")
  /\ Set(a, Over(a, "torn"))
  /\ Keeps

Next ==
  \/ \E a \in Audits :
       \/ \E overwrite \in BOOLEAN : CheckClean(a, overwrite)
       \/ Identify(a) \/ ReadFirst(a) \/ EndFirst(a) \/ ReadSecond(a)
       \/ Prepare(a) \/ CommitJson(a) \/ CommitMarkdown(a)
       \/ Fail(a) \/ CommitFails(a)
  \/ Change

Spec == Init /\ [][Next]_vars

-----------------------------------------------------------------------------
(***************************************************************************)
(* Properties.                                                             *)
(***************************************************************************)

\* The relations of a file by the nesting of its records: for each container inside
\* of an entry its place and its owner, the innermost nested entity around it or
\* else the entry.
ContainersIn(s, d) ==
  LET end == Table([i \in {i \in DOMAIN s : s[i].kind = "start"} |-> Closing(s, i)])
      Around(i, j) == i \in DOMAIN end /\ i < j /\ j < end[i]
      isEntry == {i \in DOMAIN s : s[i].kind = "start" /\ s[i].name = EntryElement(d)}
      entries == {i \in isEntry : \A j \in isEntry : ~Around(j, i)}
      containers(i) == {c \in DOMAIN s : s[c].kind = "start" /\ IsContainer(d, s[c].name)
                                        /\ Around(i, c)}
      Entities(i, kind) == {j \in DOMAIN s : s[j].kind = "start"
                                            /\ EntityElement(d, s[j].name) = kind /\ Around(i, j)}
      Owners(i, c) == {j \in UNION {Entities(i, kind) : kind \in NestedKinds} : Around(j, c)}
      Nth(S, x) == Cardinality({y \in S : y <= x})
      Place(i, c) ==
        LET owners == Owners(i, c)
            owner == CHOOSE j \in owners : \A k \in owners : k <= j
            kind == EntityElement(d, s[owner].name)
        IN [entry |-> Nth(entries, i), ordinal |-> Nth(containers(i), c),
            owner |-> IF owners = {} THEN <<"entry", 0>>
                      ELSE <<kind, Nth(Entities(i, kind), owner)>>]
  IN UNION {{Place(i, c) : c \in containers(i)} : i \in entries}

\* The audits that have a report to commit. What is said of a report is examined once
\* for every input one can be compiled from.
Prepared == {a \in Audits : At(a, "prepared")}

\* The relations of file n and what the nesting of its records says they are.
Places(relations, n) ==
  LET here == {relations[i] : i \in {i \in DOMAIN relations : relations[i].entry.locator.file = n}}
      Owner(x) == <<x.kind, IF x.kind = "entry" THEN 0 ELSE x.locator.at[x.kind]>>
  IN {[entry |-> r.entry.locator.entry, ordinal |-> r.ordinal, owner |-> Owner(r.entity)] :
        r \in here}
\* The same of each file, computed once.
Containers ==
  Table([c \in DOMAIN Corpora |->
           Table([n \in DOMAIN Corpora[c] |->
                    ContainersIn(Corpora[c][n].records, Corpora[c][n].dictionary)])])
WhereTheyStand ==
  Table([read \in DOMAIN FirstPasses |-> \A n \in DOMAIN read :
           Places(FirstPasses[read].relations, n) = Containers[read[n]][n]])

\* Every relation element of the sources is one relation of the audit, in the place
\* it has and owned by the innermost entity it stands in: what EntryBuilder tracks
\* in its current locators is the nesting of the elements.
RelationsOfTheirContainers == \A a \in Prepared : WhereTheyStand[audit[a].read]

\* The entities of the corpus a relation may mean by everything it says.
Meant(first, r) ==
  LET d == r.entry.dictionary
      As(e) == [entry_key |-> OwnEntity(e).key, headword |-> e.headword, homonym |-> e.homonym]
      Says(e, x) ==
        /\ x.dictionary = d /\ x.kind \in TargetKinds(d, r.fields.unit)
        /\ x.key # "" /\ x.key = TargetKey(r)
        /\ OwnerMatches(d, r.fields, As(e))
        /\ WordMatches(d, r.fields, As(e))
        /\ HomonymMatches(d, r.fields, As(e))
  IN UNION {{<<e, x>> : x \in {x \in EntitiesOf(e) : Says(e, x)}} :
              e \in {first.entries[n] : n \in DOMAIN first.entries}}

\* The target relation r is given is the only entity it can mean.
RightTarget(first, r, given, meant) ==
  LET d == r.entry.dictionary
      Bears(id) == {x \in first.tracked : \E n \in DOMAIN first.entries :
                      /\ x \in EntitiesOf(first.entries[n])
                      /\ EntityId(first, first.entries[n], x) = id}
      hasTarget == given.status \in {"resolved", "self_reference"}
  IN /\ hasTarget <=> /\ ~FieldConflict(d, r.fields) /\ ~UrlConflict(d, r.fields)
                      /\ Cardinality(meant) = 1
     /\ hasTarget => \E sole \in meant :
          /\ Bears(given.target_id) = {sole[2]}
          /\ given.status = "self_reference" <=> sole[1] = r.entry
RightTargets(first, relations) ==
  \A n \in DOMAIN relations :
    RightTarget(first, first.relations[n], relations[n], Meant(first, first.relations[n]))
TargetsMeant ==
  Table([input \in Inputs |-> RightTargets(FirstPasses[input[1]], Resolutions[input])])

\* A relation is given a target exactly if one entity of the whole corpus fits all
\* that the relation says, and the id it is given is that entity's and no other
\* one's: keys that repeat are never merged. It is a reference to the entry itself
\* exactly if that entity is the entry's own. This holds if the files did not
\* change between the passes; the trackers are of the first, the candidates of
\* the second.
ResolvedIsTheOneMatch ==
  \A a \in Prepared : audit[a].read = audit[a].again => TargetsMeant[Input(a)]

\* The cycles of a report and what reachability says they are.
Mutual(report, list, enclosed) ==
  LET Class(x) == {y \in Names(list) : Reaches(enclosed, x, y) /\ Reaches(enclosed, y, x)}
  IN /\ report.in_cycle =
          {n \in Resolved(list) : Reaches(enclosed, list[n].target, list[n].source)}
     /\ {g.members : g \in report.groups} =
          {Class(x) : x \in {x \in Names(list) : Class(x) # {x}}}
     /\ \A g \in report.groups :
          g.edges = Cardinality({n \in report.in_cycle : list[n].source \in g.members})
RightCycles(report, list) == Mutual(report, list, Enclosed(list))
CyclesReach == Table([input \in Inputs |-> RightCycles(Reports[input], Resolutions[input])])

\* in_cycle marks a resolved relation exactly if its target leads back to its
\* source, and the groups are the sets of entries that reach each other: the two
\* depth-first searches find what reachability says, whatever the order of names.
CyclesAreMutual == \A a \in Prepared : CyclesReach[Input(a)]

\* The numbers of a report against each other.
Numbers(first, report) ==
  LET c == report.status_counts
      Unique(d) == \A n \in DOMAIN first.entries :
        LET e == first.entries[n] IN e.dictionary = d => EntryId(first, e)[1].at = <<>>
  IN /\ \A d \in DOMAIN report.namespaces : \A kind \in Kinds :
          LET ns == report.namespaces[d][kind] IN
          /\ ns.total = ns.missing + ns.distinct + ns.occurrences
          /\ ns.within_entry.occurrences <= ns.within_file.occurrences
          /\ ns.within_file.occurrences <= ns.occurrences
          /\ kind = "entry" => /\ ns.within_entry.scopes = ns.total
                               /\ ns.unique <=> Unique(d)
     /\ c.resolved + c.self_reference + c.unresolved + c.ambiguous
          = Len(first.relations)
NumbersAgree ==
  Table([input \in Inputs |-> Numbers(FirstPasses[input[1]], Reports[input])])

\* The counts of a report agree: entities with the keys, the repetitions in an
\* entry with those in a file and in the corpus, a namespace that is called unique
\* with the ids that were built from it, the statuses with the relations.
CountsAgree == \A a \in Prepared : NumbersAgree[Input(a)]

\* The two files are of one audit, unless one stopped between its commits, which it
\* did not call a success, or the commits of two audits overlapped.
MixedOnlyWhenCutShort ==
  reports.json # reports.markdown =>
    \E a \in Audits : audit[a].phase \in {"between", "torn"} \/ audit[a].overlapped
=============================================================================
