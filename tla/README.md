# Verification of korean-dict-epub

TLA+ models of the Rust program under `src/`, the TLC configurations that check
them on small instances, and theorems about them that the TLA+ proof system
checks for every value of the constants.

The program turns the tracked XML of three Korean dictionaries into EPUB
volumes (`build`, `audit`, `batch`), and has a library that imports the same XML
into a SQLite corpus database for a local web dictionary. Both promise the same
thing of their input, that nothing of it is lost, and of their output, that what
is called passed or ready was verified as a whole. The models are about those
promises where they meet threads, failing steps, killed processes and several
sessions on one file.

## Inventory

| Component | Source | State it keeps | Operations | Models |
| --- | --- | --- | --- | --- |
| Corpus batch | `src/batch.rs` | shared deque, cancellation flag, channel of book reports; EPUBs, `.audit.json` files and `corpus-report.json` on disk | `run_batch`, worker loop, `process_volume`, `run_epubcheck`, `write_report` | `Batch` |
| EPUB conversion | `src/epub.rs` | entry buffer, entry counter, open chapter, finished chapters; stage directory, atomic temporary file | `build_volume`, `ChapterWriter`, `write_fragment_with_split`, `package_stage` | `Chapters` (loop), `TwoReaders` (headwords), `EpubCommit` |
| Source reader | `src/source.rs`, `src/record.rs` | frames of open elements, pending records, sanitizer's partial match | `read_next_event`, `fill_output`, `restore_control_characters`, record digest | `SourceReader`, `RecordStream`; `Sanitizer`, `Characters` |
| Independent audit | `src/audit.rs` | a second reader and sanitizer, counters, headword state; stack, record and heading of a page | `audit_source`, `audit_epub`, `audit_xhtml`, `audit_volume` | `TwoReaders` (source side), `Characters` (page), verdict in `Batch` |
| Corpus import | `src/web_import.rs` | session (mode, destination, working path, connection), staging database | `begin_import`, `with_file_transaction`, `finalize`, `Drop`, `publish_database` | `Import`, `CorpusCell` |
| Web database | `src/web_db.rs`, `src/web_db/migrations/0001.sql` | schema version and history, corpus row and state, source files, records | `create_new`, `migrate`, `validate`, `finalize_import` | `Import` (what they decide), `EntryImport` (completion of a file) |
| File streaming | `src/web_import.rs:331-785` | entry state, native keys seen, rows of the open transaction | `import_source_reader`, `finish_entry`, `insert_source_record` | `EntryImport`, `EntryFields` |
| Canonical ids | `src/web_identity.rs` | none | `canonical_id`, `append_disambiguator` | `EntryImport`, `SourceAudit` |
| Web source audit | `src/web_source_audit.rs` | key trackers, candidates, relations, two report files | two passes, `EntryBuilder`, `resolve_relation`, `mark_cycles`, `write_reports` | `SourceAudit`, `AuditEntries`, `Cycles` |
| Catalogue | `src/catalog.rs` | none | `discover`, `select` | not modelled |
| Rendering | `src/render.rs` | none | `render_record`, `render_value`, `escape_xml` | `Characters` |
| CLI | `src/app.rs`, `src/cli.rs` | none | parsing, messages | not modelled |
| Python prototype | `prototype/python` | none | superseded | not modelled |

How they interact. `batch` calls `build_volume`, then `audit_volume`, then the
external EPUBCheck for each volume; they communicate through the files of the
output directory only. `build_volume` and the importer both pull records from
`SourceRecordReader`; `audit_volume` reads the same source with an implementation
of its own and compares digests. The importer calls `web_db` for set-up,
validation and finalization; two sessions, or a session and a later one after a
crash, share nothing but the database file, its SQLite locks and its journal.

What is hard:

- *Threads*: the batch workers share a deque, a flag and a channel; the flag is
  read outside of the queue's lock.
- *Processes*: import sessions on one path, where files are created, replaced and
  deleted by name while others hold them open; builds of one volume by two
  processes, whose ids need not differ.
- *Crashes*: a batch killed between build and audit; a session killed before its
  transaction commits, or between any two steps of setting a database up.
- *Partial failure*: every step of a volume and of a session can fail on its own.
- *Streaming*: decisions (where an entry ends, where a chapter is split, which
  text belongs where, whether a byte begins an escape) are taken before the rest of
  the input is known.
- *Two implementations*: the conversion and the audit read, filter and decode on
  their own; what both misread alike, or one misreads and a change of the book
  hides, nobody sees.
- *Two passes*: the source audit reads a working tree twice that may change in
  between, and writes two files that belong together one after the other.

`PROJECT.json` lists the hazards one by one, at the line where each bites, with
the properties that would catch it.

## The modules

### Batch

`Batch.tla` models `run_batch`. A volume is its position in the catalogue. Each
worker's loop is cut where another thread can be seen: the load of `cancelled`
(`LoadCancelled`), the locked `pop_front` (`Pop`), the build (`KeepExisting`,
`Build`, `BuildFails`), the audit (`AuditPasses`, `AuditMismatch`, `AuditError`),
`EpubCheck`, `Send` and `StoreCancelled`. The parent is `Reject`, `Start`,
`Finish` and `FinishWithoutReport`; `Crash` ends an execution anywhere and keeps
the files. `MaxRuns` bounds how often the command is started, so that a second
execution meets what a first one left. An EPUB is `conforming` or `differing`, by
what the audit would make of it; `build_volume` may produce either, because it
does not check its own output against the source.

| Property | Says |
| --- | --- |
| `VolumesConserved` | every popped volume is with one worker or in one report, no other volume is |
| `PassedMeansVerified` | a passed report was audited (and EPUBChecked) by this execution, and the EPUB and audit file still are what was verified |
| `ReportAccountsForCatalogue` | the corpus report has no gap, leaves volumes out only after a failure without `--keep-going`, and returns success exactly when everything passed |
| `OverrunBounded` | at most one volume per other worker is begun after the failure flag is stored |
| `ResumeAuditsExisting` | `--resume` never reports a volume that has an EPUB without auditing it |
| `BatchEnds` | a batch that is not killed ends |

### Import and CorpusCell

`CorpusCell.tla` is the abstract promise: to whoever opens the destination path,
a corpus appears empty, takes one whole file at a time, becomes ready when it
holds the catalogue, and can then only be replaced by another ready corpus. Once a
rebuild has run beside another session (`contended`), it may also be lost as a whole
(`Lose`); that is the worst.

`Import.tla` is the code. Every session is a process with a program counter. Its
write transactions are two steps, the first write and the end, because another
session may act, or the process die, in between. What SQLite does for the program
is part of the model and marked external: one writer per file, hot journals and
their roll back by the next read-write connection, a connection that stays with
the file it opened although the path has another one by now, journals deleted by
name. `Drift` is somebody else changing rows of an importing database, which is
what the digests in `validate_source_file_completion` are for.

| Property | Says |
| --- | --- |
| `ReadyImpliesComplete` | a ready database has every file of the catalogue, each agreeing with its digest |
| `ReadyServable` | a ready database has no rollback journal, so it opens read-only |
| `FinalizeOkMeansReady` | after `finalize` returned Ok the destination is ready, for the commit the session was begun for |
| `RebuildSwapsOnly` | a rebuild leaves the destination alone or swaps it in one step for the complete new corpus |
| `ImplementsCell` | the destination moves as `CorpusCell` allows |
| `PublishSparesSidecars` | ARCHITECTURE.md's refusal to publish over a database with sidecars; refuted |

All of them are checked with sessions of every mode side by side. The history
variable `raced` remembers that a rebuild was in flight beside another session, which
the code does not prevent. From then on (`Contended`) a failing `new` may delete by
path what the rebuild has put there, and a journal of the replaced database may stand
beside the new one, so `ReadyServable` and `FinalizeOkMeansReady` say nothing any
more; the program is meant for one local user and promises no isolation there.
`ReadyImpliesComplete`, `RebuildSwapsOnly` and the refinement hold all the same: a
race can lose a database, but never make a partial one look ready or take single
files back.

### Chapters

`Chapters.tla` is the record loop of `build_volume`: `OpenEntry`, `BufferRecord`,
`CloseEntry` for entries, `EmptyEntry` and `OtherRecord` for what is written at
once, `EndOfSource` and `SourceError`. `Split` is `write_fragment_with_split` and
`Add` is `ChapterWriter::write_fragment`. A record is its kind; its depth follows
from the elements open, as the reader computes it. A fragment is its length and
whether it is an entry. The model remembers, for the properties, the ordinal of a
chapter's first record and its first fragment.

| Property | Says |
| --- | --- |
| `RecordsConserved` | the chapters hold consecutive runs of records from the first to the last read, but for the entry being collected |
| `EntryLabelsRunOn` | first and last entry numbers of the chapters are those of their entries and run on without a gap |
| `LimitsKept` | no chapter exceeds the entry limit, nor the byte limit unless it is one fragment |
| `NoNeedlessSplit` | a chapter is begun only when its first fragment did not fit the one before |
| `NeverUnclosed` | `EpubError::UnclosedEntry` is unreachable: the reader refuses such a source first |

### SourceReader, RecordStream and TwoReaders

`RecordStream.tla` is what a consumer of records relies on: balanced elements, the
depth each record has in the tree, an element's text directly after its start and
a tail directly after the element it follows.

`SourceReader.tla` is `SourceRecordReader`. Each arm of `read_next_event` is an
action (`StartEvent`, `EmptyEvent`, `TextEvent`, `EndEvent`, `EofEvent`,
`IgnoredEvent`), with `GarbledEvent` for a name or attribute that does not decode
after the parent was already counted and flushed, and `ErrorEvent` for everything
that fails before it changes anything. `Take` is `Iterator::next` handing out what
is pending. Text is the set of its pieces, so that the properties can say which
pieces were handed out; blank pieces are piece 0.

`TwoReaders.tla` puts the conversion and the audit beside each other, both reading
the same events: `Convert` is the loop body of `build_volume` with
`extract_headword` over the collected entry, and `AuditStart` to `AuditOther` are
the arms of `audit_source` with `SummaryAccumulator::observe` and
`capture_krdict_headword`, which decide on a headword as they read.

| Property | Says |
| --- | --- |
| `InkInOrder` | text with ink is handed out once and in order, and all of it when the source ends well |
| `ImplementsStream` | the reader is a `RecordStream` |
| `ReadersAgree` | for every event the two readers give the same records, and one refuses what the other does |
| `SummariesAgree` | wherever a source may end, the audit's entries and headwords are those converted, exactly if no entry element stood inside of another |

The last is sharp in both directions: a source with nested entry elements is
converted without an error, and its audit counts more entries than the book has.
The importer refuses such a source (`web_import.rs:488`).

### Sanitizer and Characters

`Sanitizer.tla` is `ControlSanitizer` byte by byte: `Fill` is `fill_output` with a
read of any length, `FillLast` the one at the end of the file, `Take` what the parser
asks for. `AuditControlReader` is the same filter with another escape, so
`Characters.tla` instantiates it twice.

`Characters.tla` follows the characters of one element, with a name, an attribute's
value and a text, through the whole program: the conversion's filter, the parser with
its character references, `restore_control_characters`, the records, `render_entry`
as the parser events of its XHTML, then the audit's own filter and restoring, and
`audit_xhtml` event by event (`AuditStart`, `AuditText`, `AuditEnd`, `AuditEof`) with
its stack, record and heading. In between `ChangeBook` may change the page in one
place: a node gone, doubled, exchanged with the next of its class, or different. Bytes
are those of the characters that matter: a control, both escapes and their
replacements in UTF-8, and references to each.

| Property | Says |
| --- | --- |
| `PassedMeansPreserved` | a book that passes shows what XML says the source means, whatever was misread or changed, unless a change hides what the audit misreads |
| `OrdinarySourcePasses` | a source of UTF-8 without references to an escape or a carriage return is converted and passes, however its bytes fall into reads |
| `ValuesPreserved` | REQUIREMENTS.md's preservation of values; refuted |

The exceptions in them are what the code does. The escape is undone after references
are resolved, so `&#xE000;` in a text is refused as an invalid escape, and
`&#xE000;&#xE018;` in an attribute is read by the conversion as U+0008; the audit,
whose escape is another one, then refuses the book, and that is why the two escapes
differ. `&#xE100;&#xE100;` is read by the audit as one character: only a book changed
to say the same passes. What the audit does not look at is not changed by
`ChangeBook`: the glyph of a control, and whether a record's name stands before its
attributes. A control in an element's name is written raw, which makes the page not
well-formed; only EPUBCheck can tell.

### EntryFields and EntryImport

`EntryImport.tla` is `import_source_reader` in its transaction: `BeginFile`, one
action per arm of the record loop (`StartEntry`, `NestedEntry`, `StartElement`,
`EmptyEntry`, `EmptyElement`, `ElementText`, `TailText`, `FinishEntry`,
`EndElement`), `EndOfSource` with `validate_source_file_completion`, and `ReadFails`
for an error or a death anywhere. Each arm inserts the rows first and interprets then,
as the code does. `NewEntry`, `AfterEmpty` and `AfterText` are the functions of
`EntryImportState` for the three dictionaries. A text is its trimmed form and whether
it is padded. `EntryFields.tla` has what this importer and the source audit take from
records in the same way, each with its own copy of the code.

| Property | Says |
| --- | --- |
| `EntryOwnsItsRecords` | the one UPDATE by ordinals gives each record to the entry it stands in |
| `CorpusAccountsForEntries` | after any failures and retries there is one entity per entry, numbered in order, with an id of its own |
| `HeadwordFromFirst` | the headword and its record are the first that gives one where the dictionary has it |
| `OnlyTrueRowsValidate` | the complete rows validate, and no table that differs in a row does |
| `RefusedForCause` | a key is refused as a duplicate only because another entry has it: a rolled-back attempt leaves nothing behind |

### SourceAudit, AuditEntries and Cycles

`AuditEntries.tla` is `parse_volume` with `EntryBuilder`: what one file's records give,
entities with locators and keys, relations with their fields, entries that are
complete. `Cycles.tla` is `mark_cycles`, both depth-first searches with their explicit
stacks. `SourceAudit.tla` is `run_audit`: `CheckClean` and `Identify` look at the
working tree, the commit and the reports there are, `ReadFirst` and `ReadSecond` are one
file of the first and the second pass, `Prepare` resolves and counts, and `CommitJson`
and `CommitMarkdown` (or `CommitFails`) replace the two reports one after the other.
The working tree may change (`Change`) between any two steps, two audits may run on one
output directory, and an audit may be killed anywhere. What an audit has in memory is a
function of which version of each file it read; those functions are written as `Table`,
which makes TLC evaluate each of them once.

| Property | Says |
| --- | --- |
| `RelationsOfTheirContainers` | the entity a relation belongs to is the innermost one it stands in |
| `ResolvedIsTheOneMatch` | a relation has a target exactly if one entity fits all it says, and the target's id is that entity's alone |
| `CyclesAreMutual` | a relation is in a cycle exactly if its target leads back to its source, and the groups are the classes of mutual reachability |
| `CountsAgree` | totals, missing keys, distinct keys and repetitions per entry, file and corpus agree with each other and with the ids built from them |
| `MixedOnlyWhenCutShort` | the two reports belong to one audit unless one was cut short between its commits or two overlapped |

`ResolvedIsTheOneMatch` asks that no file changed between the passes: the key counts
are of the first pass and the candidates of the second, so an id may otherwise stand
for two entities. Two audits of one output directory can leave a JSON of one and a
Markdown of the other without either failing; `overlapped` remembers it. Neither is
excluded by a document.

### EpubCommit

`EpubCommit.tla` is how a book comes to its path: `Begin` and `LookAgain` look at
the output, `CreateStage` is one turn of the loop in `StageDirectory::create`,
`Write` and `Package` are what `build_volume` and `package_stage` do to the stage
and the atomic temporary file, `CleanUp` removes the stage, `Commit` renames, and
`Fail` is an error in any of them, with the drop of the stage. Builders belong to
processes that share an output directory and perhaps an id (one after the other,
or in two containers); `strays` are the stages of processes killed earlier. What a
stage or a book holds is the set of builders that wrote it.

| Property | Says |
| --- | --- |
| `BooksUnmixed` | no book is mixed from two builds |
| `StagesStay` | no builder removes a stage another one still uses |
| `NothingLeft` | when nobody was killed or failed to remove its stage, none is left but those that were there |
| `ReplacesOnlyInRace` | without `--overwrite` a book is replaced only if it came after the second look |
| `ReplacesOnlyOnRequest` | without `--overwrite` no book is replaced; refuted |

## Runs

| Run | Instance | What it shows |
| --- | --- | --- |
| `BatchRestart` | 2 volumes, 1 or 2 workers, 2 executions, any initial files | every safety property of the batch: interleavings, failures, and what a killed or failed execution leaves |
| `BatchLiveness` | 2 volumes, 2 workers, fair threads | termination |
| `Import` | 3 sessions, all modes, 2 files, 2 commits | creation, resumption and rebuilds beside and after each other, with every failure point |
| `ImportSidecars` | 2 sessions, 1 file | counterexample to the documented refusal |
| `Chapters` | 7 records, nesting 3, limits 2 entries / 3 bytes, fragments of 1 or 4 bytes | every small source |
| `TwoReaders` | 7 events, nesting 3, 3 names, krdict and the others | every small source: the reader's stream, and the agreement of conversion and audit |
| `EpubCommit` | 3 builders in 2 processes of one id, 2 output paths, 2 tries for a stage | commit races, failures and kills |
| `EpubClobber` | 2 processes, one volume | counterexample to the documented refusal |
| `Characters` | sources of up to 3 characters out of 13, reads of up to 3 bytes, any one change of a book of up to 6 bytes of source | the way of characters into a book and through its audit |
| `CharactersKept` | sources of 1 character | counterexample to the preservation of values |
| `EntryImport` | 2 files of krdict, one each of stdict and opendict, of 1 or 2 entries | every shape the record loop tells apart, keys shared between files, failures and retries |
| `SourceAudit` | 2 audits, 7 corpora of 1 or 2 files, one change of the tree | every way a relation is resolved or not, repeated keys, cycles, torn reports |

Why the bounds are enough. Workers differ only in their names. A hazard of the batch needs a
worker that fails and one that has already looked at the flag; that one worker
alone may not go on after its own failure is why a batch of one worker is included.
What grows with the number of workers, `VolumesConserved` and `OverrunBounded`, is
proved for any number. Two executions suffice because the second
starts from arbitrary files that `Init` and the first one produce, and nothing
else survives an execution. Import hazards pair one writer with one that replaces,
deletes or resumes; a third session lets a crash or a failure of one be met by
both others. Two commits let a session meet a database of another commit, two
files a database that is begun and not complete. In `Chapters`, two entries per
chapter and fragments below and above the byte limit make every branch of
`should_split` decide, and seven records give three chapters and a nested entry.
Seven events are what an entry with its headword takes, from the start of the entry
to its end, and give every order of text, child and tail; what has to hold of the
reader for any length is proved. Two builders of one process and a third of another
with its id make every stage name contested, and two tries let a builder both step
over a stage and give up. Three characters are what a value needs to have an escape
cut off, followed by its replacement, or next to a reference, and reads of one to
three bytes cut a three-byte character in every place; a source of up to three
characters has each of its pieces with up to three. Two files of one dictionary show
what the importer remembers within a file and finds in the database across files. The
corpora of `SourceAudit` are written down one by one because what matters is in the
relations: each has those of one dictionary, chosen so that every status and every
branch of `resolve_relation` is met, and two may change into a corpus where a resolved
relation's target is another one.
Symmetry is used for workers, sessions, files and commits, never in the run that
checks liveness.

Deadlock is not checked where the system may stop: a batch after its last
execution, a finished or refused source, builders that have all ended, a corpus whose
files are all imported, audits that have all stopped.

Fairness is assumed in `BatchLiveness` only: weak fairness of each worker (the
operating system schedules threads, builds and audits are finite, and the
EPUBCheck process is waited for without a timeout, so its end is an assumption
about Java) and of the parent's join. Starting a batch and crashing are not fair.

## Findings

- `ImportSidecars`: ARCHITECTURE.md says a rebuild keeps the existing database if
  the destination has a sidecar. The look and the rename are two steps; a resumed
  session's transaction can begin between them.
- `EpubClobber`: REQUIREMENTS.md says an existing EPUB is replaced only with
  `--overwrite`. The second look at the output path and the rename are two steps; a
  book another process puts there in between is replaced. `ReplacesOnlyInRace` says
  that this is the only way.
- `CharactersKept`: REQUIREMENTS.md says every attribute value and meaningful text is
  preserved. A carriage return that a source has as `&#13;` is written into the book as
  the character itself, which a parser turns into a line feed: the value is lost, and
  the volume fails its audit although its source is legal.

Met while modelling, without a run of their own: ADR-0008 says allocation stops after
the first failure, but a worker that has looked at the flag pops a volume although the
flag was stored since; `OverrunBounded` is the guarantee the code does give. ADR-0004
says that the escape cannot collide with the source; a reference to it can (see
`Characters`), which the audit notices.

## Proofs

TLC checks the properties on the instances above; the following hold for every
value of the constants (any number of volumes, workers, executions, files,
commits, sessions, modes, limits and sizes, under the named assumptions, which
say that sets are finite or numbers natural and that the placeholders are not
real values).

- `BatchProofs`: `BatchTypeOK`, `BatchConservation`, `BatchVerification`,
  `BatchOverrun`, `BatchResume`, `BatchReport`. `TypeInv` adds to the types that exactly the workers between
  pop and send hold a report (`BookOK`). `VolumesConserved` is inductive with it.
  `PassedMeansVerified` is not: it needs to know what each worker has verified so
  far (`Progress`), and that nobody else touches its volume, which is
  `VolumesConserved`. `OverrunBounded` needs the count of workers that stand at
  their pop: a set flag makes `overrun + |Popping| + 1 <= |active|` inductive,
  since the worker that stored the flag is never among them. `BatchResume` knows
  of each report about to be sent without an audit that its build failed, and that
  a resumed batch only builds where there is no EPUB (`ResumeInv`). `BatchReport`
  rests on why workers stop (`StopInv`): each that has left the loop saw the flag or
  an empty queue, and the flag, or a worker about to store it, means a failed report
  without `--keep-going`. So the joined workers leave one report of each volume
  taken, the sort puts them at their positions (`SortedReports`), and what is missing
  is missing behind a failure.
- `ImportProofs`: `ImportTypeOK`, `ImportReady`, `ImportRebuild`, from the
  inductive invariant `IInv`: a rebuild's staging database is what its program
  counter says (`StagingInv`), one session writes at a time (`OneWriter`), and
  what `finalize_import` validated is still true when it commits
  (`FinalizingInv`). The last is where the write lock matters: nobody else can
  write, and whoever replaces the file detaches the connection.
- Also `ImportProofs`: `ImportServable`, `ImportFinalizeOk` and the refinement
  `ImportImplementsCell`, from `FullInv`, which has two more halves. `CellInv` holds
  whatever races: a session still creating a database is alone attached to it and it
  is no corpus yet (`CreationInv`), and the file of an open transaction is missing
  until that commits (`FileInv`); so every commit is a step of `CorpusCell`.
  `CalmInv` holds until a rebuild runs beside another session: the place of every
  session tells phase and commit of the target (`Place`), and a journal is that of a
  transaction which is open or was left by one that did not make the database ready
  (`Journals`); so nothing that fails or dies takes anything back, and `Lose` needs a
  race. A race, once it has been, has been, and only a session that begins makes one
  (`RaceBegins`).
- `EntryImportProofs`: `EntryImportIds`, `EntryImportRefuses`, for any files, records
  and order of attempts. `KeysInv` says that the keys in memory are of entities this
  attempt wrote (`KeysWritten`), that an id is made of dictionary and key
  (`IdsOfKeys`), and that no two entities, committed or about to be, share one
  (`IdsUnique`), which rests on `finish_entry` asking both its set and the database.
  `EntryImportOwners`, `EntryImportAccounts`, `EntryImportHeadwords` and
  `EntryImportTables` are about documents of any length and depth: what comes of a
  file read to the end, from the invariant `RowsInv` about the file read so far.
  Its parts are the rows written (`RecordsInv`, `AttributesInv`), the entry open and
  the path inside of it (`OpenInv`), its headword until now (`HeadInv`), the entities
  written (`EntitiesInv`) and their number (`AccountInv`), whom each row belongs to
  (`OwnerInv`), the same for the committed files (`CommittedInv`), and that nothing is
  left of an attempt that is over (`IdleInv`).
  The module begins with what that needs of documents: how starts and ends are counted,
  that an element closes once and elements nest, what the path of open elements says
  about the elements around a record, and that rows numbered without a gap validate
  and no others.
- `ReaderProofs`, `SourceAuditProofs` and `CharactersProofs` begin with induction over
  the numbers for sets, derived from the well-foundedness of finite subsets, so that
  statements about sequences of any length can be proved although the library's
  induction over predicates cannot be instantiated.
- `ChaptersProofs`: `ChaptersTypeOK`, `ChaptersNeverUnclosed`, `ChaptersLimits`,
  `ChaptersConserve`, `ChaptersNeeded`, `ChaptersLabels`. Every step writes one fragment, keeps the chapters or ends
  the source (`Cases`). `ChaptersNeverUnclosed` rests on the nesting of the
  collected entry; `ChaptersConserve` on the lemma `Continues`: a chapter may be
  appended exactly if it begins where the run of chapters ends. `ChaptersNeeded`
  compares each finished chapter with the head of the next, the last one with the
  head of the chapter still open (`SplitInv`); `ChaptersLabels` carries the run of
  labels up to the first entry of that chapter (`LabelInv`).
- `ReaderProofs`: `ReaderTypeOK`, `ReaderInkInOrder`, `ReaderImplementsStream`. The
  invariant relates the frames to the depths, the text still open to what was
  handed out, and pins down the few shapes `pending` can have (nothing; a text or
  tail, a tag, or one before the other), so that every `Take` is a step of
  `RecordStream` and every event a stutter of it.
- Also `ReaderProofs`: `ReadersAlwaysAgree`, for sources of any length, from the
  invariant that the two readers' frames and outcomes are equal (`Alike`), and
  `ReadersSummariesAgree`. The audit is ahead of the conversion by the records that
  wait, so `SummaryInv` says that the summary is what those make of a summary that
  goes with the buffer and the articles (`Tracks`): the buffer's entry is the first
  entry on the audit's path and the path of the buffer is the path from there
  (`Inside`), no entry was begun that is not counted, and while none but those was
  counted the headwords are the same (`Same`). One lemma per kind of record
  (`HandleEntry` to `HandleEnd`) shows that both stay so when they see it; that the
  first candidate in the collected entry is the candidate the audit took when it came
  (`ExtractAppend`, `TagInEntry`, `HandleText`) rests on the path of a prefix of the
  records being a prefix of their path (`PathAppend`). `EntryAssumption`, that
  `src/catalog.rs` gives no dictionary `word` or `feat` for its entry element, is
  needed: an entry that is its own headword would be one to the conversion only.
- `EpubCommitProofs`: `EpubTypeOK`, `EpubStagesStay`, `EpubBooksUnmixed`,
  `EpubNothingLeft`, `EpubReplaces`.
  `StagesOwned` is the strengthening: builders with a stage have different ones,
  each there and holding only what its builder wrote. It rests on `create_dir`
  refusing a directory that exists, and on nothing the processes' ids would have to
  promise. `TriesLeft` keeps the count of tries in its type.
  `EpubNothingLeft` accounts for every stage directory: it was there before or belongs
  to a builder at work, unless one was killed or failed to remove its own
  (`Accounted`). `EpubReplaces` rests on what each builder saw when it last looked at
  the path (`Looked`).
- `SourceAuditProofs`: `AuditReportsTogether`, from the inductive invariant `IInv`: each
  audit has read, of as many files as its phase says, the corpus of its commit or later
  ones (`HasRead`), and one that stands between its commits wrote the JSON report that
  is there, or another's commits overlapped with its own. `AuditMarksCycles`, for any
  corpora that `CorporaAssumption` and `LaterAssumption` admit: sources that read to
  their end, and changes that follow each other and leave the list of files as long as
  it was, which is what `discover` fixes. It has three parts. `MarkCyclesRight` is the
  algorithm: the invariant of the first search (`Searching`) says that a node which is
  finished has all it leads to visited and, unless they lead back to it, finished
  before (`Outlasted`); so in the second search, against the edges, what is reached
  from the node that finished last and is in no component yet is its component
  (`CollectRight`, `ComponentsRight`). `ParseVolumeOk`, `ConcatMembers` and `FirstPassOk`
  show that the relations of a corpus are a list, so finitely many and their nodes can be
  numbered, and `ResolutionLeads` that a resolved relation leads to another entry, which
  is why a component of one entry is no cycle.
- Also `SourceAuditProofs`: `AuditResolvesTheOneMatch` and `AuditCountsAgree`, from what a
  first pass holds (`Held`): entries in different places, each with one entity of kind
  entry and its other entities numbered by kind. `EntityIdApart` shows that an id is
  of one entity: an id without a locator is of a key that occurs once (`CountedOnce`), all
  others end in the locator (`SegmentApart`). `CandidatesAre` and `KeyedAre` show that the
  second pass collects exactly the entities with the key and kind a relation asks for,
  because what it asks for was noted in the first; that needs the two passes to have read
  the same. A discriminator that leaves nothing keeps what was there and remembers the
  conflict, so `Follows` says what the three of them leave: what fits them all, or, after
  a conflict, nothing that does. `AuditCountsAgree` does not
  need equal passes. Its scopes, the namespace as one, its files and its entries,
  each divide the same entities (`Splits`); what repeats in one is then the number of
  entities less that of pairs of a scope and a key (`SplitCounts`), and a coarser
  division has no more pairs (`SplitCoarser`).

- `CharactersProofs`: `ReadsDoNotMatter`, `OrdinarySourceAudited`,
  `OrdinaryBookPreserved`, for sources of any length and any reads. They follow a
  character through the program. The filter's state is what one pass over the bytes read
  so far makes of them, and what it was asked for does not matter (`ReadInv`), so at the
  end of the file the parser has been given `Whole`. Over ordinary bytes that is a
  sequence of images of characters (`CharSifted`), each decoded and restored to the
  character XML means (`CharDecoded`, `ReadsImage`), for either escape; so both readings
  of a source give its `Meaning` (`OrdinaryParsed`). `audit_xhtml` is a fold over events
  (`Run`, `Advances`), and from any place of a page what `render_record` writes of a
  record leads to that record and back to where it was (`Readable`), piece by piece:
  a character with or without its control element (`ChunkTurns`), a value, an attribute,
  a record, an entry (`EntryTurns`). While the page is read, what is left of it leads to
  the meaning of the source (`Matches`); so no event fails and the verdict is `passed`.

Only model-checked: liveness (`BatchEnds`), since the prover has no fairness;
`PassedMeansPreserved`, whose other half is about changed books and about sources that
are not ordinary, where it must be shown that no two misreadings and no change of one
place cancel out; and `RelationsOfTheirContainers`, which is about the corpora of its run and not about all: in
a source where a container or a nested entity stands inside of another one of its
kind, the code reads what its flags say and not the nesting.

## Plan

Done, in this order: `Batch`; `CorpusCell` and `Import`; `Chapters`; `RecordStream`,
`SourceReader` and `TwoReaders`; `EpubCommit`; `EntryImport`; `AuditEntries`, `Cycles`
and `SourceAudit`; `Sanitizer` and `Characters`; with the proof modules above.

Left: that no change of one place escapes the audit, for values of any length;
`migrate` with its history and `verify_ready_references`; the package and navigation
documents of a book against `parse_package`; the composition of `EntryImport` with
`Import`, whose files now are complete by what `EntryImport` shows.

## Not modelled

Text that only people read: reports, messages, style, the Markdown of the source
audit, its sample lists and its table of keys that look alike. Package, navigation and
title documents and `parse_package`, which are one record of metadata written and read
back. Cryptographic digests are taken to be injective. ZIP, deflate, SQL and XML
tokenizing are libraries. The schema's fingerprint, its one migration and
`verify_ready_references` are a verdict in `Import`. A relation container inside of
another one of the source audit is read as the code reads it, but no corpus of the run
has one, and malformed numbers and URLs are not among the labels and URLs it has. The
catalogue is a pure listing of `git ls-files`; `cli.rs` and `app.rs` call one operation
after parsing their arguments. The web application that will serve the database is not
in the repository. The Python prototype is superseded.
