----------------------------- MODULE Characters -----------------------------
(***************************************************************************)
(* What becomes of the characters of a source on their way into a book and *)
(* back: the conversion filters and parses the source (src/source.rs) and  *)
(* renders its records as XHTML (src/render.rs, src/epub.rs); the audit    *)
(* (src/audit.rs) filters and parses the source on its own, with another   *)
(* escape, reads the records back from the XHTML of the book and compares. *)
(* In between somebody may change the book in one place.                   *)
(*                                                                         *)
(* A byte is a string and a character the sequence of its bytes, so that   *)
(* private use characters show how they are encoded. A character reference *)
(* is one byte of the source; RefersTo says to which character. The source *)
(* is an entry of one element, with a byte "<" for the markup between its  *)
(* name, the value of its attribute and its text, which is the headword.   *)
(***************************************************************************)
EXTENDS Naturals, Sequences, SequencesExt

CONSTANTS
  Capacity,    \* SANITIZER_INPUT_CAPACITY
  Sources,     \* the sources to look at
  MaxTampered  \* bound: the longest source whose book is changed

ASSUME CapacityAssumption == Capacity \in Nat \ {0}
\* "<" stands for markup, and the parser has normalized the ends of lines.
ASSUME SourcesAssumption ==
  LET Piece == Seq(STRING \ {"<", "0D"})
  IN Sources \subseteq [name : Piece \ {<<>>}, value : Piece, text : Piece]

VARIABLES
  source,
  phase,
  input, match, output, eof, taken,   \* the filter of whoever reads the source
  expected,                           \* source_summary
  page,                               \* the chapter of the book, by parser events
  tampered,
  position, stack, record, heading,   \* the state of audit_xhtml
  found,                              \* epub_summary so far
  outcome

filter == <<input, match, output, eof, taken>>
reading == <<position, stack, record, heading, found>>
vars == <<source, phase, filter, expected, page, tampered, reading, outcome>>

(***************************************************************************)
(* Characters.                                                             *)
(***************************************************************************)

Controls == {"08"}   \* of FORBIDDEN_XML_CONTROLS
Continuations == {"80", "84", "98", "A8"}

U08   == <<"08">>
U0A   == <<"0A">>
U0D   == <<"0D">>
UE000 == <<"EE", "80", "80">>
UE018 == <<"EE", "80", "98">>
UE100 == <<"EE", "84", "80">>
UE128 == <<"EE", "84", "A8">>

RefersTo ==
  [x \in {"&#8;", "&#13;", "&#xE000;", "&#xE018;", "&#xE100;", "&#xE128;"} |->
     CASE x = "&#8;" -> U08 [] x = "&#13;" -> U0D
       [] x = "&#xE000;" -> UE000 [] x = "&#xE018;" -> UE018
       [] x = "&#xE100;" -> UE100 [] x = "&#xE128;" -> UE128]

\* CONTROL_ESCAPE, and CONTROL_REPLACEMENT_BASE plus the control.
ConversionEscape == [escape |-> UE000, replacement |-> UE018]

\* Mutant of AuditEscape: the audit uses the escape of the conversion.
SameEscape == [escape |-> UE000, replacement |-> UE018]

\* AUDIT_CONTROL_ESCAPE, and AUDIT_CONTROL_REPLACEMENT_BASE plus the control.
AuditEscape == [escape |-> UE100, replacement |-> UE128]

Conversion == INSTANCE Sanitizer WITH
  Escape <- ConversionEscape.escape,
  Replacements <- [c \in Controls |-> ConversionEscape.replacement]

Audit == INSTANCE Sanitizer WITH
  Escape <- AuditEscape.escape,
  Replacements <- [c \in Controls |-> AuditEscape.replacement]

\* char::is_whitespace, for the characters there are.
Blank(chars) == \A i \in DOMAIN chars : chars[i] \in {U0A, U0D}

\* str::trim
Trim(chars) ==
  LET ink == {i \in DOMAIN chars : chars[i] \notin {U0A, U0D}}
  IN IF ink = {} THEN <<>>
     ELSE SubSeq(chars, CHOOSE i \in ink : \A j \in ink : i <= j,
                        CHOOSE i \in ink : \A j \in ink : i >= j)

\* str::from_utf8; open is a character that is not complete.
DecodedByte(d, byte) ==
  CASE Len(d.open) \in 1..2 /\ byte \notin Continuations -> [d EXCEPT !.valid = FALSE]
    [] d.open = <<>> /\ byte \in Continuations -> [d EXCEPT !.valid = FALSE]
    [] d.open = <<>> /\ byte \notin Continuations /\ byte # "EE" ->
         [d EXCEPT !.chars = Append(@, <<byte>>)]
    [] d.open = <<>> /\ byte = "EE" -> [d EXCEPT !.open = <<byte>>]
    [] Len(d.open) = 1 /\ byte \in Continuations -> [d EXCEPT !.open = Append(@, byte)]
    [] Len(d.open) = 2 /\ byte \in Continuations ->
         [d EXCEPT !.chars = Append(@, Append(d.open, byte)), !.open = <<>>]

Decoded(bytes) ==
  LET Upto[n \in 0..Len(bytes)] ==
        IF n = 0 THEN [chars |-> <<>>, open |-> <<>>, valid |-> TRUE]
        ELSE DecodedByte(Upto[n - 1], bytes[n])
  IN Upto[Len(bytes)]

IsReference(char) == char[1] \in DOMAIN RefersTo
Referred(char) == IF IsReference(char) THEN RefersTo[char[1]] ELSE char

\* One turn of restore_control_characters.
RestoredChar(e, r, char) ==
  CASE r.escaped /\ char = e.escape -> [r EXCEPT !.chars = Append(@, char), !.escaped = FALSE]
    [] r.escaped /\ char = e.replacement -> [r EXCEPT !.chars = Append(@, U08), !.escaped = FALSE]
    [] r.escaped /\ char \notin {e.escape, e.replacement} -> [r EXCEPT !.valid = FALSE]
    [] ~r.escaped /\ char = e.escape -> [r EXCEPT !.escaped = TRUE]
    [] ~r.escaped /\ char # e.escape -> [r EXCEPT !.chars = Append(@, char)]

Unread == [chars |-> <<>>, escaped |-> FALSE, valid |-> TRUE]

\* What is not UTF-8 cannot be read.
Read(d, r) == [r EXCEPT !.valid = @ /\ d.valid /\ d.open = <<>>]

\* decode_name and decode_attributes: references are resolved before.
AttributeChar(e, r, char) == RestoredChar(e, r, Referred(char))

AttributeChars(e, chars) ==
  LET Upto[n \in 0..Len(chars)] ==
        IF n = 0 THEN Unread ELSE AttributeChar(e, Upto[n - 1], chars[n])
  IN Upto[Len(chars)]

AttributeRead(e, bytes) == Read(Decoded(bytes), AttributeChars(e, Decoded(bytes).chars))

\* Text comes in events; a reference is one of its own (resolve_reference), and
\* an escape ends with the event it began in.
TextChar(e, r, char) ==
  IF IsReference(char)
    THEN [r EXCEPT !.chars = Append(@, Referred(char)),
                   !.valid = @ /\ ~r.escaped /\ Referred(char) # e.escape]
    ELSE RestoredChar(e, r, char)

TextChars(e, chars) ==
  LET Upto[n \in 0..Len(chars)] ==
        IF n = 0 THEN Unread ELSE TextChar(e, Upto[n - 1], chars[n])
  IN Upto[Len(chars)]

TextRead(e, bytes) == Read(Decoded(bytes), TextChars(e, Decoded(bytes).chars))

(***************************************************************************)
(* Records.                                                                *)
(***************************************************************************)

Depth == 2   \* of the element below the entry

\* The records of an element, and the headword they give.
Records(name, value, text) ==
  <<[kind |-> "start", depth |-> Depth, name |-> name, value |-> <<>>,
     attributes |-> <<[name |-> <<<<"a">>>>, value |-> value]>>]>>
  \o (IF Blank(text) THEN <<>>
      ELSE <<[kind |-> "text", depth |-> Depth, name |-> <<>>, value |-> text,
              attributes |-> <<>>]>>)
  \o <<[kind |-> "end", depth |-> Depth, name |-> name, value |-> <<>>, attributes |-> <<>>]>>

\* extract_headword, or the number of the entry.
Headword(text) == IF Blank(text) THEN <<<<"1">>>> ELSE Trim(text)

Summary(name, value, text) ==
  [records |-> Records(name, value, text), entries |-> 1, headwords |-> <<Headword(text)>>]

\* Where the n-th "<" is.
Markup(bytes, n) ==
  CHOOSE i \in DOMAIN bytes :
    /\ bytes[i] = "<"
    /\ n = 1 <=> \A j \in 1..(i - 1) : bytes[j] # "<"

\* What the parser makes of the filtered bytes, with the escape of its filter.
Parsed(e, bytes) ==
  LET first == Markup(bytes, 1)
      second == Markup(bytes, 2)
  IN [name |-> AttributeRead(e, SubSeq(bytes, 1, first - 1)),
      value |-> AttributeRead(e, SubSeq(bytes, first + 1, second - 1)),
      text |-> TextRead(e, SubSeq(bytes, second + 1, Len(bytes)))]

Accepted(p) ==
  \A piece \in {p.name, p.value, p.text} : piece.valid /\ ~piece.escaped

(***************************************************************************)
(* Rendering.                                                              *)
(***************************************************************************)

\* An event has a character if it is text, or the start of a control.
PageEvent(type) == [type |-> type, class |-> "", kind |-> "", depth |-> 0, char |-> <<>>]
Start(class) == [PageEvent("start") EXCEPT !.class = class]
Text(char) == [PageEvent("text") EXCEPT !.char = char]
End == PageEvent("end")

Span(class, events) == <<Start(class)>> \o events \o <<End>>

\* escape_xml: what it escapes the parser resolves again.
EscapeXml(chars) == [i \in DOMAIN chars |-> Text(chars[i])]

\* render_value; the glyph of a control stands for the label.
RenderValue(chars) ==
  FlattenSeq([i \in DOMAIN chars |->
    IF chars[i] = U08
      THEN <<[Start("xml-control") EXCEPT !.char = chars[i]], Text(<<"2408">>), End>>
      ELSE <<Text(chars[i])>>])

RenderAttribute(a) ==
  Span("xml-attribute", Span("xml-attribute-name", EscapeXml(a.name))
                        \o Span("xml-attribute-value", RenderValue(a.value)))

\* render_record
RenderRecord(r) ==
  <<[Start("record") EXCEPT !.kind = r.kind, !.depth = r.depth]>>
  \o (IF r.kind = "text" THEN Span("xml-text-value", RenderValue(r.value))
      ELSE Span("xml-name", EscapeXml(r.name))
           \o FlattenSeq([i \in DOMAIN r.attributes |-> RenderAttribute(r.attributes[i])]))
  \o <<End>>

\* render_entry
RenderEntry(s) ==
  Span("entry",
       Span("entry-heading", RenderValue(s.headwords[1]))
       \o FlattenSeq([i \in DOMAIN s.records |-> RenderRecord(s.records[i])]))

(***************************************************************************)
(* The two readings of the source.                                         *)
(***************************************************************************)

Bytes(s) == s.name \o <<"<">> \o s.value \o <<"<">> \o s.text

NoSummary == [records |-> <<>>, entries |-> 0, headwords |-> <<>>]

Init ==
  /\ source \in Sources
  /\ phase = "convert"
  /\ input = Bytes(source)
  /\ match = <<>>
  /\ output = <<>>
  /\ eof = FALSE
  /\ taken = <<>>
  /\ expected = NoSummary
  /\ page = <<>>
  /\ tampered = FALSE
  /\ position = 1
  /\ stack = <<>>
  /\ record = <<>>
  /\ heading = <<>>
  /\ found = NoSummary
  /\ outcome = "none"

Ends(result) ==
  /\ phase' = "ended"
  /\ outcome' = result

ConversionReads ==
  /\ phase = "convert"
  /\ Conversion!Next
  /\ UNCHANGED <<source, phase, expected, page, tampered, reading, outcome>>

\* build_volume, for the one element.
Converts(p) ==
  /\ IF Accepted(p)
       THEN /\ page' = RenderEntry(Summary(p.name.chars, p.value.chars, p.text.chars))
            /\ phase' = "built"
            /\ UNCHANGED outcome
       ELSE Ends("build_failed") /\ UNCHANGED page
  /\ UNCHANGED <<source, filter, expected, tampered, reading>>

Convert ==
  /\ phase = "convert"
  /\ Conversion!Exhausted
  /\ Converts(Parsed(ConversionEscape, taken))

BeginAudit ==
  /\ phase = "built"
  /\ phase' = "audit"
  /\ input' = Bytes(source)
  /\ match' = <<>>
  /\ output' = <<>>
  /\ eof' = FALSE
  /\ taken' = <<>>
  /\ UNCHANGED <<source, expected, page, tampered, reading, outcome>>

\* AuditControlReader
AuditReads ==
  /\ phase = "audit"
  /\ Audit!Next
  /\ UNCHANGED <<source, phase, expected, page, tampered, reading, outcome>>

\* audit_source
AuditsSource(p) ==
  /\ IF Accepted(p)
       THEN /\ expected' = Summary(p.name.chars, p.value.chars, p.text.chars)
            /\ phase' = "page"
            /\ UNCHANGED outcome
       ELSE Ends("audit_failed") /\ UNCHANGED expected
  /\ UNCHANGED <<source, filter, page, tampered, reading>>

AuditSource ==
  /\ phase = "audit"
  /\ Audit!Exhausted
  /\ AuditsSource(Parsed(AuditEscape, taken))

(***************************************************************************)
(* The book is changed in one place, as the tests of the audit do: a node  *)
(* is gone, is there twice, has changed places with the next of its class, *)
(* or says something else. Nodes are elements and characters. The audit    *)
(* does not see all of a page: neither the glyphs of controls nor whether  *)
(* the name of a record stands before its attributes.                      *)
(***************************************************************************)

\* Where the node at i ends.
EndOf(p, i) ==
  IF p[i].type = "text" THEN i
  ELSE CHOOSE j \in (i + 1)..Len(p) :
         LET Count(type, k) == Len(SelectSeq(SubSeq(p, i, k), LAMBDA e : e.type = type))
         IN /\ Count("start", j) = Count("end", j)
            /\ \A k \in i..(j - 1) : Count("start", k) # Count("end", k)

\* The glyph of a control is not what the audit reads.
IsGlyph(p, i) == i > 1 /\ p[i - 1].type = "start" /\ p[i - 1].class = "xml-control"
Nodes(p) == {i \in DOMAIN p : p[i].type # "end" /\ ~IsGlyph(p, i)}

Before(p, i) == SubSeq(p, 1, i - 1)
Node(p, i) == SubSeq(p, i, EndOf(p, i))
After(p, i) == SubSeq(p, EndOf(p, i) + 1, Len(p))

Altered(e) ==
  CASE e.type = "text" -> {Text(<<"c">>)}
    [] e.class = "record" -> {[e EXCEPT !.class = "plain"], [e EXCEPT !.depth = @ + 1],
                              [e EXCEPT !.kind = IF @ = "text" THEN "tail" ELSE "end"]}
    [] e.class = "xml-control" -> {[e EXCEPT !.class = "plain"], [e EXCEPT !.char = <<"0C">>]}
    [] OTHER -> {[e EXCEPT !.class = "plain"], [e EXCEPT !.class = "xml-attribute"]}

Changed(p) ==
  UNION {
    {Before(p, i) \o After(p, i), Before(p, i) \o Node(p, i) \o Node(p, i) \o After(p, i)}
    \cup {[p EXCEPT ![i] = e] : e \in Altered(p[i])}
    \cup {Before(p, i) \o Node(p, j) \o Node(p, i) \o After(p, j) :
            j \in {k \in {EndOf(p, i) + 1} \cap Nodes(p) : p[k].class = p[i].class}} :
    i \in Nodes(p)} \ {p}

ChangeBook ==
  /\ phase = "page" /\ position = 1 /\ ~tampered
  /\ Len(Bytes(source)) <= MaxTampered
  /\ page' \in Changed(page)
  /\ tampered' = TRUE
  /\ UNCHANGED <<source, phase, filter, expected, reading, outcome>>

(***************************************************************************)
(* audit_xhtml. An Option is a sequence of at most one.                    *)
(***************************************************************************)

Event == page[position]

ReadingPage(type) ==
  /\ phase = "page"
  /\ position <= Len(page)
  /\ Event.type = type
  /\ position' = position + 1
  /\ UNCHANGED <<source, filter, expected, page, tampered>>

\* RecordTarget
Targets == {"xml-name", "xml-attribute-name", "xml-attribute-value", "xml-text-value"}

\* The target of the innermost context that has one.
TargetOf(contexts) ==
  LET targeted == {i \in DOMAIN contexts : contexts[i].target # ""}
  IN IF targeted = {} THEN "" ELSE contexts[CHOOSE i \in targeted : \A j \in targeted : i >= j].target

Appended(r, target, char) ==
  CASE target = "xml-name" -> [r EXCEPT ![1].name = Append(@, char)]
    [] target = "xml-attribute-name" -> [r EXCEPT ![1].current[1].name = Append(@, char)]
    [] target = "xml-attribute-value" -> [r EXCEPT ![1].current[1].value = Append(@, char)]
    [] target = "xml-text-value" -> [r EXCEPT ![1].value = Append(@, char)]
    [] OTHER -> r

\* What append_record_target refuses.
Misplaced(r, target) ==
  target # "" /\ (r = <<>> \/ (target \in {"xml-attribute-name", "xml-attribute-value"}
                               /\ r[1].current = <<>>))

\* The record after an element has begun.
Captured(e) ==
  CASE record = <<>> /\ e.class = "record" ->
         <<[kind |-> e.kind, depth |-> e.depth, name |-> <<>>, attributes |-> <<>>,
            current |-> <<>>, value |-> <<>>]>>
    [] record # <<>> /\ e.class = "xml-attribute" ->
         [record EXCEPT ![1].current = <<[name |-> <<>>, value |-> <<>>]>>]
    [] OTHER -> record

\* ElementContext; both of its suppressions are those of a control.
Context(e) ==
  [recordRoot |-> record = <<>> /\ e.class = "record",
   attributeRoot |-> record # <<>> /\ e.class = "xml-attribute",
   headingRoot |-> heading = <<>> /\ e.class = "entry-heading",
   target |-> IF record # <<>> /\ e.class \in Targets THEN e.class ELSE "",
   control |-> e.class = "xml-control"]

\* begin_xhtml_element with its context pushed.
BeginsElement(e, contexts) ==
  /\ record' = IF e.class = "xml-control" THEN Appended(Captured(e), TargetOf(contexts), e.char)
               ELSE Captured(e)
  /\ heading' = IF Context(e).headingRoot THEN <<<<>>>>
                ELSE IF e.class = "xml-control" /\ heading # <<>>
                  THEN <<Append(heading[1], e.char)>>
                ELSE heading
  /\ found' = [found EXCEPT !.entries = IF e.class = "entry" THEN @ + 1 ELSE @]
  /\ stack' = contexts
  /\ UNCHANGED <<phase, outcome>>

AuditStart ==
  /\ ReadingPage("start")
  /\ IF \/ Event.class = "xml-attribute" /\ record # <<>> /\ record[1].current # <<>>
        \/ /\ Event.class = "xml-control"
           /\ Misplaced(Captured(Event), TargetOf(Append(stack, Context(Event))))
       THEN Ends("audit_failed") /\ UNCHANGED <<stack, record, heading, found>>
       ELSE BeginsElement(Event, Append(stack, Context(Event)))

\* What the parser makes of a character: the ends of lines are normalized.
Normalized(char) == IF char = U0D THEN U0A ELSE char

\* append_xhtml_text
AppendsText(char, target) ==
  IF Misplaced(record, target)
    THEN Ends("audit_failed") /\ UNCHANGED <<stack, record, heading, found>>
    ELSE /\ record' = Appended(record, target, char)
         /\ heading' = IF heading # <<>> /\ ~\E i \in DOMAIN stack : stack[i].control
                         THEN <<Append(heading[1], char)>> ELSE heading
         /\ UNCHANGED <<phase, stack, found, outcome>>

AuditText ==
  /\ ReadingPage("text")
  /\ AppendsText(Normalized(Event.char),
       IF record = <<>> \/ \E i \in DOMAIN stack : stack[i].control THEN "" ELSE TargetOf(stack))

\* RecordCapture::finish
Finished(r) ==
  [kind |-> r.kind, depth |-> r.depth,
   name |-> IF r.kind \in {"start", "end"} THEN r.name ELSE <<>>,
   value |-> IF r.kind \in {"text", "tail"} THEN r.value ELSE <<>>,
   attributes |-> IF r.kind = "start" THEN r.attributes ELSE <<>>]

Unfinished(r) ==
  r.current # <<>> \/ (r.kind \in {"start", "end"} /\ r.name = <<>>)

\* finish_xhtml_element
FinishesElement(context) ==
  IF \/ context.attributeRoot /\ record[1].current[1].name = <<>>
     \/ context.recordRoot /\ Unfinished(record[1])
    THEN Ends("audit_failed") /\ UNCHANGED <<record, heading, found>>
    ELSE /\ record' = CASE context.attributeRoot ->
                             [record EXCEPT ![1].attributes = @ \o record[1].current,
                                            ![1].current = <<>>]
                        [] context.recordRoot -> <<>>
                        [] OTHER -> record
         /\ heading' = IF context.headingRoot THEN <<>> ELSE heading
         /\ found' = [found EXCEPT
              !.records = IF context.recordRoot THEN Append(@, Finished(record[1])) ELSE @,
              !.headwords = IF context.headingRoot THEN Append(@, Trim(heading[1])) ELSE @]
         /\ UNCHANGED <<phase, outcome>>

AuditEnd ==
  /\ ReadingPage("end")
  /\ stack' = SubSeq(stack, 1, Len(stack) - 1)
  /\ FinishesElement(stack[Len(stack)])

\* The end of audit_xhtml, and the checks of audit_volume.
AuditEof ==
  /\ phase = "page"
  /\ position > Len(page)
  /\ Ends(IF record # <<>> \/ heading # <<>> \/ stack # <<>> THEN "audit_failed"
          ELSE IF found = expected THEN "passed" ELSE "mismatch")
  /\ UNCHANGED <<source, filter, expected, page, tampered, reading>>

Next ==
  \/ ConversionReads \/ Convert
  \/ ChangeBook
  \/ BeginAudit \/ AuditReads \/ AuditSource
  \/ AuditStart \/ AuditText \/ AuditEnd \/ AuditEof

Spec == Init /\ [][Next]_vars

-----------------------------------------------------------------------------
(***************************************************************************)
(* Properties.                                                             *)
(***************************************************************************)

\* The characters XML gives to a piece of the source, its controls included.
Meant(bytes) ==
  LET d == Decoded(bytes) IN [i \in DOMAIN d.chars |-> Referred(d.chars[i])]

Meaning == Summary(Meant(source.name), Meant(source.value), Meant(source.text))

Refers(bytes, names) == \E i \in DOMAIN bytes : bytes[i] \in names

\* A book passes its audit only if it shows the source: whatever the conversion
\* misread, the audit itself misread or somebody changed, the verdict tells. Only
\* if an attribute refers to the audit's own escape can a change hide what the audit
\* misreads.
PassedMeansPreserved ==
  outcome = "passed" =>
    \/ page = RenderEntry(Meaning)
    \/ tampered /\ Refers(source.value, {"&#xE100;"})

\* UTF-8, without a reference to an escape or to a carriage return.
Ordinary(bytes) ==
  /\ Decoded(bytes).valid /\ Decoded(bytes).open = <<>>
  /\ ~Refers(bytes, {"&#xE000;", "&#xE100;", "&#13;"})

\* The conversion and the audit of an ordinary source succeed, however its bytes
\* fall into reads and whatever controls and private use characters it has, unless
\* somebody changed the book.
OrdinarySourcePasses ==
  outcome \notin {"none", "passed"} =>
    tampered \/ \E bytes \in {source.name, source.value, source.text} : ~Ordinary(bytes)

\* REQUIREMENTS.md, "모든 요소명, 속성명·값, 의미 있는 요소 텍스트와 tail 텍스트
\* ... 보존합니다" (every element name, attribute name and value, and meaningful
\* text is preserved): what a parser reads from an untouched book is what the
\* source says.
ValuesPreserved ==
  outcome \in {"passed", "mismatch"} /\ ~tampered => found.records = Meaning.records
=============================================================================
