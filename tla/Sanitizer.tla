----------------------------- MODULE Sanitizer -----------------------------
(***************************************************************************)
(* The byte filter in front of the XML parser: ControlSanitizer in         *)
(* src/source.rs. A control byte that XML 1.0 forbids becomes an escape    *)
(* character and a replacement character, an escape character of the input *)
(* is doubled. The escape is three bytes in UTF-8, which two reads of the  *)
(* input may share. The audit has a filter of its own (AuditControlReader  *)
(* in src/audit.rs), with another escape.                                  *)
(***************************************************************************)
EXTENDS Naturals, Sequences, SequencesExt

CONSTANTS
  Capacity,     \* SANITIZER_INPUT_CAPACITY
  Controls,     \* FORBIDDEN_XML_CONTROLS
  Escape,       \* the bytes of CONTROL_ESCAPE
  Replacements  \* for each control, the bytes that follow the escape

VARIABLES
  input,   \* bytes of the file not read yet
  match,   \* escape_match: a beginning of Escape that was held back
  output,  \* output, from output_position on
  eof,
  taken    \* what the XML parser has been given

\* Mutant of Filtered: bytes held back are dropped when the match fails.
FilteredDropping(f, byte) ==
  LET matched == Append(f.match, byte) IN
  CASE matched = Escape -> [match |-> <<>>, output |-> f.output \o Escape \o Escape]
    [] matched # Escape /\ IsPrefix(matched, Escape) -> [f EXCEPT !.match = matched]
    [] ~IsPrefix(matched, Escape) /\ byte = Escape[1] -> [f EXCEPT !.match = <<byte>>]
    [] OTHER -> [match |-> <<>>,
                 output |-> f.output \o IF byte \in Controls THEN Escape \o Replacements[byte]
                                        ELSE <<byte>>]

\* One turn of the loop over the bytes of a read.
Filtered(f, byte) ==
  LET matched == Append(f.match, byte)
      flushed == f.output \o f.match
  IN CASE matched = Escape -> [match |-> <<>>, output |-> f.output \o Escape \o Escape]
       [] matched # Escape /\ IsPrefix(matched, Escape) -> [f EXCEPT !.match = matched]
       [] ~IsPrefix(matched, Escape) /\ byte = Escape[1] ->
            [match |-> <<byte>>, output |-> flushed]
       [] OTHER -> [match |-> <<>>,
                    output |-> flushed \o IF byte \in Controls
                                            THEN Escape \o Replacements[byte]
                                            ELSE <<byte>>]

\* The loop over the bytes of a read.
FilteredAll(f, bytes) ==
  LET Upto[n \in 0..Len(bytes)] == IF n = 0 THEN f ELSE Filtered(Upto[n - 1], bytes[n])
  IN Upto[Len(bytes)]

\* fill_output with a read of n bytes.
Fill(n) ==
  /\ output = <<>>
  /\ LET f == FilteredAll([match |-> match, output |-> <<>>], SubSeq(input, 1, n))
     IN match' = f.match /\ output' = f.output
  /\ input' = SubSeq(input, n + 1, Len(input))
  /\ UNCHANGED <<eof, taken>>

\* fill_output at the end of the file: what was held back is handed out.
FillLast ==
  /\ output = <<>> /\ input = <<>> /\ ~eof
  /\ output' = match
  /\ match' = <<>>
  /\ eof' = TRUE
  /\ UNCHANGED <<input, taken>>

\* Read::read copies n bytes, as many as there are or as the parser asks for.
Take(n) ==
  /\ output # <<>>
  /\ taken' = taken \o SubSeq(output, 1, n)
  /\ output' = SubSeq(output, n + 1, Len(output))
  /\ UNCHANGED <<input, match, eof>>

Next ==
  \/ \E n \in 1..Capacity : n <= Len(input) /\ Fill(n)
  \/ FillLast
  \/ \E n \in 1..Len(output) : Take(n)

\* Read::read has returned 0.
Exhausted == eof /\ output = <<>>
=============================================================================
