\* Every source of up to 7 events, what an entry with its headword takes, for
\* krdict and for the others: the inner element is a word_info, or the feat of
\* a written form.
SPECIFICATION TwoSpec
CONSTANTS
  Names = {entry, inner, word}
  Garbled = garbled
  MaxEvents = 7
  MaxOpen = 3
  Entry = entry
  WordInfo = inner
  Word = word
  Written = inner
INVARIANTS InkInOrder SummariesAgree
PROPERTIES ReadersAgree ImplementsStream
CHECK_DEADLOCK FALSE
