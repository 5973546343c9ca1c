\* Two files of krdict and one of each of the others, with the same keys. Once all
\* are imported nothing is left to do.
SPECIFICATION Spec
CONSTANTS
  k1 = k1
  k2 = k2
  s1 = s1
  o1 = o1
  Files <- MCFiles
  DictionaryOf <- MCDictionaryOf
  Sources <- MCSources
INVARIANTS EntryOwnsItsRecords CorpusAccountsForEntries HeadwordFromFirst OnlyTrueRowsValidate
PROPERTIES RefusedForCause
CHECK_DEADLOCK FALSE
