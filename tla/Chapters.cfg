\* Every source of up to 7 records, nested at most 3 deep, with fragments below,
\* at and above the byte limit. A conversion that has ended stays ended.
SPECIFICATION Spec
CONSTANTS
  EntriesPerChapter = 2
  ChapterBytes = 3
  Sizes = {1, 4}
  MaxRecords = 7
  MaxOpen = 3
INVARIANTS TypeOK RecordsConserved EntryLabelsRunOn LimitsKept NoNeedlessSplit NeverUnclosed
CHECK_DEADLOCK FALSE
