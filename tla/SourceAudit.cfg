\* Two audits of one corpus, which may change once. At the end both have stopped.
SPECIFICATION Spec
CONSTANTS
  Audits = {"a1", "a2"}
  Corpora <- MCCorpora
  Later <- MCLater
  Labels <- MCLabels
  Urls <- MCUrls
INVARIANTS RelationsOfTheirContainers ResolvedIsTheOneMatch CyclesAreMutual CountsAgree MixedOnlyWhenCutShort
CHECK_DEADLOCK FALSE
