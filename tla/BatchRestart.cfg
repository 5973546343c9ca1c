\* Two executions over one output directory: the second starts from whatever
\* the first, finished or killed, left in it. Either may use one worker or both.
CONSTANTS
  N = 2
  Workers = {w1, w2}
  MaxRuns = 2
SYMMETRY WorkerSymmetry
SPECIFICATION Spec
CHECK_DEADLOCK FALSE
INVARIANTS
  TypeOK
  VolumesConserved
  PassedMeansVerified
  ReportAccountsForCatalogue
  OverrunBounded
  ResumeAuditsExisting
