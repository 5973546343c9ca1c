\* Three sessions in any mode create, resume and rebuild one database, beside and
\* after each other, failing or killed at any step.
SPECIFICATION Spec
CONSTANTS
  f1 = f1
  f2 = f2
  c1 = c1
  c2 = c2
  s1 = s1
  s2 = s2
  s3 = s3
  Files = {f1, f2}
  Commits = {c1, c2}
  Sessions = {s1, s2, s3}
  Modes = {"new", "resume", "rebuild"}
  NoCommit = NoCommit
  NoFile = NoFile
SYMMETRY ImportSymmetry
INVARIANTS TypeOK ReadyServable FinalizeOkMeansReady ReadyImpliesComplete
PROPERTIES ImplementsCell RebuildSwapsOnly
