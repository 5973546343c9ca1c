\* A rebuild and another session that writes to the database it replaces.
SPECIFICATION Spec
CONSTANTS
  f1 = f1
  c1 = c1
  s1 = s1
  s2 = s2
  Files = {f1}
  Commits = {c1}
  Sessions = {s1, s2}
  Modes = {"new", "resume", "rebuild"}
  NoCommit = NoCommit
  NoFile = NoFile
SYMMETRY ImportSymmetry
PROPERTIES PublishSparesSidecars
