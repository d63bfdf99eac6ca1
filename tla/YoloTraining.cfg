SPECIFICATION Spec
CONSTANTS
  Manifests <- MCManifests
  ClassMap = {1, 2}
  MaxConversions = 2
  Submissions = {s1, s2}
  Files <- MCFiles
  Checked = {"data"}
  Stamps = {t1, t2}
  Broken = broken
SYMMETRY Settings
INVARIANTS TypeOK Converted WholeLabels OwnConfig
CHECK_DEADLOCK FALSE
