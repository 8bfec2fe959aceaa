SPECIFICATION Spec
CONSTANTS
  Sources = {"s1", "s2"}
  Handlers = {h1, h2}
  Learned = {"s1"}
  Refreshes = {r1, r2}
  Columns = {"a", "b"}
  Tables = {"T", "U"}
  TableOf <- MCTableOf
  Texts = {"none", "short", "long"}
  InitialText <- MCInitialText
  LongTexts = {"long"}
  Keys <- MCKeys
  MaxCommits = 1
SYMMETRY Symmetry
INVARIANTS OnlyRivalsActive VectorsCurrent GraphMirrors NothingUnowned GoneStaysGone
CHECK_DEADLOCK FALSE
