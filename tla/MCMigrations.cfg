\* Three releases deployed at the same time, two of them probed, with crashes.
SPECIFICATION FairSpec
CONSTANTS
  old_r = old_r
  new_r = new_r
  edited_r = edited_r
  old_q = old_q
  new_q = new_q
  a = a
  b = b
  c = c
  x = x
  y = y
  Runners = {old_r, new_r, edited_r}
  Probes = {old_q, new_q}
  Migration = {a, b, c, x, y}
  MaxVersion = 3
  Files <- MCFiles
INVARIANTS
  HistoryIsSchema
  OneLineage
  ReportsTrue
PROPERTIES
  RunsEnd
