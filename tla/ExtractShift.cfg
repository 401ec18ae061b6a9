SPECIFICATION Spec
CONSTANTS
  p = p
  q = q
  r = r
  m = m
  testdata = testdata
  Absent = Absent
  Pkgs <- MCPkgs
  Excluded = {testdata}
  File <- MCFile
  Contents <- MCContents
  Trees <- MCTrees
  ChunkSizes = {3, 8}
  MaxEdits = 3
INVARIANT LinksCorrect
CHECK_DEADLOCK FALSE
