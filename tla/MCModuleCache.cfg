SPECIFICATION Spec
CONSTANTS
  c1 = c1
  c2 = c2
  c3 = c3
  p1 = p1
  p2 = p2
  b1 = b1
  b2 = b2
  None = None
  Eof = Eof
  Hole = Hole
  Broken = Broken
  Compilers = {c1, c2, c3}
  Programs = {p1, p2}
  Bindings = {b1}
  Requests <- RequestPairs
  Rejected <- RejectedPairs
  GradRuntime = {p1}
  Chunks = 2
  MaxCompiles = 3
  MaxCrashes = 1
SYMMETRY Symmetry
INVARIANTS ServesRequested CacheInv GradientLinksIfFirst
PROPERTY CachedFileOnlyGrows
