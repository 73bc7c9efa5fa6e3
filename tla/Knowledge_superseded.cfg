SPECIFICATION MCSpec
CONSTANTS
  s1 = s1
  s2 = s2
  c0 = c0
  c1 = c1
  SourceOrder <- MCSourceOrder
  Contents = {c0, c1}
  NoDigest = NoDigest
  Clones = {k1, k2}
  Versions = {1, 2}
  Ranges <- MCOverlaps
  PackIds = {1, 2}
  NoBranch = NoBranch
  OnlyBase = OnlyBase
  MaxTime = 1
  MaxPacks = 2
SYMMETRY Symmetry
CONSTRAINT TwoProposals
INVARIANT SupersededReplaced
