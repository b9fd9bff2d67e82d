SPECIFICATION Spec
CONSTANTS
  Txs = {t1, t2, t3}
  Posts = {p1, p2}
  Sites = {s1, s2}
  None = None
SYMMETRY Symmetry
INVARIANTS
  NoOrphans
  DriftOnlyAcrossMove
  PostsFollowBlog
