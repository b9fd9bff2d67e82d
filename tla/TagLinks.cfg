SPECIFICATION Spec
CONSTANTS
  Txs = {t1, t2}
  Posts = {p1, p2}
  Tags = {k1, k2}
  Categories = {c1}
  Links = {l1, l2, l3}
  MaxAsked = 2
  None = None
  MaxTrashed = 1
CONSTRAINTS TwoCommitted FewTrashed CategoriesOrLinks FailingIsDying
SYMMETRY Symmetry
INVARIANTS
  ReferencesResolve
  
PROPERTIES
  SetStands
