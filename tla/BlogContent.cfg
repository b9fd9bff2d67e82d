CONSTANTS
  Blogs = {b1, b2}
  Posts = {p1, p2}
  Sites = {s1, s2}
  None = None
SPECIFICATION Spec
SYMMETRY Symmetry
INVARIANTS
  TypeOK
  PostsBelong
  MarkerInForce
  CascadeRestorable
  UntouchedStayArchived
PROPERTIES
  FlagAudited
  CascadeAudited
  KeepsEditorialPromise
