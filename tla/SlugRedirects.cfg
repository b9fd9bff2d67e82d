SPECIFICATION SlugSpec
CONSTANTS
  Editors = {e1, e2}
  Rows = {r1, r2}
  Slugs = {a, b, c}
  Names = {n1, n2}
  None = None
  Gone = Gone
  MaxLost = 1
  MaxRedirects = 3
CONSTRAINT FewLost
CONSTRAINT FewRedirects
SYMMETRY Symmetry
INVARIANTS
  OldPathsLand
  OldTagsAnswered
