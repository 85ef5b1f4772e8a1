\* A crawl that may be canceled, with a limit it can reach.
SPECIFICATION FairSpec
CONSTANTS
  r = r
  a = a
  b = b
  c = c
  d = d
  Page = {r, a, b, c, d}
  Worker = {w1, w2}
  Main = Main
  None = None
  Seeds <- SmallSitemap
  Links <- Site
  Blocked = {d}
  MaxPages = 3
  MaxDepth = 1
  CanCancel = TRUE
INVARIANT TypeOK
INVARIANT GroupExact
INVARIANT PageLimit
INVARIANT OnceEach
INVARIANT DiesOnlyEarly
INVARIANT Complete
PROPERTY Returns
\* A crawl that has returned, or hangs once canceled, takes no more steps.
CHECK_DEADLOCK FALSE
