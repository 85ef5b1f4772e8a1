\* A crawl that is canceled while pages are queued.
SPECIFICATION FairSpec
CONSTANTS
  r = r
  a = a
  b = b
  c = c
  d = d
  Page = {r, a, b, c, d}
  Worker = {w1, w2}
  Main = Main
  None = None
  Seeds <- SmallSitemap
  Links <- Site
  Blocked = {d}
  MaxPages = 2
  MaxDepth = 2
  CanCancel = TRUE
PROPERTY CancelReturns
\* A crawl that hangs or has returned takes no more steps.
CHECK_DEADLOCK FALSE
