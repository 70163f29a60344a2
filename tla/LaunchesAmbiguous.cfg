SPECIFICATION Spec
CONSTANTS
  w1 = w1
  w2 = w2
  l1 = l1
  l2 = l2
  Sessions = {s1}
  Launches = {l1, l2}
  Windows = {w1, w2}
  LayerShell = {w1}
  Forked = {w2}
  Hints <- TwoHints
  Handlers = {h1, h2}
  None = None
CHECK_DEADLOCK FALSE
PROPERTIES
  AmbiguousUnbound
