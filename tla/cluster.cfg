\* A node that starts, serves, shuts down or dies at any time, and a peer.
\* No symmetry: the run checks liveness properties.
SPECIFICATION FairSpec
CONSTANTS
  n1 = n1
  n2 = n2
  Nodes = {n1, n2}
  Keys = {k1}
  NodeID <- MCNodeID
  MaxPublish = 1
  MaxWrites <- MCMaxWrites
  Mortal = {n1}
INVARIANTS DoomedIsOnItsWay AckedIsTriedAtExit
PROPERTIES ExitsUnlessStalled DoomedIsDropped
CHECK_DEADLOCK FALSE
