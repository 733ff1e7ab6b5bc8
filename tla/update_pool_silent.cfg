CONSTANTS
  metadata = metadata
  header = header
  n1 = n1
  n2 = n2
  NoRpc = NoRpc
  NoWork = NoWork
  Workers = {w1, w2}
  Nodes <- MCNodes
  Loops <- MCLoops
  Rpcs <- MCRpcs
  Lead <- MCLead
  Follow <- MCFollow
  Scope <- MCScope
  HungNodes <- MCHung
SPECIFICATION FairSpec
PROPERTY RoundsComplete
