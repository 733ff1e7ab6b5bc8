CONSTANTS
  loop = loop
  n1 = n1
  n2 = n2
  n3 = n3
  NoRpc = NoRpc
  NoWork = NoWork
  Workers = {w1, w2}
  Second = "PendingCXRPC"
  Nodes <- MCNodes
  Loops <- MCLoops
  Rpcs <- MCRpcs
  Lead <- MCLead
  Follow <- MCFollow
  Scope <- MCScope
  HungNodes = {}
SPECIFICATION FairSpec
INVARIANT NoMapRaceAlone
PROPERTIES ImplementsPollRound RoundsComplete
