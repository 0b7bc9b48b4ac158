SPECIFICATION FbFairSpec
CONSTANTS
  Drawers = {console, writer}
  MaxOps = 3
INVARIANT NoLostRefresh
PROPERTY LastFrameShown
