SPECIFICATION Spec
CONSTANTS
  PoolStart = 1
  PoolEnd = 4
  Top = 6
  PayloadSize = 2
  Versions = {"probe", "linux"}
  Cards = {"crd0"}
  Modes = {"library", "text"}
  Keys = {"k1", "k2"}
  MaxFaults = 1
INVARIANTS PathAgrees LockedWhenIdle SessionsSeparate RunsWholeBuild StaysInPool PressesCounted
PROPERTIES AddonsKept DropNoticed
