SPECIFICATION Spec
CONSTANTS
  PoolStart = 1
  PoolEnd = 4
  Top = 6
  PayloadSize = 2
  Versions = {"probe", "linux"}
  Cards = {"crd0"}
  Modes = {"library"}
  Keys = {"k1", "k2"}
  MaxFaults = 0
PROPERTIES AuthChangesNothing
