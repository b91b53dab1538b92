SPECIFICATION BootSpec
CONSTANTS
  BdsPaths = {"disk", "short", "whole", "stick", "mem", "pxe", "dhcp", "static", "nowhere", "app"}
  BdsBlock = 2
  BdsFileSize = {1, 2, 3}
  BdsMaxFaults = 1
  FdtPaths = {"disk", "mem", "nowhere"}
  FdtMaxOps = 2
  BoMaxIndex = 2
  BoContents = {0, 3}
  BoMaxOps = 5
  BoMaxFaults = 1
  AxFile = 3
  AxBase = 6
  AxHeaders = {0, 2, 4}
  AxPage = 2
  AxMaxGrow = 2
  AxMaxOps = 3
  AxMaxFaults = 1
  BmBlock = 3
  BmLast = 3
  BmNames = {"a", "b"}
  BmSizes = {1, 3}
  BmSeeks = {0}
  BmMaxFiles = 3
  BmMaxRegions = 2
  BmMaxOps = 5
  BmMaxFaults = 1
INVARIANTS BdsCleansUp BdsImageLoaded FdtFirstWins FdtShellFree BootOptionsKept AxMapFits AxImageCorrect BmScanFindsFiles BmListIsFlash
PROPERTIES  BmIsolation
